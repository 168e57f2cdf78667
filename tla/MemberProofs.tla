---------------------------- MODULE MemberProofs ----------------------------
(***************************************************************************)
(* Proofs about the parts of a member's process: the rotation of its       *)
(* certificate (Rotation), the identity keys it verifies tokens with       *)
(* (KeySet), and its way from the first check to the exit (Lifecycle).     *)
(***************************************************************************)
EXTENDS KeySet, Rotation, Lifecycle, TLAPS

------------------------------------------------------------------------------
(* Rotation                                                                  *)

\* The elements of a sequence of three, and the length of a shorter one.
LEMMA UpToThree ==
  ASSUME NEW s \in Seq(Nat)
  PROVE  /\ Len(s) = 3 => \A i \in 1 .. 3 : s[i] \in Nat
         /\ Len(s) < 3 => Len(s) = 0 \/ Len(s) = 1 \/ Len(s) = 2
<1>1. Len(s) \in Nat /\ \A i \in 1 .. Len(s) : s[i] \in Nat
  OBVIOUS
<1>2. Len(s) = 3 => \A i \in 1 .. 3 : s[i] \in Nat
  BY <1>1, Zenon
<1>3. \A n \in Nat : n < 3 => n = 0 \/ n = 1 \/ n = 2
  OBVIOUS
<1>4. QED
  BY <1>1, <1>2, <1>3, Zenon

\* The order in which reload reads the files.
LEMMA OrderOfFiles ==
  /\ FileOrder[1] = "cert" /\ FileOrder[2] = "key" /\ FileOrder[3] = "ca"
  /\ FileOrder[0 + 1] = "cert" /\ FileOrder[1 + 1] = "key" /\ FileOrder[2 + 1] = "ca"
BY DEF FileOrder

\* Each of the three files has its place in the order reload reads them.
LEMMA FilePlace ==
  ASSUME NEW f \in {"cert", "key", "ca"}
  PROVE  (CHOOSE i \in 1 .. 3 : FileOrder[i] = f) \in 1 .. 3
<1>2. \E i \in 1 .. 3 : FileOrder[i] = f
  <2>1. 1 \in 1 .. 3 /\ 2 \in 1 .. 3 /\ 3 \in 1 .. 3
    OBVIOUS
  <2>2. QED
    BY OrderOfFiles, <2>1, Zenon
<1>3. QED
  BY <1>2, Zenon

\* What three reads of the files come to can be loaded.
LEMMA ReadIsLoaded ==
  ASSUME RotationTypeOK, Len(readSoFar) = 3
  PROVE  [f \in DOMAIN tls |-> readSoFar[CHOOSE i \in 1 .. 3 : FileOrder[i] = f]] \in Loaded
<1>1. DOMAIN tls = {"cert", "key", "ca"}
  BY DEF RotationTypeOK, Loaded
<1>2. ASSUME NEW f \in {"cert", "key", "ca"}
      PROVE  readSoFar[CHOOSE i \in 1 .. 3 : FileOrder[i] = f] \in Nat
  <2>1. \A i \in 1 .. 3 : readSoFar[i] \in Nat
    <3>1. readSoFar \in Seq(Nat)
      BY DEF RotationTypeOK
    <3>2. QED
      BY <3>1, UpToThree, Zenon
  <2>2. QED
    BY <2>1, FilePlace, Zenon
<1>3. QED
  BY <1>1, <1>2, Zenon DEF Loaded

\* The first files are a certificate with its key, and there is no channel yet.
LEMMA RotationInitInv == RotationInit => RotationInv
<1> SUFFICES ASSUME RotationInit PROVE RotationInv
  OBVIOUS
<1> USE RotationAssumption
<1>1. Version(0) \in Loaded /\ Version(1) \in Loaded
  BY DEF Version, Loaded
<1>2. Accepted(Version(0)) /\ Accepted(Version(1))
  BY DEF Version, Accepted
<1>3. NoWire \in Wire
  BY <1>1 DEF NoWire, Wire
<1>4. RotationTypeOK
  BY <1>1, <1>3 DEF RotationInit, RotationTypeOK
<1>5. GenerationInv
  BY <1>2 DEF RotationInit, GenerationInv
<1>6. WireInv
  BY DEF RotationInit, WireInv, OnItsChannel, Calling, NoWire
<1>7. QED
  BY <1>4, <1>5, <1>6 DEF RotationInv

\* What the calls and the channels are is not touched by the files, by reload
\* nor by a handshake.
LEMMA WireUntouched ==
  ASSUME WireInv, UNCHANGED <<channel, retired, onWire>>
  PROVE  WireInv'
BY DEF WireInv, OnItsChannel, Calling

\* A file is replaced.
LEMMA ReplaceInv ==
  ASSUME RotationInv, NEW f \in DOMAIN files, Replace(f)
  PROVE  RotationInv'
<1> USE DEF Replace, RotationInv
<1>1. files' \in Loaded
  <2>1. files \in [{"cert", "key", "ca"} -> Nat] /\ files' = [files EXCEPT ![f] = @ + 1]
    BY DEF RotationTypeOK, Loaded
  <2>2. f \in {"cert", "key", "ca"}
    BY <2>1
  <2>3. files[f] + 1 \in Nat
    BY <2>1, <2>2
  <2>4. QED
    BY <2>1, <2>2, <2>3 DEF Loaded
<1>2. RotationTypeOK'
  BY <1>1 DEF RotationTypeOK
<1>3. GenerationInv'
  BY DEF GenerationInv
<1>4. QED
  BY <1>2, <1>3, WireUntouched

\* reload reads a file, or fails to.
LEMMA ReadInv ==
  ASSUME RotationInv, ReadFile \/ ReadFails
  PROVE  RotationInv'
<1> USE DEF RotationInv
<1>0. UNCHANGED <<files, tls, gen, counted, server, channel, retired, onWire>>
  BY DEF ReadFile, ReadFails
<1>1. readSoFar' \in Seq(Nat)
  <2>1. CASE ReadFile
    <3>1. FileOrder[Len(readSoFar) + 1] \in {"cert", "key", "ca"}
      <4>1. readSoFar \in Seq(Nat) /\ Len(readSoFar) < 3
        BY <2>1 DEF ReadFile, RotationTypeOK
      <4>2. Len(readSoFar) = 0 \/ Len(readSoFar) = 1 \/ Len(readSoFar) = 2
        BY <4>1, UpToThree, Zenon
      <4>3. QED
        BY <4>2, OrderOfFiles, Zenon
    <3>2. files[FileOrder[Len(readSoFar) + 1]] \in Nat
      BY <3>1 DEF RotationTypeOK, Loaded
    <3>3. QED
      BY <2>1, <3>2 DEF ReadFile, RotationTypeOK
  <2>2. CASE ReadFails
    BY <2>2 DEF ReadFails
  <2>3. QED
    BY <2>1, <2>2
<1>2. RotationTypeOK'
  BY <1>0, <1>1 DEF RotationTypeOK
<1>3. GenerationInv'
  BY <1>0 DEF GenerationInv
<1>4. QED
  BY <1>0, <1>2, <1>3, WireUntouched

\* reload stores what it read only when it is a certificate with its key, and
\* no longer counts as having raised the generation.
LEMMA StoreInv ==
  ASSUME RotationInv, StoreFiles
  PROVE  RotationInv'
<1> USE DEF RotationInv
<1>1. PICK new \in Loaded :
        /\ readSoFar' = <<>>
        /\ IF new # tls /\ Accepted(new)
           THEN tls' = new /\ counted' = FALSE
           ELSE UNCHANGED <<tls, counted>>
        /\ UNCHANGED <<files, gen, server, channel, retired, onWire>>
  BY ReadIsLoaded, Zenon DEF StoreFiles
<1>2. RotationTypeOK'
  <2>1. tls' \in Loaded /\ counted' \in BOOLEAN
    BY <1>1 DEF RotationTypeOK
  <2>2. readSoFar' \in Seq(Nat)
    BY <1>1
  <2>3. QED
    BY <1>1, <2>1, <2>2 DEF RotationTypeOK
<1>3. GenerationInv'
  BY <1>1 DEF GenerationInv
<1>4. QED
  BY <1>1, <1>2, <1>3, WireUntouched

\* The generation is raised above every generation seen so far.
LEMMA RaiseInv ==
  ASSUME RotationInv, RaiseGeneration
  PROVE  RotationInv'
<1> USE DEF RotationInv, RaiseGeneration
<1>1. RotationTypeOK'
  BY DEF RotationTypeOK
<1>2. GenerationInv'
  BY DEF GenerationInv, RotationTypeOK
<1>3. QED
  BY <1>1, <1>2, WireUntouched

\* A handshake of the server: the generation is noted before the certificate is
\* taken.
LEMMA HandshakeInv ==
  ASSUME RotationInv, BeginHandshake \/ EndHandshake
  PROVE  RotationInv'
<1> USE DEF RotationInv
<1>0. UNCHANGED <<files, readSoFar, tls, gen, counted, channel, retired, onWire>>
  BY DEF BeginHandshake, EndHandshake
<1>1. RotationTypeOK' /\ GenerationInv'
  <2>1. CASE BeginHandshake
    <3>1. /\ server' \in [seen : Nat, with : Loaded, fetching : BOOLEAN]
          /\ server'.seen = gen /\ server'.with = server.with /\ server'.fetching
      BY <2>1 DEF BeginHandshake, RotationTypeOK
    <3>2. RotationTypeOK'
      BY <1>0, <3>1 DEF RotationTypeOK
    <3>3. GenerationInv'
      BY <1>0, <3>1 DEF RotationTypeOK, GenerationInv
    <3>4. QED
      BY <3>2, <3>3
  <2>2. CASE EndHandshake
    BY <2>2 DEF EndHandshake, RotationTypeOK, GenerationInv
  <2>3. QED
    BY <2>1, <2>2
<1>2. QED
  BY <1>0, <1>1, WireUntouched

\* A call takes the channel of the current generation; the channel it replaces
\* begins its grace, which is longer than what any of its calls has left.
LEMMA BeginInv ==
  ASSUME RotationInv, NEW c \in StubCall, Begin(c)
  PROVE  RotationInv'
<1> USE RotationAssumption DEF RotationInv
<1>0. /\ UNCHANGED <<files, readSoFar, tls, gen, counted, server>>
      /\ LoopIsFree /\ counted
  BY DEF Begin, LoopIsFree
<1>1. PICK ch \in [gen : Nat \ {0}, with : Loaded] :
        /\ channel' = ch
        /\ ch.gen = gen /\ ch.with = tls /\ Accepted(ch.with)
        /\ channel.gen = gen => ch = channel
        /\ channel.gen <= ch.gen
  <2>1. CASE channel.gen # gen
    BY <1>0, <2>1 DEF Begin, RotationTypeOK, GenerationInv
  <2>2. CASE channel.gen = gen
    BY <1>0, <2>2 DEF Begin, RotationTypeOK, GenerationInv
  <2>3. QED
    BY <2>1, <2>2
<1>2. PICK w \in Wire :
        /\ onWire' = [onWire EXCEPT ![c] = w]
        /\ w.at = "sent" /\ w.gen = gen /\ w.n = 1 /\ w.took = 0 /\ Accepted(w.with)
  <2>1. [at |-> "sent", gen |-> ch.gen, n |-> 1, took |-> 0, with |-> ch.with] \in Wire
    BY DEF Wire
  <2>2. QED
    BY <1>1, <2>1 DEF Begin
<1>3. /\ retired' \in SUBSET Retired
      /\ \A r \in retired' : 0 < r.gen /\ r.gen < ch.gen
      /\ \A r \in retired' : r \in retired \/ r.left = RotationGrace
  <2>1. CASE channel.gen # gen /\ channel.gen # 0
    <3>1. PICK new \in Retired :
            retired' = retired \cup {new} /\ new.gen = channel.gen /\ new.left = RotationGrace
      <4>1. [gen |-> channel.gen, left |-> RotationGrace, closing |-> FALSE] \in Retired
        BY DEF RotationTypeOK, Retired
      <4>2. QED
        BY <2>1, <4>1 DEF Begin, Grace
    <3>2. 0 < channel.gen /\ channel.gen < ch.gen
      BY <1>1, <2>1 DEF RotationTypeOK, GenerationInv
    <3>3. \A r \in retired : 0 < r.gen /\ r.gen < ch.gen
      <4>1. \A r \in retired : r.gen \in Nat /\ 0 < r.gen /\ r.gen < channel.gen
        BY DEF RotationTypeOK, WireInv, Retired
      <4>2. channel.gen \in Nat /\ ch.gen \in Nat
        BY DEF RotationTypeOK
      <4>3. QED
        BY <3>2, <4>1, <4>2
    <3>4. retired' \in SUBSET Retired
      BY <3>1 DEF RotationTypeOK
    <3>5. QED
      BY <3>1, <3>2, <3>3, <3>4, Zenon
  <2>2. CASE ~(channel.gen # gen /\ channel.gen # 0)
    <3>1. retired' = retired
      BY <2>2 DEF Begin
    <3>2. \A r \in retired : r.gen \in Nat /\ 0 < r.gen /\ r.gen < channel.gen
      BY DEF RotationTypeOK, WireInv, Retired
    <3>3. channel.gen \in Nat /\ ch.gen \in Nat
      BY DEF RotationTypeOK
    <3>4. QED
      BY <1>1, <3>1, <3>2, <3>3 DEF RotationTypeOK
  <2>3. QED
    BY <2>1, <2>2
<1>4. RotationTypeOK'
  BY <1>0, <1>1, <1>2, <1>3 DEF RotationTypeOK
<1>5. GenerationInv'
  BY <1>0, <1>1 DEF GenerationInv, RotationTypeOK
<1>6. ASSUME NEW d \in StubCall PROVE OnItsChannel(d)'
  <2>1. CASE d = c
    <3>1. onWire'[d] = w
      BY <1>2, <2>1 DEF RotationTypeOK
    <3>2. QED
      BY <1>1, <1>2, <1>3, <3>1 DEF RotationTypeOK, OnItsChannel, Calling
  <2>2. CASE d # c
    <3>1. onWire'[d] = onWire[d] /\ onWire[d] \in Wire /\ OnItsChannel(d)
      BY <1>2, <2>2 DEF RotationTypeOK, WireInv
    <3>2. PICK v \in Wire : v = onWire[d] /\ v = onWire'[d]
      BY <3>1
    <3>3. channel.gen \in Nat /\ channel'.gen \in Nat /\ channel.gen <= channel'.gen /\ v.gen \in Nat
      BY <1>1, <3>2 DEF RotationTypeOK, Wire
    <3>4. v.at = "refused" => v.n > 0 /\ v.gen < channel'.gen
      BY <3>1, <3>2, <3>3 DEF OnItsChannel
    <3>5. ASSUME v.at \in {"sent", "backoff"}
          PROVE  /\ 0 < v.gen /\ 0 < v.n /\ Accepted(v.with) /\ v.gen <= channel'.gen
                 /\ \A r \in retired' : r.gen = v.gen => r.left + v.took >= RotationGrace
      <4>1. /\ 0 < v.gen /\ 0 < v.n /\ Accepted(v.with) /\ v.gen <= channel.gen
            /\ \A r \in retired : r.gen = v.gen => r.left + v.took >= RotationGrace
        BY <3>1, <3>2, <3>5 DEF OnItsChannel, Calling
      <4>2. v.gen <= channel'.gen
        BY <3>3, <4>1
      <4>3. \A r \in retired' : r.gen = v.gen => r.left + v.took >= RotationGrace
        <5>1. v.took \in Nat
          BY DEF Wire
        <5>2. QED
          BY <1>3, <4>1, <5>1
      <4>4. QED
        BY <4>1, <4>2, <4>3
    <3>6. v.at # "cut"
      BY <3>1, <3>2 DEF OnItsChannel
    <3>7. QED
      BY <3>2, <3>4, <3>5, <3>6, Zenon DEF OnItsChannel, Calling
  <2>3. QED
    BY <2>1, <2>2
<1>7. WireInv'
  BY <1>1, <1>3, <1>6 DEF WireInv
<1>8. QED
  BY <1>4, <1>5, <1>7

\* What an attempt changes of a call keeps it a call.
LEMMA AttemptRecords ==
  ASSUME NEW v \in Wire
  PROVE  /\ [v EXCEPT !.at = "backoff"] \in Wire
         /\ [v EXCEPT !.at = "refused"] \in Wire
         /\ [v EXCEPT !.at = "sent", !.n = @ + 1] \in Wire
         /\ v.n \in Nat
<1>1. v.n \in Nat /\ v.n + 1 \in Nat
  BY DEF Wire
<1>2. [v EXCEPT !.at = "backoff"] \in Wire /\ [v EXCEPT !.at = "refused"] \in Wire
  BY DEF Wire
<1>3. [v EXCEPT !.at = "sent"] \in Wire
  BY DEF Wire
<1>4. ASSUME NEW k \in Nat PROVE [v EXCEPT !.at = "sent", !.n = k] \in Wire
  BY DEF Wire
<1>5. [v EXCEPT !.at = "sent", !.n = @ + 1] \in Wire
  BY <1>1, <1>4
<1>6. QED
  BY <1>1, <1>2, <1>5

\* An attempt fails, the next one begins or is refused, or the call ends: only
\* a channel that is being closed refuses one.
LEMMA AttemptInv ==
  ASSUME RotationInv, NEW c \in StubCall, AttemptFails(c) \/ NextAttempt(c) \/ Done(c)
  PROVE  RotationInv'
<1> USE RotationAssumption DEF RotationInv
<1>0. UNCHANGED <<files, readSoFar, tls, gen, counted, server, channel, retired>>
  BY DEF AttemptFails, NextAttempt, Done
<1>1. onWire[c] \in Wire /\ OnItsChannel(c)
  BY DEF RotationTypeOK, WireInv
<1>2. PICK w \in Wire :
        /\ onWire' = [onWire EXCEPT ![c] = w]
        /\ \/ w.at = "none"
           \/ /\ Calling(c) /\ w.at \in {"sent", "backoff", "refused"}
              /\ w.gen = onWire[c].gen /\ w.took = onWire[c].took /\ w.with = onWire[c].with
              /\ w.n >= onWire[c].n
              /\ w.at = "refused" => ~Accepting(w.gen)
  <2>0. onWire[c].n \in Nat
    BY <1>1, AttemptRecords
  <2>1. CASE AttemptFails(c)
    <3>1. PICK w \in Wire : w = [onWire[c] EXCEPT !.at = "backoff"]
      BY <1>1, AttemptRecords
    <3>2. /\ w.at = "backoff" /\ w.gen = onWire[c].gen /\ w.took = onWire[c].took
          /\ w.with = onWire[c].with /\ w.n = onWire[c].n
      BY <1>1, <3>1 DEF Wire
    <3>3. onWire' = [onWire EXCEPT ![c] = w]
      BY <2>1, <3>1 DEF AttemptFails, RotationTypeOK
    <3>4. Calling(c)
      BY <2>1 DEF AttemptFails, Calling
    <3>5. w.n >= onWire[c].n
      BY <2>0, <3>2
    <3>6. QED
      BY <3>2, <3>3, <3>4, <3>5
  <2>2. CASE NextAttempt(c)
    <3>1. Calling(c)
      BY <2>2 DEF NextAttempt, Calling
    <3>2. CASE Accepting(onWire[c].gen)
      <4>1. PICK w \in Wire : w = [onWire[c] EXCEPT !.at = "sent", !.n = @ + 1]
        BY <1>1, AttemptRecords
      <4>2. /\ w.at = "sent" /\ w.gen = onWire[c].gen /\ w.took = onWire[c].took
            /\ w.with = onWire[c].with /\ w.n >= onWire[c].n
        BY <1>1, <2>0, <4>1 DEF Wire
      <4>3. onWire' = [onWire EXCEPT ![c] = w]
        BY <2>2, <3>2, <4>1 DEF NextAttempt
      <4>4. QED
        BY <3>1, <4>2, <4>3
    <3>3. CASE ~Accepting(onWire[c].gen)
      <4>1. PICK w \in Wire : w = [onWire[c] EXCEPT !.at = "refused"]
        BY <1>1, AttemptRecords
      <4>2. /\ w.at = "refused" /\ w.gen = onWire[c].gen /\ w.took = onWire[c].took
            /\ w.with = onWire[c].with /\ w.n >= onWire[c].n
        BY <1>1, <2>0, <4>1 DEF Wire
      <4>3. onWire' = [onWire EXCEPT ![c] = w]
        BY <2>2, <3>3, <4>1 DEF NextAttempt
      <4>4. QED
        BY <3>1, <3>3, <4>2, <4>3
    <3>4. QED
      BY <3>2, <3>3
  <2>3. CASE Done(c)
    <3>1. NoWire \in Wire /\ NoWire.at = "none"
      BY DEF NoWire, Wire, Version, Loaded
    <3>2. QED
      BY <2>3, <3>1 DEF Done
  <2>4. QED
    BY <2>1, <2>2, <2>3
<1>3. RotationTypeOK'
  BY <1>0, <1>2 DEF RotationTypeOK
<1>4. GenerationInv'
  BY <1>0 DEF GenerationInv
<1>5. ASSUME NEW d \in StubCall PROVE OnItsChannel(d)'
  <2>1. CASE d = c
    <3>1. onWire'[d] = w
      BY <1>2, <2>1 DEF RotationTypeOK
    <3>2. CASE w.at = "none"
      BY <3>1, <3>2 DEF OnItsChannel, Calling
    <3>3. CASE w.at # "none"
      <4>1. /\ w.at \in {"sent", "backoff", "refused"}
            /\ 0 < w.gen /\ Accepted(w.with) /\ w.gen <= channel.gen
            /\ \A r \in retired : r.gen = w.gen => r.left + w.took >= RotationGrace
        BY <1>1, <1>2, <3>3 DEF OnItsChannel
      <4>2. 0 < w.n
        BY <1>1, <1>2, <3>3 DEF OnItsChannel, Wire
      <4>3. w.at = "refused" => w.gen < channel.gen
        <5>1. w.gen \in Nat /\ channel.gen \in Nat
          BY DEF RotationTypeOK, Wire
        <5>2. QED
          BY <1>2, <4>1, <5>1 DEF Accepting
      <4>4. QED
        BY <1>0, <3>1, <4>1, <4>2, <4>3 DEF OnItsChannel, Calling
    <3>4. QED
      BY <3>2, <3>3
  <2>2. CASE d # c
    <3>1. onWire'[d] = onWire[d] /\ OnItsChannel(d)
      BY <1>2, <2>2 DEF RotationTypeOK, WireInv
    <3>2. QED
      BY <1>0, <3>1 DEF OnItsChannel, Calling
  <2>3. QED
    BY <2>1, <2>2
<1>6. WireInv'
  BY <1>0, <1>5 DEF WireInv
<1>7. QED
  BY <1>3, <1>4, <1>6

\* Closing a channel leaves its grace as it is.
LEMMA CloseBeginsInv ==
  ASSUME RotationInv, NEW r \in retired, CloseBegins(r)
  PROVE  RotationInv'
<1> USE RotationAssumption DEF RotationInv
<1>0. UNCHANGED <<files, readSoFar, tls, gen, counted, server, channel, onWire>>
  BY DEF CloseBegins
<1>1. PICK s \in Retired : retired' = (retired \ {r}) \cup {s} /\ s.gen = r.gen /\ s.left = r.left
  <2>1. r \in Retired
    BY DEF RotationTypeOK
  <2>2. PICK s \in Retired : s = [r EXCEPT !.closing = TRUE]
    BY <2>1 DEF Retired
  <2>3. s.gen = r.gen /\ s.left = r.left
    BY <2>1, <2>2 DEF Retired
  <2>4. QED
    BY <2>2, <2>3 DEF CloseBegins
<1>2. RotationTypeOK'
  BY <1>0, <1>1 DEF RotationTypeOK
<1>3. GenerationInv'
  BY <1>0 DEF GenerationInv
<1>4. ASSUME NEW c \in StubCall PROVE OnItsChannel(c)'
  BY <1>0, <1>1 DEF WireInv, OnItsChannel, Calling
<1>5. WireInv'
  BY <1>0, <1>1, <1>4 DEF WireInv
<1>6. QED
  BY <1>2, <1>3, <1>5

\* A channel is destroyed when no call is on it: the longest call ends before
\* the grace does.
LEMMA DestroyInv ==
  ASSUME RotationInv, NEW r \in retired, Destroy(r)
  PROVE  RotationInv'
<1> USE RotationAssumption DEF RotationInv
<1>0. /\ UNCHANGED <<files, readSoFar, tls, gen, counted, server, channel>>
      /\ retired' = retired \ {r}
  BY DEF Destroy
<1>1. ASSUME NEW c \in StubCall, Calling(c)
      PROVE  onWire[c].gen # r.gen
  <2>1. CASE r.left = 0
    <3>1. onWire[c].took \in 0 .. CallMax
      BY DEF RotationTypeOK, Wire
    <3>2. onWire[c].gen = r.gen => r.left + onWire[c].took >= RotationGrace
      BY <1>1 DEF WireInv, OnItsChannel
    <3>3. QED
      BY <2>1, <3>1, <3>2
  <2>2. CASE r.left # 0
    BY <1>1, <2>2 DEF Destroy
  <2>3. QED
    BY <2>1, <2>2
<1>2. onWire' = onWire
  <2>1. onWire' = [c \in StubCall |-> onWire[c]]
    BY <1>1 DEF Destroy
  <2>2. QED
    BY <2>1 DEF RotationTypeOK
<1>3. RotationTypeOK'
  BY <1>0, <1>2 DEF RotationTypeOK
<1>4. GenerationInv'
  BY <1>0 DEF GenerationInv
<1>5. WireInv'
  BY <1>0, <1>2 DEF WireInv, OnItsChannel, Calling
<1>6. QED
  BY <1>3, <1>4, <1>5

\* What time takes from the grace of a channel it adds to the calls on it.
LEMMA WireTimeInv ==
  ASSUME RotationInv, WireTime
  PROVE  RotationInv'
<1> USE RotationAssumption DEF RotationInv
<1>0. UNCHANGED <<files, readSoFar, tls, gen, counted, server, channel>>
  BY DEF WireTime
<1>1. /\ retired' \in SUBSET Retired
      /\ \A s \in retired' : \E r \in retired : s.gen = r.gen /\ s.left = r.left - 1
  <2>1. ASSUME NEW r \in retired
        PROVE  /\ [r EXCEPT !.left = @ - 1] \in Retired
               /\ [r EXCEPT !.left = @ - 1].gen = r.gen
               /\ [r EXCEPT !.left = @ - 1].left = r.left - 1
    <3>1. r \in Retired /\ r.left > 0
      BY DEF WireTime, RotationTypeOK
    <3>2. QED
      BY <3>1 DEF Retired
  <2>2. retired' = {[r EXCEPT !.left = @ - 1] : r \in retired}
    BY DEF WireTime
  <2>3. QED
    BY <2>1, <2>2
<1>2. ASSUME NEW c \in StubCall
      PROVE  /\ onWire'[c] \in Wire /\ onWire'[c].at = onWire[c].at
             /\ onWire'[c].gen = onWire[c].gen /\ onWire'[c].with = onWire[c].with
             /\ onWire'[c].n = onWire[c].n
             /\ Calling(c) => onWire'[c].took = onWire[c].took + 1
  <2>1. onWire[c] \in Wire /\ onWire[c].took < CallMax
    BY DEF WireTime, RotationTypeOK
  <2>2. CASE ~Calling(c)
    BY <2>1, <2>2 DEF WireTime
  <2>3. CASE Calling(c)
    <3>1. onWire'[c] = [onWire[c] EXCEPT !.took = @ + 1]
      BY <2>3 DEF WireTime
    <3>2. QED
      BY <2>1, <2>3, <3>1 DEF Wire
  <2>4. QED
    BY <2>2, <2>3
<1>3. RotationTypeOK'
  <2>1. onWire' \in [StubCall -> Wire]
    <3>1. onWire' = [c \in StubCall |-> onWire'[c]]
      BY DEF WireTime
    <3>2. QED
      BY <1>2, <3>1
  <2>2. QED
    BY <1>0, <1>1, <2>1 DEF RotationTypeOK
<1>4. GenerationInv'
  BY <1>0 DEF GenerationInv
<1>5. ASSUME NEW c \in StubCall PROVE OnItsChannel(c)'
  <2>1. OnItsChannel(c)
    BY DEF WireInv
  <2>2. /\ onWire'[c].at # "cut"
        /\ onWire'[c].at = "refused" => onWire'[c].n > 0 /\ onWire'[c].gen < channel'.gen
        /\ Calling(c)' => /\ Calling(c)
                          /\ 0 < onWire'[c].gen /\ 0 < onWire'[c].n /\ Accepted(onWire'[c].with)
                          /\ onWire'[c].gen <= channel'.gen
    BY <1>0, <1>2, <2>1 DEF OnItsChannel, Calling
  <2>3. ASSUME Calling(c), NEW s \in retired', s.gen = onWire'[c].gen
        PROVE  s.left + onWire'[c].took >= RotationGrace
    <3>1. PICK r \in retired : s.gen = r.gen /\ s.left = r.left - 1
      BY <1>1
    <3>2. r.left + onWire[c].took >= RotationGrace
      BY <1>2, <2>1, <2>3, <3>1 DEF OnItsChannel
    <3>3. r.left \in Nat /\ onWire[c].took \in Nat
      BY DEF RotationTypeOK, Retired, Wire
    <3>4. QED
      BY <1>2, <2>3, <3>1, <3>2, <3>3
  <2>4. QED
    BY <2>2, <2>3 DEF OnItsChannel
<1>6. WireInv'
  <2>1. \A s \in retired' : 0 < s.gen /\ s.gen < channel'.gen
    BY <1>0, <1>1 DEF WireInv
  <2>2. QED
    BY <1>5, <2>1 DEF WireInv
<1>7. QED
  BY <1>3, <1>4, <1>6

\* Whatever the number of versions and calls, and however the replacement of the
\* files, the reloads, the handshakes and the attempts interleave: what is
\* presented is a certificate with its own key and no older than the code can
\* know, no attempt is cut off as long as the grace is longer than the longest
\* call, and only a retry over a rotation is refused.
THEOREM RotationSeamless == RotationSpec => []RotationIsSeamless
<1>1. RotationInv /\ [RotationNext]_rotationVars => RotationInv'
  <2> SUFFICES ASSUME RotationInv, [RotationNext]_rotationVars PROVE RotationInv'
    OBVIOUS
  <2>1. CASE RotationNext
    BY <2>1, ReplaceInv, ReadInv, StoreInv, RaiseInv, HandshakeInv, BeginInv, AttemptInv,
       CloseBeginsInv, DestroyInv, WireTimeInv DEF RotationNext
  <2>2. CASE UNCHANGED rotationVars
    BY <2>2 DEF rotationVars, RotationInv, RotationTypeOK, GenerationInv, WireInv,
       OnItsChannel, Calling
  <2>3. QED
    BY <2>1, <2>2
<1>2. RotationInv => RotationIsSeamless
  BY DEF RotationInv, GenerationInv, WireInv, OnItsChannel, RotationIsSeamless
<1>3. QED
  BY RotationInitInv, <1>1, <1>2, PTL DEF RotationSpec

------------------------------------------------------------------------------
(* KeySet                                                                    *)

\* The fields of a refresh that is over and of one that has just begun.
LEMMA FetchFields ==
  /\ Idle \in Fetch /\ ~Idle.on /\ Idle.for = "none" /\ Idle.took = 0 /\ ~Idle.got /\ Idle.keys = {}
  /\ \A w \in {"run", "key"} :
       LET f == [Idle EXCEPT !.on = TRUE, !.for = w]
       IN  f \in Fetch /\ f.on /\ f.for = w /\ f.took = 0 /\ ~f.got /\ f.keys = {}
<1>1. Idle \in Fetch /\ ~Idle.on /\ Idle.for = "none" /\ Idle.took = 0 /\ ~Idle.got /\ Idle.keys = {}
  BY KeyAssumption DEF Idle, Fetch
<1>2. ASSUME NEW w \in {"run", "key"}
      PROVE  LET f == [Idle EXCEPT !.on = TRUE, !.for = w]
             IN  f \in Fetch /\ f.on /\ f.for = w /\ f.took = 0 /\ ~f.got /\ f.keys = {}
  BY <1>1 DEF Fetch
<1>3. QED
  BY <1>1, <1>2

\* How an age grows.
LEMMA OlderBy ==
  ASSUME NEW age \in Int, age >= Never, NEW cap \in Nat
  PROVE  /\ Older(age, cap) \in Int /\ Older(age, cap) >= age /\ Older(age, cap) <= age + 1
         /\ Older(age, cap) = Never <=> age = Never
         /\ Older(age, cap) <= cap => age = Never \/ Older(age, cap) = age + 1
         /\ (age # Never /\ age <= cap) => Older(age, cap) = age + 1
BY DEF Older, Never

\* The time before the first is an integer below every other.
LEMMA NeverInt == Never \in Int /\ 0 \in Int /\ Never >= Never /\ 0 >= Never /\ Never # 0
BY DEF Never

\* Nothing is known and nothing is under way at first.
LEMMA KeyInitInv == KeyInit => KeyInv
<1> SUFFICES ASSUME KeyInit PROVE KeyInv
  OBVIOUS
<1> USE KeyAssumption, NeverInt DEF KeyInit
<1>0. fetch \in Fetch /\ ~fetch.on /\ fetch.for = "none" /\ ~fetch.got /\ fetch.keys = {}
  BY FetchFields
<1>1. KeyTypeOK
  <2>1. rotated \in [Key -> Int] /\ \A k \in Key : rotated[k] = Never
    OBVIOUS
  <2>2. \A k \in Key : rotated[k] >= Never
    BY <2>1, Zenon
  <2>3. /\ published \in SUBSET Key /\ held \in SUBSET Key /\ failed \in SUBSET Key
        /\ waiting \in SUBSET Key /\ queue \in SUBSET {"run", "key"}
    OBVIOUS
  <2>4. /\ keysAge \in Int /\ keysAge >= Never /\ unknownAge \in Int /\ unknownAge >= Never
        /\ asleep \in Int /\ asleep >= Never /\ unknown \in BOOLEAN
    BY Zenon
  <2>5. QED
    BY <1>0, <2>1, <2>2, <2>3, <2>4, Zenon DEF KeyTypeOK
<1>2. TasksInv
  BY <1>0 DEF TasksInv, Queued, HoldsLock
<1>3. WithdrawnInv
  BY <1>0 DEF WithdrawnInv
<1>4. PublishedInv
  BY <1>0 DEF PublishedInv
<1>5. WaitingInv
  BY DEF WaitingInv
<1>6. QED
  BY <1>1, <1>2, <1>3, <1>4, <1>5 DEF KeyInv

\* run wakes up.
LEMMA PeriodicInv ==
  ASSUME KeyInv, Periodic
  PROVE  KeyInv'
<1> USE DEF KeyInv, Periodic, Never
<1>1. KeyTypeOK'
  BY DEF KeyTypeOK
<1>2. TasksInv'
  BY DEF TasksInv, Queued, HoldsLock, KeyTypeOK
<1>3. WithdrawnInv' /\ PublishedInv' /\ WaitingInv'
  BY DEF WithdrawnInv, PublishedInv, WaitingInv
<1>4. QED
  BY <1>1, <1>2, <1>3

\* A refresh takes the lock: run's, or the one of an unknown kid.
LEMMA BeginFetchInv ==
  ASSUME KeyInv, NEW w \in {"run", "key"}, BeginFetch(w)
  PROVE  KeyInv'
<1> USE DEF KeyInv, Never
<1>0. /\ fetch' \in Fetch /\ fetch'.on /\ fetch'.for = w /\ fetch'.took = 0
      /\ ~fetch'.got /\ fetch'.keys = {}
      /\ w \in queue /\ ~fetch.on /\ queue' = queue \ {w}
      /\ UNCHANGED <<published, rotated, held, keysAge, unknownAge, unknown,
                     asleep, failed, waiting>>
  BY FetchFields DEF BeginFetch
<1>1. KeyTypeOK'
  BY <1>0 DEF KeyTypeOK
<1>2. TasksInv'
  <2>1. CASE w = "run"
    BY <1>0, <2>1, KeyAssumption DEF TasksInv, Queued, HoldsLock, KeyTypeOK
  <2>2. CASE w = "key"
    BY <1>0, <2>2, KeyAssumption DEF TasksInv, Queued, HoldsLock, KeyTypeOK
  <2>3. QED
    BY <2>1, <2>2
<1>3. WithdrawnInv'
  BY <1>0 DEF WithdrawnInv
<1>4. PublishedInv'
  BY <1>0 DEF PublishedInv
<1>5. WaitingInv'
  BY <1>0 DEF WaitingInv
<1>6. QED
  BY <1>1, <1>2, <1>3, <1>4, <1>5

\* The issuer's answer has the keys published at that moment, and no other.
LEMMA AnswerInv ==
  ASSUME KeyInv, IssuerAnswers
  PROVE  KeyInv'
<1> USE DEF KeyInv
<1>0. /\ fetch' \in Fetch /\ fetch'.on = fetch.on /\ fetch'.for = fetch.for
      /\ fetch'.took = fetch.took /\ fetch'.keys = published /\ fetch.on
      /\ UNCHANGED <<published, rotated, held, keysAge, unknownAge, unknown,
                     queue, asleep, failed, waiting>>
  BY DEF IssuerAnswers, KeyTypeOK, Fetch
<1>1. KeyTypeOK'
  BY <1>0 DEF KeyTypeOK
<1>2. TasksInv'
  BY <1>0 DEF TasksInv, Queued, HoldsLock
<1>3. WithdrawnInv'
  BY <1>0 DEF WithdrawnInv
<1>4. PublishedInv'
  BY <1>0 DEF PublishedInv
<1>5. WaitingInv'
  BY <1>0 DEF WaitingInv
<1>6. QED
  BY <1>1, <1>2, <1>3, <1>4, <1>5

\* The lock is free again: the tasks stay one at a time.
LEMMA ReleasedInv ==
  ASSUME KeyInv, fetch.on, Released, UNCHANGED <<queue, unknownAge>>
  PROVE  /\ TasksInv'
         /\ unknown' \in BOOLEAN /\ asleep' \in Int /\ asleep' >= Never
         /\ fetch' \in Fetch /\ ~fetch'.got /\ fetch'.keys = {}
         /\ unknown /\ ~unknown' => HoldsLock("key")
<1> USE KeyAssumption DEF KeyInv, Never
<1>0. fetch' \in Fetch /\ ~fetch'.on /\ fetch'.for = "none" /\ ~fetch'.got /\ fetch'.keys = {}
  BY FetchFields DEF Released
<1>1. CASE fetch.for = "run"
  <2>1. unknown' = unknown /\ asleep' = KeyRefresh
    BY <1>1 DEF Released, KeyTypeOK
  <2>2. TasksInv'
    BY <1>0, <1>1, <2>1 DEF TasksInv, Queued, HoldsLock, KeyTypeOK, Fetch
  <2>3. QED
    BY <1>0, <1>1, <2>1, <2>2 DEF KeyTypeOK
<1>2. CASE fetch.for = "key"
  <2>1. unknown' = FALSE /\ asleep' = asleep
    BY <1>2 DEF Released
  <2>2. TasksInv'
    BY <1>0, <1>2, <2>1 DEF TasksInv, Queued, HoldsLock, KeyTypeOK
  <2>3. QED
    BY <1>0, <1>2, <2>1, <2>2 DEF KeyTypeOK, HoldsLock
<1>3. QED
  BY <1>1, <1>2 DEF TasksInv

\* A refresh ends well: the answer, older by what the fetch took, is what is held.
LEMMA EndFetchInv ==
  ASSUME KeyInv, EndFetch
  PROVE  KeyInv'
<1> USE KeyAssumption DEF KeyInv, Never
<1>0. /\ fetch.on /\ fetch.got /\ held' = fetch.keys /\ keysAge' = 0
      /\ UNCHANGED <<published, rotated, unknownAge, queue, failed, waiting>>
      /\ fetch.keys \in SUBSET Key /\ fetch.took \in 0 .. FetchMax
  BY DEF EndFetch, KeyTypeOK, Fetch
<1>1. /\ TasksInv'
      /\ unknown' \in BOOLEAN /\ asleep' \in Int /\ asleep' >= Never
      /\ fetch' \in Fetch /\ ~fetch'.got /\ fetch'.keys = {}
      /\ unknown /\ ~unknown' => HoldsLock("key")
  BY <1>0, ReleasedInv DEF EndFetch
<1>2. KeyTypeOK'
  BY <1>0, <1>1 DEF KeyTypeOK
<1>3. WithdrawnInv'
  BY <1>0, <1>1 DEF WithdrawnInv, KeyTypeOK
<1>4. PublishedInv'
  <2> SUFFICES ASSUME NEW k \in published
               PROVE  /\ rotated[k] = Never => k \in fetch.keys
                      /\ (k \notin fetch.keys /\ k \notin failed /\ rotated[k] # Never
                            /\ ~unknown' /\ unknownAge \in 0 .. UnknownRefresh)
                           => rotated[k] <= unknownAge
    BY <1>0, <1>1 DEF PublishedInv
  <2>1. rotated[k] = Never => k \in fetch.keys
    BY <1>0 DEF PublishedInv
  <2>2. ASSUME k \notin fetch.keys, k \notin failed, rotated[k] # Never,
               ~unknown', unknownAge \in 0 .. UnknownRefresh
        PROVE  rotated[k] <= unknownAge
    <3>1. CASE HoldsLock("key")
      <4>1. fetch.took <= unknownAge /\ rotated[k] <= fetch.took
        BY <1>0, <2>2, <3>1 DEF TasksInv, PublishedInv
      <4>2. QED
        BY <1>0, <4>1 DEF KeyTypeOK
    <3>2. CASE ~HoldsLock("key")
      <4>1. ~unknown
        BY <1>1, <2>2, <3>2 DEF KeyTypeOK
      <4>2. k \notin held
        BY <1>0, <2>2 DEF PublishedInv
      <4>3. QED
        BY <2>2, <4>1, <4>2 DEF PublishedInv
    <3>3. QED
      BY <3>1, <3>2
  <2>3. QED
    BY <2>1, <2>2
<1>5. WaitingInv'
  <2> SUFFICES ASSUME NEW k \in waiting, k \notin fetch.keys,
                      k \in published \/ rotated[k] = Never
               PROVE  unknownAge \in 0 .. (UnknownRefresh - 1)
    BY <1>0 DEF WaitingInv
  <2>1. k \in Key
    BY DEF KeyTypeOK
  <2>2. k \notin held
    <3>1. CASE k \in published
      BY <1>0, <3>1 DEF PublishedInv
    <3>2. CASE k \notin published
      BY <2>1, <3>2 DEF WithdrawnInv
    <3>3. QED
      BY <3>1, <3>2
  <2>3. QED
    BY <2>2 DEF WaitingInv
<1>6. QED
  BY <1>1, <1>2, <1>3, <1>4, <1>5

\* A refresh that fails leaves the keys and their age.
LEMMA FailFetchInv ==
  ASSUME KeyInv, FailFetch
  PROVE  KeyInv'
<1> USE KeyAssumption DEF KeyInv
<1>0. /\ fetch.on /\ failed' = Key
      /\ UNCHANGED <<published, rotated, held, keysAge, unknownAge, queue, waiting>>
  BY DEF FailFetch, FailKeeps
<1>1. /\ TasksInv'
      /\ unknown' \in BOOLEAN /\ asleep' \in Int /\ asleep' >= Never
      /\ fetch' \in Fetch /\ ~fetch'.got /\ fetch'.keys = {}
  BY <1>0, ReleasedInv DEF FailFetch
<1>2. KeyTypeOK'
  BY <1>0, <1>1 DEF KeyTypeOK
<1>3. WithdrawnInv'
  BY <1>0, <1>1 DEF WithdrawnInv
<1>4. PublishedInv'
  BY <1>0, <1>1 DEF PublishedInv, KeyTypeOK
<1>5. WaitingInv'
  BY <1>0 DEF WaitingInv
<1>6. QED
  BY <1>1, <1>2, <1>3, <1>4, <1>5

\* A request asks for a key: no refresh for an unknown kid is under way when the
\* next may start.
LEMMA AskInv ==
  ASSUME KeyInv, NEW k \in Key, Ask(k)
  PROVE  KeyInv'
<1> USE KeyAssumption DEF KeyInv, Never
<1>0. /\ waiting' = waiting \cup {k}
      /\ UNCHANGED <<published, rotated, held, keysAge, fetch, asleep, failed>>
  BY DEF Ask
<1>1. CASE k \notin held /\ MayRefresh
  <2>0. unknownAge' = 0 /\ unknown' = TRUE /\ queue' = queue \cup {"key"}
    BY <1>1 DEF Ask
  <2>1. ~unknown
    BY <1>1 DEF MayRefresh, TasksInv, Queued, HoldsLock, KeyTypeOK, Fetch
  <2>2. KeyTypeOK'
    BY <1>0, <2>0 DEF KeyTypeOK
  <2>3. TasksInv'
    BY <1>0, <2>0, <2>1 DEF TasksInv, Queued, HoldsLock, KeyTypeOK, Fetch
  <2>4. WithdrawnInv' /\ PublishedInv'
    BY <1>0, <2>0 DEF WithdrawnInv, PublishedInv
  <2>5. WaitingInv'
    BY <1>0, <2>0 DEF WaitingInv
  <2>6. QED
    BY <2>2, <2>3, <2>4, <2>5
<1>2. CASE k \in held \/ ~MayRefresh
  <2>0. UNCHANGED <<unknownAge, unknown, queue>>
    BY <1>2 DEF Ask
  <2>1. KeyTypeOK'
    BY <1>0, <2>0 DEF KeyTypeOK
  <2>2. TasksInv'
    BY <1>0, <2>0 DEF TasksInv, Queued, HoldsLock
  <2>3. WithdrawnInv' /\ PublishedInv'
    BY <1>0, <2>0 DEF WithdrawnInv, PublishedInv
  <2>4. WaitingInv'
    <3>1. k \notin held => unknownAge \in 0 .. (UnknownRefresh - 1)
      BY <1>2 DEF MayRefresh, KeyTypeOK
    <3>2. QED
      BY <1>0, <2>0, <3>1 DEF WaitingInv
  <2>5. QED
    BY <2>1, <2>2, <2>3, <2>4
<1>3. QED
  BY <1>1, <1>2

\* A request has its answer, or is cancelled.
LEMMA LeaveInv ==
  ASSUME KeyInv, NEW k \in Key, waiting' = waiting \ {k},
         UNCHANGED <<published, rotated, held, keysAge, unknownAge, unknown,
                     fetch, queue, asleep, failed>>
  PROVE  KeyInv'
<1> USE DEF KeyInv
<1>1. KeyTypeOK'
  BY DEF KeyTypeOK
<1>2. TasksInv'
  BY DEF TasksInv, Queued, HoldsLock
<1>3. WithdrawnInv' /\ PublishedInv' /\ WaitingInv'
  BY DEF WithdrawnInv, PublishedInv, WaitingInv
<1>4. QED
  BY <1>1, <1>2, <1>3

\* The issuer publishes a key nobody has, or withdraws one.
LEMMA RotateInv ==
  ASSUME KeyInv, NEW k \in Key, Rotate(k)
  PROVE  KeyInv'
<1> USE KeyAssumption DEF KeyInv, Never
<1>0. /\ rotated[k] = Never /\ rotated' = [rotated EXCEPT ![k] = 0]
      /\ failed' = failed \ {k}
      /\ UNCHANGED <<held, keysAge, unknownAge, unknown, fetch, queue, asleep, waiting>>
      /\ rotated'[k] = 0 /\ \A j \in Key \ {k} : rotated'[j] = rotated[j]
  BY DEF Rotate, KeyTypeOK
<1>1. /\ k \in published => published' = published \ {k}
      /\ k \notin published => published' = published \cup {k}
  BY DEF Rotate
<1>2. fetch.took \in 0 .. FetchMax /\ keysAge \in Int /\ keysAge >= -1
  BY DEF KeyTypeOK, Fetch
<1>3. KeyTypeOK'
  BY <1>0, <1>1 DEF KeyTypeOK
<1>4. TasksInv'
  BY <1>0 DEF TasksInv, Queued, HoldsLock
<1>5. WithdrawnInv'
  <2>1. held' # {} => keysAge' # Never
    BY <1>0 DEF WithdrawnInv
  <2>2. ASSUME NEW j \in Key \ published'
        PROVE  /\ rotated'[j] = Never => j \notin held /\ j \notin fetch.keys
               /\ (j \in held /\ keysAge <= KeyMaxAge) => rotated'[j] <= keysAge + FetchMax
               /\ j \in fetch.keys => rotated'[j] <= fetch.took
    <3>1. CASE j = k
      BY <1>0, <1>2, <3>1 DEF WithdrawnInv
    <3>2. CASE j # k
      <4>1. j \in Key \ published /\ rotated'[j] = rotated[j]
        BY <1>0, <1>1, <3>2
      <4>2. QED
        BY <4>1 DEF WithdrawnInv
    <3>3. QED
      BY <3>1, <3>2
  <2>3. QED
    BY <1>0, <2>1, <2>2 DEF WithdrawnInv
<1>6. PublishedInv'
  <2> SUFFICES ASSUME NEW j \in published'
        PROVE
    /\ rotated'[j] = Never => (keysAge # Never => j \in held) /\ (fetch.got => j \in fetch.keys)
    /\ (j \in held /\ fetch.got) => j \in fetch.keys
    /\ (fetch.got /\ j \notin fetch.keys) => rotated'[j] <= fetch.took
    /\ (j \notin held /\ j \notin failed' /\ rotated'[j] # Never
          /\ ~unknown /\ unknownAge \in 0 .. UnknownRefresh) => rotated'[j] <= unknownAge
    BY <1>0 DEF PublishedInv
  <2>1. CASE j = k
    <3>1. k \in Key \ published /\ k \notin held /\ rotated'[j] = 0
      BY <1>0, <1>1, <2>1 DEF WithdrawnInv
    <3>2. QED
      BY <1>2, <2>1, <3>1
  <2>2. CASE j # k
    <3>1. j \in published /\ j \in Key
      BY <1>1, <2>2 DEF KeyTypeOK
    <3>2. rotated'[j] = rotated[j] /\ (j \notin failed' => j \notin failed)
      BY <1>0, <2>2, <3>1
    <3>3. QED
      BY <3>1, <3>2 DEF PublishedInv
  <2>3. QED
    BY <2>1, <2>2
<1>7. WaitingInv'
  <2> SUFFICES ASSUME NEW j \in waiting \ held, j \in published' \/ rotated'[j] = Never
               PROVE  unknownAge \in 0 .. (UnknownRefresh - 1)
    BY <1>0 DEF WaitingInv
  <2>1. j \in Key
    BY DEF KeyTypeOK
  <2>2. j \in published \/ rotated[j] = Never
    BY <1>0, <1>1, <2>1
  <2>3. QED
    BY <2>2 DEF WaitingInv
<1>8. QED
  BY <1>3, <1>4, <1>5, <1>6, <1>7

\* Time passes: no age grows by more than the others.
LEMMA TicksInv ==
  ASSUME KeyInv, ClockTicks
  PROVE  KeyInv'
<1> USE KeyAssumption DEF KeyInv, Never
<1>0. UNCHANGED <<published, held, unknown, queue, failed, waiting>>
  BY DEF ClockTicks
<1>1. /\ fetch' \in Fetch /\ fetch'.on = fetch.on /\ fetch'.for = fetch.for
      /\ fetch'.got = fetch.got /\ fetch'.keys = fetch.keys
      /\ fetch.took \in Nat /\ fetch'.took \in 0 .. FetchMax /\ fetch'.took >= fetch.took
      /\ fetch.on => fetch'.took = fetch.took + 1
  <2>1. fetch \in Fetch
    BY DEF KeyTypeOK
  <2>2. CASE fetch.on
    <3>1. fetch.took < FetchMax /\ fetch' = [fetch EXCEPT !.took = @ + 1]
      BY <2>2 DEF ClockTicks
    <3>2. PICK t \in 0 .. FetchMax : t = fetch.took + 1 /\ fetch.took \in Nat
      BY <2>1, <3>1 DEF Fetch
    <3>3. fetch' = [fetch EXCEPT !.took = t]
      BY <3>1, <3>2
    <3>4. /\ fetch' \in Fetch /\ fetch'.on = fetch.on /\ fetch'.for = fetch.for
          /\ fetch'.got = fetch.got /\ fetch'.keys = fetch.keys /\ fetch'.took = t
      BY <2>1, <3>3 DEF Fetch
    <3>5. fetch'.took = fetch.took + 1 /\ fetch'.took \in 0 .. FetchMax
      BY <3>2, <3>4
    <3>6. fetch.took \in Nat /\ fetch'.took >= fetch.took
      BY <3>2, <3>5
    <3>7. QED
      BY <2>2, <3>4, <3>5, <3>6, Zenon
  <2>3. CASE ~fetch.on
    <3>1. fetch' = fetch
      BY <2>3 DEF ClockTicks
    <3>2. QED
      BY <2>1, <2>3, <3>1 DEF Fetch
  <2>4. QED
    BY <2>2, <2>3
<1>2. /\ rotated' \in [Key -> Int]
      /\ \A k \in Key : /\ rotated'[k] >= -1 /\ rotated'[k] <= rotated[k] + 1
                        /\ rotated'[k] = Never <=> rotated[k] = Never
  <2>1. Long \in Nat
    BY DEF Long
  <2>2. \A k \in Key : rotated'[k] = Older(rotated[k], Long) /\ rotated[k] \in Int /\ rotated[k] >= Never
    BY DEF ClockTicks, KeyTypeOK
  <2>3. \A k \in Key : /\ Older(rotated[k], Long) \in Int
                       /\ Older(rotated[k], Long) >= -1 /\ Older(rotated[k], Long) <= rotated[k] + 1
                       /\ Older(rotated[k], Long) = Never <=> rotated[k] = Never
    <3> SUFFICES ASSUME NEW k \in Key
                 PROVE  /\ Older(rotated[k], Long) \in Int
                        /\ Older(rotated[k], Long) >= -1
                        /\ Older(rotated[k], Long) <= rotated[k] + 1
                        /\ Older(rotated[k], Long) = Never <=> rotated[k] = Never
      OBVIOUS
    <3>1. PICK age \in Int : age = rotated[k] /\ age >= Never
      BY <2>2
    <3>2. Older(age, Long) \in Int /\ Older(age, Long) >= age /\ Older(age, Long) <= age + 1
      BY <2>1, <3>1, OlderBy
    <3>3. Older(age, Long) = Never <=> age = Never
      BY <2>1, <3>1, OlderBy
    <3>4. QED
      BY <3>1, <3>2, <3>3
  <2>4. QED
    BY <2>2, <2>3 DEF ClockTicks
<1>3. /\ keysAge' \in Int /\ keysAge' >= -1 /\ keysAge' >= keysAge
      /\ keysAge' = Never <=> keysAge = Never
      /\ keysAge' <= KeyMaxAge => keysAge = Never \/ keysAge' = keysAge + 1
  BY OlderBy DEF ClockTicks, KeyTypeOK
<1>4. /\ unknownAge' \in Int /\ unknownAge' >= -1 /\ unknownAge' >= unknownAge
      /\ unknownAge' <= unknownAge + 1
      /\ unknownAge' = Never <=> unknownAge = Never
      /\ unknownAge' <= UnknownRefresh => unknownAge = Never \/ unknownAge' = unknownAge + 1
      /\ (unknownAge # Never /\ unknownAge <= UnknownRefresh) => unknownAge' = unknownAge + 1
  BY OlderBy DEF ClockTicks, KeyTypeOK
<1>5. /\ asleep' \in Int /\ asleep' >= -1
      /\ asleep' = Never <=> asleep = Never
  BY DEF ClockTicks, KeyTypeOK
<1>6. KeyTypeOK'
  BY <1>0, <1>1, <1>2, <1>3, <1>4, <1>5 DEF KeyTypeOK
<1>7. TasksInv'
  <2>1. Queued => fetch.on
    BY DEF Queued, ClockTicks
  <2>2. Queued => unknownAge' <= fetch'.took
    BY <1>1, <1>4, <2>1 DEF TasksInv, KeyTypeOK
  <2>3. HoldsLock("key") => fetch'.took <= unknownAge' /\ unknownAge' <= FetchMax + fetch'.took
    <3> SUFFICES ASSUME HoldsLock("key")
                 PROVE  fetch'.took <= unknownAge' /\ unknownAge' <= FetchMax + fetch'.took
      OBVIOUS
    <3>1. fetch.took <= unknownAge /\ unknownAge <= FetchMax + fetch.took /\ unknownAge \in Int
      BY DEF TasksInv, KeyTypeOK
    <3>2. fetch'.took = fetch.took + 1 /\ fetch.took < FetchMax /\ fetch.took \in Nat
      BY <1>1 DEF HoldsLock, ClockTicks
    <3>3. unknownAge # Never /\ unknownAge <= UnknownRefresh
      BY <3>1, <3>2
    <3>4. QED
      BY <1>4, <3>1, <3>2, <3>3
  <2>4. QED
    BY <1>0, <1>1, <1>4, <1>5, <2>1, <2>2, <2>3 DEF TasksInv, Queued, HoldsLock
<1>8. WithdrawnInv'
  <2> SUFFICES ASSUME NEW k \in Key \ published
        PROVE  /\ rotated'[k] = Never => k \notin held /\ k \notin fetch.keys
               /\ (k \in held /\ keysAge' <= KeyMaxAge) => rotated'[k] <= keysAge' + FetchMax
               /\ k \in fetch.keys => rotated'[k] <= fetch'.took
    BY <1>0, <1>1, <1>3 DEF WithdrawnInv
  <2>0. rotated[k] \in Int /\ rotated'[k] \in Int /\ keysAge \in Int
    BY <1>2 DEF KeyTypeOK
  <2>1. rotated'[k] = Never => k \notin held /\ k \notin fetch.keys
    BY <1>2 DEF WithdrawnInv
  <2>2. ASSUME k \in held, keysAge' <= KeyMaxAge
        PROVE  rotated'[k] <= keysAge' + FetchMax
    <3>1. keysAge' = keysAge + 1 /\ keysAge <= KeyMaxAge
      BY <1>3, <2>0, <2>2 DEF WithdrawnInv
    <3>2. rotated[k] <= keysAge + FetchMax
      BY <2>2, <3>1 DEF WithdrawnInv
    <3>3. QED
      BY <1>2, <2>0, <3>1, <3>2
  <2>3. ASSUME k \in fetch.keys
        PROVE  rotated'[k] <= fetch'.took
    <3>1. rotated[k] <= fetch.took /\ rotated[k] # Never
      BY <2>3 DEF WithdrawnInv
    <3>2. fetch.on
      BY <2>3, <1>1 DEF TasksInv
    <3>3. QED
      BY <1>1, <1>2, <2>0, <3>1, <3>2
  <2>4. QED
    BY <2>1, <2>2, <2>3
<1>9. PublishedInv'
  <2> SUFFICES ASSUME NEW k \in published
        PROVE
    /\ rotated'[k] = Never => (keysAge' # Never => k \in held) /\ (fetch.got => k \in fetch.keys)
    /\ (k \in held /\ fetch.got) => k \in fetch.keys
    /\ (fetch.got /\ k \notin fetch.keys) => rotated'[k] <= fetch'.took
    /\ (k \notin held /\ k \notin failed /\ rotated'[k] # Never
          /\ ~unknown /\ unknownAge' \in 0 .. UnknownRefresh) => rotated'[k] <= unknownAge'
    BY <1>0, <1>1 DEF PublishedInv
  <2>0. k \in Key /\ rotated[k] \in Int /\ rotated'[k] \in Int /\ unknownAge \in Int /\ unknownAge >= -1
    BY <1>2 DEF KeyTypeOK
  <2>1. rotated'[k] = Never => (keysAge' # Never => k \in held) /\ (fetch.got => k \in fetch.keys)
    BY <1>2, <1>3, <2>0 DEF PublishedInv
  <2>2. (k \in held /\ fetch.got) => k \in fetch.keys
    BY DEF PublishedInv
  <2>3. ASSUME fetch.got, k \notin fetch.keys
        PROVE  rotated'[k] <= fetch'.took
    <3>1. rotated[k] <= fetch.took
      BY <2>3 DEF PublishedInv
    <3>2. fetch.on
      BY <2>3, <1>1 DEF TasksInv
    <3>3. QED
      BY <1>1, <1>2, <2>0, <3>1, <3>2
  <2>4. ASSUME k \notin held, k \notin failed, rotated'[k] # Never,
               ~unknown, unknownAge' \in 0 .. UnknownRefresh
        PROVE  rotated'[k] <= unknownAge'
    <3>1. unknownAge' = unknownAge + 1 /\ unknownAge \in 0 .. UnknownRefresh
      BY <1>4, <2>0, <2>4
    <3>2. rotated[k] # Never
      BY <1>2, <2>0, <2>4
    <3>3. rotated[k] <= unknownAge
      BY <2>4, <3>1, <3>2 DEF PublishedInv
    <3>4. QED
      BY <1>2, <2>0, <3>1, <3>3
  <2>5. QED
    BY <2>1, <2>2, <2>3, <2>4
<1>10. WaitingInv'
  <2>1. waiting # {} => unknownAge' \in 0 .. (UnknownRefresh - 1)
    <3> SUFFICES ASSUME waiting # {} PROVE unknownAge' \in 0 .. (UnknownRefresh - 1)
      OBVIOUS
    <3>1. unknown' /\ (Queued \/ HoldsLock("key"))'
      BY <1>0, <1>7 DEF ClockTicks, TasksInv
    <3>2. unknownAge' # Never /\ unknownAge' <= 2 * FetchMax
      BY <1>1, <1>4, <1>7, <3>1 DEF TasksInv, Queued, HoldsLock, ClockTicks
    <3>3. QED
      BY <1>4, <3>2
  <2>2. QED
    BY <1>0, <2>1 DEF WaitingInv
<1>11. QED
  BY <1>6, <1>7, <1>8, <1>9, <1>10

\* The inductive invariant is preserved by every step.
LEMMA KeyStepInv == KeyInv /\ [KeyNext]_keyVars => KeyInv'
<1> SUFFICES ASSUME KeyInv, [KeyNext]_keyVars PROVE KeyInv'
  OBVIOUS
<1>1. ASSUME NEW k \in Key, Accept(k) \/ RefuseUnknown(k) \/ Unavailable(k) \/ Cancelled(k)
      PROVE  KeyInv'
  BY <1>1, LeaveInv DEF Accept, RefuseUnknown, Unavailable, Answered, Cancelled
<1>2. CASE KeyNext
  BY <1>1, <1>2, PeriodicInv, AnswerInv, EndFetchInv, FailFetchInv, TicksInv, BeginFetchInv,
     AskInv, RotateInv DEF KeyNext
<1>3. CASE UNCHANGED keyVars
  BY <1>3 DEF keyVars, KeyInv, KeyTypeOK, TasksInv, Queued, HoldsLock, WithdrawnInv,
              PublishedInv, WaitingInv
<1>4. QED
  BY <1>2, <1>3

\* A withdrawn key is accepted no longer than KEY_MAX_AGE and one fetch, for
\* every set of keys and however the fetches since then went.
THEOREM WithdrawnKeysExpire == KeySpec => WithdrawnKeyBounded
<1>1. ASSUME KeyInv, NEW k \in Key, Accept(k)
      PROVE  k \in published \/ rotated[k] <= KeyMaxAge + FetchMax
  <2>1. CASE k \notin published
    <3>1. k \in Key \ published /\ k \in held /\ keysAge <= KeyMaxAge
      BY <1>1, <2>1 DEF Accept, UsableKeys
    <3>2. rotated[k] <= keysAge + FetchMax
      BY <1>1, <3>1 DEF KeyInv, WithdrawnInv
    <3>3. rotated[k] \in Int /\ keysAge \in Int
      BY <1>1 DEF KeyInv, KeyTypeOK
    <3>4. QED
      BY <3>1, <3>2, <3>3, KeyAssumption
  <2>2. QED
    BY <2>1
<1>2. KeyInv => [\A k \in Key : Accept(k) =>
                   k \in published \/ rotated[k] <= KeyMaxAge + FetchMax]_keyVars
  BY <1>1
<1>3. QED
  BY KeyInitInv, KeyStepInv, <1>2, PTL DEF KeySpec, WithdrawnKeyBounded

\* A published key is not refused as unknown once it has been published for
\* UNKNOWN_KID_REFRESH, unless a fetch failed since.
THEOREM NewKeysGetKnown == KeySpec => NewKeyAccepted
<1>1. ASSUME KeyInv, NEW k \in Key, RefuseUnknown(k)
      PROVE  \/ k \notin published
             \/ rotated[k] \in 0 .. (UnknownRefresh - 1)
             \/ k \in failed
  <2>1. CASE k \in published /\ k \notin failed
    <3>1. /\ k \in waiting \ held /\ ~unknown /\ keysAge # Never
          /\ rotated[k] \in Int /\ rotated[k] >= Never
      BY <1>1 DEF RefuseUnknown, Answered, UsableKeys, KeyInv, KeyTypeOK
    <3>2. rotated[k] # Never
      BY <1>1, <2>1, <3>1 DEF KeyInv, PublishedInv
    <3>3. unknownAge \in 0 .. (UnknownRefresh - 1)
      BY <1>1, <2>1, <3>1 DEF KeyInv, WaitingInv
    <3>4. unknownAge \in 0 .. UnknownRefresh
      BY <3>3, KeyAssumption
    <3>5. rotated[k] <= unknownAge
      BY <1>1, <2>1, <3>1, <3>2, <3>4 DEF KeyInv, PublishedInv
    <3>6. QED
      BY <3>1, <3>2, <3>3, <3>5, KeyAssumption DEF Never
  <2>2. QED
    BY <2>1
<1>2. KeyInv => [\A k \in Key : RefuseUnknown(k) =>
                   \/ k \notin published
                   \/ rotated[k] \in 0 .. (UnknownRefresh - 1)
                   \/ k \in failed]_keyVars
  BY <1>1
<1>3. QED
  BY KeyInitInv, KeyStepInv, <1>2, PTL DEF KeySpec, NewKeyAccepted

------------------------------------------------------------------------------
(* Lifecycle                                                                 *)

\* What the deployments have in common: at least one member, alone exactly one.
LEMMA DeploymentFacts ==
  ASSUME deployment \in Deployments
  PROVE  /\ deployment.shell \in BOOLEAN
         /\ Hosted \in Nat /\ Hosted >= 1
         /\ ~deployment.shell => Hosted = 1
         /\ Members = 1 .. Hosted
<1>1. /\ deployment.shell \in BOOLEAN /\ deployment.members \in Seq(Member)
      /\ deployment.members # <<>> /\ (deployment.shell \/ Len(deployment.members) = 1)
  BY LifeAssumption
<1>2. \A s \in Seq(Member) : s # <<>> => Len(s) \in Nat /\ Len(s) >= 1
  OBVIOUS
<1>3. QED
  BY <1>1, <1>2 DEF Hosted, Members

\* A deployment does not change under way.
LEMMA SameDeployment ==
  ASSUME deployment' = deployment
  PROVE  /\ Members' = Members /\ Hosted' = Hosted
         /\ Uses("database")' = Uses("database") /\ Uses("events")' = Uses("events")
BY DEF Members, Hosted, Uses

\* The stage after each one of a component that runs alone.
LEMMA AfterAlone ==
  ASSUME NEW j \in 1 .. 8
  PROVE  Alone[CHOOSE k \in 2 .. Len(Alone) : Alone[k - 1] = Alone[j]] = Alone[j + 1]
<1>1. Len(Alone) = 9
  BY DEF Alone
<1>2. \A a, b \in 1 .. 9 : Alone[a] = Alone[b] => a = b
  BY DEF Alone
<1>3. j + 1 \in 2 .. 9 /\ (j + 1) - 1 = j
  OBVIOUS
<1>4. PICK k \in 2 .. 9 : /\ k = CHOOSE x \in 2 .. 9 : Alone[x - 1] = Alone[j]
                          /\ Alone[k - 1] = Alone[j]
  BY <1>3, Zenon
<1>5. k - 1 \in 1 .. 9 /\ j \in 1 .. 9
  OBVIOUS
<1>6. k = j + 1
  BY <1>2, <1>4, <1>5
<1>7. QED
  BY <1>1, <1>4, <1>6

\* The stage after each one of a shell.
LEMMA AfterShell ==
  ASSUME NEW j \in 1 .. 9
  PROVE  Shell[CHOOSE k \in 2 .. Len(Shell) : Shell[k - 1] = Shell[j]] = Shell[j + 1]
<1>1. Len(Shell) = 10
  BY DEF Shell
<1>2. \A a, b \in 1 .. 10 : Shell[a] = Shell[b] => a = b
  BY DEF Shell
<1>3. j + 1 \in 2 .. 10 /\ (j + 1) - 1 = j
  OBVIOUS
<1>4. PICK k \in 2 .. 10 : /\ k = CHOOSE x \in 2 .. 10 : Shell[x - 1] = Shell[j]
                           /\ Shell[k - 1] = Shell[j]
  BY <1>3, Zenon
<1>5. k - 1 \in 1 .. 10 /\ j \in 1 .. 10
  OBVIOUS
<1>6. k = j + 1
  BY <1>2, <1>4, <1>5
<1>7. QED
  BY <1>1, <1>4, <1>6

\* Where the main coroutine goes on, stage by stage.
LEMMA Proceeds ==
  ASSUME LifeTypeOK, Proceed, stage \in Opening \cup {"start"}
  PROVE  /\ stage = "check" => stage' = (IF deployment.shell THEN "clock" ELSE "bus") /\ at' = at
         /\ stage = "clock" => stage' = (IF deployment.shell THEN "bus" ELSE "db") /\ at' = at
         /\ stage = "bus" => stage' = "build" /\ at' = at
         /\ stage = "build" => stage' = (IF deployment.shell THEN "listen" ELSE "clock") /\ at' = at
         /\ stage = "listen" => stage' = "grpc" /\ at' = at
         /\ (stage = "grpc" /\ at < Hosted) => stage' = "build" /\ at' = at + 1
         /\ (stage = "grpc" /\ ~(at < Hosted)) =>
              stage' = (IF deployment.shell THEN "own" ELSE "start") /\ at' = 1
         /\ stage = "own" => stage' = "db" /\ at' = at
         /\ (stage = "db" /\ at < Hosted) => stage' = "db" /\ at' = at + 1
         /\ (stage = "db" /\ ~(at < Hosted)) =>
              stage' = (IF deployment.shell THEN "start" ELSE "listen") /\ at' = 1
         /\ (stage = "start" /\ at < Hosted) => stage' = "start" /\ at' = at + 1
         /\ (stage = "start" /\ ~(at < Hosted)) => stage' = "wait" /\ at' = at
<1>0. deployment.shell \in BOOLEAN
  BY DeploymentFacts DEF LifeTypeOK
<1>1. /\ Alone[1] = "check" /\ Alone[2] = "bus" /\ Alone[3] = "build" /\ Alone[4] = "clock"
      /\ Alone[5] = "db" /\ Alone[6] = "listen" /\ Alone[7] = "grpc" /\ Alone[8] = "start"
      /\ Alone[9] = "wait"
  BY DEF Alone
<1>2. /\ Shell[1] = "check" /\ Shell[2] = "clock" /\ Shell[3] = "bus" /\ Shell[4] = "build"
      /\ Shell[5] = "listen" /\ Shell[6] = "grpc" /\ Shell[7] = "own" /\ Shell[8] = "db"
      /\ Shell[9] = "start" /\ Shell[10] = "wait"
  BY DEF Shell
<1> DEFINE AloneAfter(s) == Alone[CHOOSE k \in 2 .. Len(Alone) : Alone[k - 1] = s]
           ShellAfter(s) == Shell[CHOOSE k \in 2 .. Len(Shell) : Shell[k - 1] = s]
<1>3. /\ AloneAfter("check") = "bus" /\ AloneAfter("bus") = "build"
      /\ AloneAfter("build") = "clock" /\ AloneAfter("clock") = "db"
      /\ AloneAfter("db") = "listen" /\ AloneAfter("listen") = "grpc"
      /\ AloneAfter("grpc") = "start" /\ AloneAfter("start") = "wait"
  <2>1. \A j \in 1 .. 8 : AloneAfter(Alone[j]) = Alone[j + 1]
    BY AfterAlone
  <2> HIDE DEF AloneAfter
  <2>2. /\ AloneAfter(Alone[1]) = Alone[2] /\ AloneAfter(Alone[2]) = Alone[3]
        /\ AloneAfter(Alone[3]) = Alone[4] /\ AloneAfter(Alone[4]) = Alone[5]
        /\ AloneAfter(Alone[5]) = Alone[6] /\ AloneAfter(Alone[6]) = Alone[7]
        /\ AloneAfter(Alone[7]) = Alone[8] /\ AloneAfter(Alone[8]) = Alone[9]
    BY <2>1
  <2>3. QED
    BY <1>1, <2>2, Zenon
<1>4. /\ ShellAfter("check") = "clock" /\ ShellAfter("clock") = "bus"
      /\ ShellAfter("bus") = "build" /\ ShellAfter("build") = "listen"
      /\ ShellAfter("listen") = "grpc" /\ ShellAfter("grpc") = "own"
      /\ ShellAfter("own") = "db" /\ ShellAfter("db") = "start" /\ ShellAfter("start") = "wait"
  <2>1. \A j \in 1 .. 9 : ShellAfter(Shell[j]) = Shell[j + 1]
    BY AfterShell
  <2> HIDE DEF ShellAfter
  <2>2. /\ ShellAfter(Shell[1]) = Shell[2] /\ ShellAfter(Shell[2]) = Shell[3]
        /\ ShellAfter(Shell[3]) = Shell[4] /\ ShellAfter(Shell[4]) = Shell[5]
        /\ ShellAfter(Shell[5]) = Shell[6] /\ ShellAfter(Shell[6]) = Shell[7]
        /\ ShellAfter(Shell[7]) = Shell[8] /\ ShellAfter(Shell[8]) = Shell[9]
        /\ ShellAfter(Shell[9]) = Shell[10]
    BY <2>1
  <2>3. QED
    BY <1>2, <2>2, Zenon
<1>5. PICK after : /\ deployment.shell => after = ShellAfter(stage)
                   /\ ~deployment.shell => after = AloneAfter(stage)
                   /\ (at < Hosted /\ stage = "grpc") => stage' = "build" /\ at' = at + 1
                   /\ (at < Hosted /\ stage \in {"db", "start"}) => stage' = stage /\ at' = at + 1
                   /\ ~(at < Hosted /\ stage \in {"grpc", "db", "start"}) =>
                        stage' = after /\ at' = IF stage \in {"grpc", "db"} THEN 1 ELSE at
  <2>1. CASE deployment.shell
    BY <2>1 DEF Proceed
  <2>2. CASE ~deployment.shell
    BY <2>2 DEF Proceed
  <2>3. QED
    BY <2>1, <2>2
<1>6. stage = "own" => deployment.shell
  BY DEF LifeTypeOK
<1> HIDE DEF AloneAfter, ShellAfter
<1>7. CASE deployment.shell
  BY <1>4, <1>5, <1>7
<1>8. CASE ~deployment.shell
  BY <1>3, <1>5, <1>6, <1>8
<1>9. QED
  BY <1>7, <1>8

\* The least of a few numbers is one of them.
LEMMA LeastOfThree ==
  ASSUME NEW S \in SUBSET (1 .. 3), S # {}
  PROVE  Min(S) \in S
<1>1. \E x \in S : \A y \in S : x <= y
  <2>1. CASE 1 \in S
    BY <2>1
  <2>2. CASE 1 \notin S /\ 2 \in S
    BY <2>2
  <2>3. CASE 1 \notin S /\ 2 \notin S
    <3>1. \A y \in S : y = 3
      BY <2>3
    <3>2. PICK x : x \in S
      OBVIOUS
    <3>3. \A y \in S : x <= y
      BY <3>1, <3>2
    <3>4. QED
      BY <3>2, <3>3
  <2>4. QED
    BY <2>1, <2>2, <2>3
<1>2. QED
  BY <1>1 DEF Min

\* The drain lasts for its delay, or for the whole timeout.
LEMMA LeastOfTwo == DrainTime \in {StopDrain, StopTimeout}
<1>1. \E x \in {StopDrain, StopTimeout} : \A y \in {StopDrain, StopTimeout} : x <= y
  BY LifeAssumption
<1>2. QED
  BY <1>1 DEF DrainTime, Min

\* A member that is built has what its protected routes are guarded with.
LEMMA BuiltIsGuarded ==
  ASSUME NEW m, BuildOutcome(m) = "ok", "protected" \in m.has
  PROVE  keys = "open" /\ HasIdentity(m) /\ m.jwks # "" /\ "authz url" \in m.has
<1> DEFINE parts == <<ServiceIdentity(m),
                      IF "protected" \in m.has THEN Guard(m) ELSE "ok",
                      IF "services" \in m.has THEN SystemSurface(m) ELSE "ok">>
           bad == {k \in 1 .. 3 : parts[k] # "ok"}
<1>1. parts[2] = Guard(m)
  OBVIOUS
<1>2. bad = {}
  <2>1. SUFFICES ASSUME bad # {} PROVE FALSE
    OBVIOUS
  <2>2. BuildOutcome(m) = parts[Min(bad)]
    BY <2>1 DEF BuildOutcome
  <2>3. Min(bad) \in bad
    BY <2>1, LeastOfThree
  <2>4. QED
    BY <2>2, <2>3
<1>3. Guard(m) = "ok"
  <2>1. 2 \in 1 .. 3
    OBVIOUS
  <2>2. QED
    BY <1>1, <1>2, <2>1
<1>4. QED
  BY <1>3 DEF Guard

\* A fresh process: nothing is open and nobody has been started.
LEMMA LifeInitInv == LifeInit => LifeInv
<1> SUFFICES ASSUME LifeInit PROVE LifeInv
  OBVIOUS
<1> USE DEF LifeInit
<1>0. /\ Hosted \in Nat /\ Hosted >= 1 /\ Members = 1 .. Hosted /\ 1 \in Members
      /\ StopTimeout \in Int
  BY DeploymentFacts, LifeAssumption
<1>1. LifeTypeOK
  BY <1>0 DEF LifeTypeOK, Stages, Opening
<1>2. ReadyInv
  BY DEF ReadyInv, Stopping
<1>3. ResourceInv
  BY DEF ResourceInv, Unbuilt, Unopened
<1>4. SurfaceInv
  BY DEF SurfaceInv, ServedSoFar, Over
<1>5. StopInv
  BY DEF StopInv, Stopping, Over
<1>6. QED
  BY <1>1, <1>2, <1>3, <1>4, <1>5 DEF LifeInv

\* A stage of the opening that leads to the next one: what is left to show is
\* what was opened.
LEMMA OpeningStep ==
  ASSUME LifeInv, stage \in Opening, stage' \in Opening \cup {"start"}, at' \in Members,
         stage' = "own" => deployment.shell,
         stage' \in {"check", "clock", "bus"} => at' = 1,
         <<"own", 0>> \in open' => deployment.shell, attempt' = "none",
         UNCHANGED <<cut, code, Work, Outside>>,
         ResourceInv', SurfaceInv'
  PROVE  LifeInv'
<1> USE DEF LifeInv, Outside, Work
<1>0. Members' = Members
  BY SameDeployment
<1>1. LifeTypeOK'
  BY <1>0 DEF LifeTypeOK, Stages
<1>2. ReadyInv'
  BY <1>0 DEF ReadyInv, Opening, Stopping, Over
<1>3. StopInv'
  BY DEF StopInv, Opening, Stopping, Over
<1>4. QED
  BY <1>1, <1>2, <1>3

\* No attempt is under way but where the bus and the databases are awaited.
LEMMA NoAttempt ==
  ASSUME LifeInv, stage \notin {"bus", "db"}
  PROVE  attempt = "none"
BY DEF LifeInv, LifeTypeOK

\* run returns: no user surface of a ready member is left, and code 0 after the
\* process was ready is what stop_all returned.
LEMMA ReturnStep ==
  ASSUME LifeInv, NEW c, Return(c), cut' \in BOOLEAN,
         started' \in SUBSET Members, started \subseteq started',
         UNCHANGED <<state, settled, wasReady, Outside>>,
         attempt' = "none", <<"own", 0>> \in open' => deployment.shell,
         (\A i \in Members : state[i] = "ready") => <<"own", 0>> \notin open',
         \A i \in Members : state[i] = "ready" => <<"http", i>> \notin open',
         (wasReady /\ c = OK) => (stop /\ ~cut' /\ started' = {} /\ open' = {})
  PROVE  LifeInv'
<1> USE DEF LifeInv, Return, Outside
<1>0. Members' = Members
  BY SameDeployment
<1>1. LifeTypeOK'
  BY <1>0 DEF LifeTypeOK, Stages, Over
<1>2. ReadyInv'
  BY <1>0 DEF ReadyInv, Stopping, Over
<1>3. ResourceInv'
  BY DEF ResourceInv, Unbuilt, Unopened, Over
<1>4. SurfaceInv'
  BY <1>0 DEF SurfaceInv, ServedSoFar, Over
<1>5. StopInv'
  BY DEF StopInv, Opening, Stopping, Over
<1>6. QED
  BY <1>1, <1>2, <1>3, <1>4, <1>5

\* A return that shuts every server down at once, before the process was ready.
LEMMA ShutStep ==
  ASSUME LifeInv, NEW c, Return(c), ShutNow, stage \in Opening \cup {"start"}, attempt' = "none",
         started' \in SUBSET Members, started \subseteq started',
         UNCHANGED <<state, settled, wasReady, Outside>>
  PROVE  LifeInv'
<1>1. cut' \in BOOLEAN /\ open' = {}
  BY DEF ShutNow, LifeInv, LifeTypeOK
<1>2. ~wasReady
  BY DEF LifeInv, StopInv
<1>3. QED
  BY <1>1, <1>2, ReturnStep

\* The checks that need nothing, and the clock's.
LEMMA ChecksInv ==
  ASSUME LifeInv, CheckConfiguration \/ CheckClock
  PROVE  LifeInv'
<1> USE DEF Surfaces
<1>0. /\ stage \in {"check", "clock"} /\ stage \in Opening /\ open = {} /\ ~wasReady
      /\ UNCHANGED <<bus, keys, Surfaces, Work, Outside>> /\ attempt' = "none"
  BY NoAttempt DEF CheckConfiguration, CheckClock, LifeInv, SurfaceInv, StopInv, Opening
<1>1. ASSUME NEW c, Return(c)
      PROVE  LifeInv'
  <2>1. cut' \in BOOLEAN /\ open' = {} /\ started' = started /\ started' \in SUBSET Members
    BY <1>0 DEF LifeInv, LifeTypeOK, Work
  <2>2. UNCHANGED <<state, settled, wasReady, Outside>>
    BY <1>0 DEF Work
  <2>3. QED
    BY <1>0, <1>1, <2>1, <2>2, ReturnStep
<1>2. ASSUME Proceed, OpenPools, UNCHANGED code
      PROVE  LifeInv'
  <2>0. Members' = Members /\ Uses("database")' = Uses("database") /\ Uses("events")' = Uses("events")
    BY <1>0, SameDeployment DEF Outside
  <2>1. deployment' = deployment /\ deployment.shell \in BOOLEAN /\ at = 1 /\ at \in Members
    BY <1>0, DeploymentFacts DEF LifeInv, LifeTypeOK, Outside
  <2>2. /\ at' = at
        /\ stage = "check" => stage' = (IF deployment.shell THEN "clock" ELSE "bus")
        /\ stage = "clock" => stage' = (IF deployment.shell THEN "bus" ELSE "db")
    BY <1>0, <1>2, Proceeds DEF LifeInv
  <2>3. stage' \in {"clock", "bus", "db"} /\ (stage' = "clock" => deployment.shell)
        /\ (stage' = "db" => ~deployment.shell /\ stage = "clock")
    BY <1>0, <2>1, <2>2
  <2>4. ResourceInv'
    <3>1. ~Unopened' => (Uses("database") => pools' = "open")
      <4>1. CASE stage' = "bus"
        BY <1>2, <4>1 DEF OpenPools
      <4>2. CASE stage' = "db"
        <5>1. pools' = pools /\ ~Unopened
          BY <1>2, <2>3, <4>2 DEF OpenPools, Unopened, Over
        <5>2. QED
          BY <5>1 DEF LifeInv, ResourceInv
      <4>3. CASE stage' = "clock"
        BY <2>1, <2>3, <4>3 DEF Unopened
      <4>4. QED
        BY <2>3, <4>1, <4>2, <4>3
    <3>2. ~Unbuilt' => /\ Uses("events") => bus' = "open"
                       /\ \A i \in Members : Guarded(i)'
      <4>1. CASE stage' = "db"
        <5>1. ~Unbuilt /\ \A i \in Members : BuiltSoFar(i)
          BY <2>3, <4>1 DEF Unbuilt, Unopened, BuiltSoFar, Over
        <5>2. \A i \in Members : Guarded(i)
          BY <5>1 DEF LifeInv, ResourceInv
        <5>3. QED
          BY <1>0, <2>1, <5>1, <5>2 DEF LifeInv, ResourceInv, Guarded
      <4>2. CASE stage' # "db"
        BY <2>1, <2>3, <4>2 DEF Unbuilt, Unopened
      <4>3. QED
        BY <4>1, <4>2
    <3>3. QED
      BY <2>0, <3>1, <3>2 DEF ResourceInv
  <2>5. SurfaceInv'
    BY <1>0, <2>1, <2>3 DEF SurfaceInv, ServedSoFar, Over
  <2>6. /\ stage' \in Opening \cup {"start"} /\ at' \in Members
        /\ stage' = "own" => deployment.shell
        /\ stage' \in {"check", "clock", "bus"} => at' = 1
        /\ <<"own", 0>> \in open' => deployment.shell
        /\ UNCHANGED <<cut, code, Work, Outside>>
    BY <1>0, <1>2, <2>1, <2>2, <2>3 DEF Opening
  <2>7. QED
    BY <1>0, <2>4, <2>5, <2>6, OpeningStep
<1>3. QED
  BY <1>1, <1>2 DEF CheckConfiguration, CheckClock

\* The bus answers and the identity keys are opened.
LEMMA OpenBusInv ==
  ASSUME LifeInv, OpenBus
  PROVE  LifeInv'
<1> USE DEF Surfaces
<1>0. /\ stage = "bus" /\ stage \in Opening /\ open = {} /\ open' = {} /\ pools' = pools
      /\ bus' = (IF Uses("events") THEN "open" ELSE bus)
      /\ UNCHANGED <<cut, code, Work, Outside>> /\ deployment' = deployment /\ attempt' = "none"
  BY DEF OpenBus, LifeInv, SurfaceInv, Opening, Outside
<1>1. stage' = "build" /\ at' = at /\ at = 1 /\ at \in Members
  BY <1>0, Proceeds DEF OpenBus, LifeInv, LifeTypeOK
<1>2. Members' = Members /\ Uses("database")' = Uses("database") /\ Uses("events")' = Uses("events")
  BY <1>0, SameDeployment
<1>3. \A i \in Members : ~(i < 1)
  BY DeploymentFacts DEF LifeInv, LifeTypeOK
<1>4. ResourceInv'
  <2>1. ~Unopened
    BY <1>0 DEF Unopened, Over
  <2>2. Uses("database") => pools' = "open"
    BY <1>0, <2>1 DEF LifeInv, ResourceInv
  <2>3. \A i \in Members : ~BuiltSoFar(i)'
    BY <1>1, <1>3 DEF BuiltSoFar
  <2>4. QED
    BY <1>0, <1>2, <2>2, <2>3 DEF ResourceInv
<1>5. SurfaceInv'
  BY <1>0, <1>1, <1>2, <1>3 DEF SurfaceInv, ServedSoFar, Over
<1>6. /\ stage' \in Opening \cup {"start"} /\ at' \in Members
      /\ stage' = "own" => deployment.shell
      /\ stage' \in {"check", "clock", "bus"} => at' = 1
      /\ <<"own", 0>> \in open' => deployment.shell
  BY <1>0, <1>1 DEF Opening
<1>7. QED
  BY <1>0, <1>4, <1>5, <1>6, OpeningStep

\* An attempt begins, fails, or the database answers it.
LEMMA AttemptsInv ==
  ASSUME LifeInv, BeginAttempt \/ PauseWaiting \/ DatabaseAnswers
  PROVE  LifeInv'
<1> USE DEF Surfaces, Work, Outside, Resources
<1>0. /\ stage \in {"bus", "db"} /\ attempt' \in {"query", "pause", "durable"}
      /\ UNCHANGED <<deployment, stage, at, state, open, started, settled, bus, pools, keys, stop,
                     left, wasReady, cut, unclean, code>>
  BY DEF BeginAttempt, PauseWaiting, DatabaseAnswers, Awaiting, LifeInv, LifeTypeOK
<1>1. /\ Members' = Members /\ Elapsed' = Elapsed
      /\ Uses("database")' = Uses("database") /\ Uses("events")' = Uses("events")
  BY <1>0, SameDeployment DEF Elapsed
<1>2. LifeTypeOK'
  BY <1>0, <1>1 DEF LifeInv, LifeTypeOK
<1>3. ReadyInv'
  BY <1>0, <1>1 DEF LifeInv, ReadyInv
<1>4. ResourceInv'
  BY <1>0, <1>1 DEF LifeInv, ResourceInv, Unopened, Unbuilt, BuiltSoFar, Guarded
<1>5. SurfaceInv'
  BY <1>0, <1>1 DEF LifeInv, SurfaceInv, ServedSoFar
<1>6. StopInv'
  BY <1>0, <1>1 DEF LifeInv, StopInv, DrainTime
<1>7. QED
  BY <1>2, <1>3, <1>4, <1>5, <1>6 DEF LifeInv

\* Waiting for the bus or a database ends without it.
LEMMA WaitingEndsInv ==
  ASSUME LifeInv, GiveUpWaiting \/ StopWaiting
  PROVE  LifeInv'
<1>1. PICK c : Return(c)
  BY DEF GiveUpWaiting, StopWaiting
<1>2. stage \in Opening /\ ShutNow /\ attempt' = "none" /\ UNCHANGED <<Work, Outside>>
  BY DEF GiveUpWaiting, StopWaiting, Opening, LifeInv, LifeTypeOK
<1>3. started' = started /\ started \in SUBSET Members /\ UNCHANGED <<state, settled, wasReady, Outside>>
  BY <1>2 DEF Work, LifeInv, LifeTypeOK
<1>4. QED
  BY <1>1, <1>2, <1>3, ShutStep

\* The durable check raises: the servers stay as they are, and nobody is ready.
LEMMA DurableCheckRaisesInv ==
  ASSUME LifeInv, DurableCheckRaises
  PROVE  LifeInv'
<1>1. /\ Return(FAILURE) /\ attempt' = "none" /\ stage \in {"bus", "db"}
      /\ UNCHANGED <<Surfaces, Work, Outside>>
  BY DEF DurableCheckRaises, LifeInv, LifeTypeOK
<1>2. 1 \in Members /\ \A i \in Members : state[i] # "ready"
  <2>1. 1 \in Members
    BY DeploymentFacts DEF LifeInv, LifeTypeOK
  <2>2. QED
    BY <1>1, <2>1 DEF LifeInv, ReadyInv, Over
<1>3. started' = started /\ started \in SUBSET Members /\ UNCHANGED <<state, settled, wasReady, Outside>>
  BY <1>1 DEF Work, LifeInv, LifeTypeOK
<1>4. cut' \in BOOLEAN /\ (<<"own", 0>> \in open' => deployment.shell) /\ ~wasReady
  BY <1>1 DEF Surfaces, LifeInv, LifeTypeOK, StopInv, Opening
<1>5. QED
  BY <1>1, <1>2, <1>3, <1>4, ReturnStep

\* A member is built: its routes are guarded, or the process ends.
LEMMA BuildInv ==
  ASSUME LifeInv, Build
  PROVE  LifeInv'
<1> USE DEF Surfaces, Shared, Resources
<1>0. /\ stage = "build" /\ stage \in Opening /\ UNCHANGED <<Shared, Work, Outside>>
      /\ attempt' = "none"
      /\ deployment' = deployment /\ at \in Members
      /\ deployment \in Deployments /\ deployment.shell \in BOOLEAN
  BY DeploymentFacts, NoAttempt DEF Build, Opening, Outside, LifeInv, LifeTypeOK
<1>1. CASE BuildOutcome(Current) = "ok" /\ Proceed /\ UNCHANGED <<code, Surfaces>>
  <2>1. at' = at /\ stage' = IF deployment.shell THEN "listen" ELSE "clock"
    BY <1>0, <1>1, Proceeds DEF LifeInv
  <2>2. Members' = Members /\ Uses("database")' = Uses("database") /\ Uses("events")' = Uses("events")
    BY <1>0, SameDeployment
  <2>3. ~deployment.shell => at = 1 /\ Members = {1}
    BY <1>0, DeploymentFacts
  <2>4. Guarded(at)
    BY <1>1, BuiltIsGuarded DEF Guarded, Current
  <2>5. ResourceInv'
    <3>1. ~Unopened /\ ~Unbuilt
      BY <1>0 DEF Unopened, Unbuilt, Over
    <3>2. ASSUME NEW i \in Members, BuiltSoFar(i)'
          PROVE  Guarded(i)
      <4>1. i = at \/ BuiltSoFar(i)
        <5>1. CASE deployment.shell
          <6>1. i <= at
            BY <2>1, <3>2, <5>1 DEF BuiltSoFar
          <6>2. i \in Int /\ at \in Int
            BY <1>0, DeploymentFacts
          <6>3. QED
            BY <1>0, <6>1, <6>2 DEF BuiltSoFar
        <5>2. CASE ~deployment.shell
          BY <2>3, <5>2
        <5>3. QED
          BY <5>1, <5>2
      <4>2. QED
        BY <2>4, <3>1, <4>1 DEF LifeInv, ResourceInv
    <3>3. \A i \in Members : BuiltSoFar(i)' => Guarded(i)'
      BY <1>0, <3>2 DEF Guarded
    <3>4. QED
      BY <1>0, <2>2, <3>1, <3>3 DEF LifeInv, ResourceInv
  <2>6. SurfaceInv'
    BY <1>0, <1>1, <2>1, <2>2 DEF LifeInv, SurfaceInv, ServedSoFar, Over
  <2>7. /\ stage' \in Opening \cup {"start"} /\ at' \in Members
        /\ stage' = "own" => deployment.shell
        /\ stage' \in {"check", "clock", "bus"} => at' = 1
        /\ <<"own", 0>> \in open' => deployment.shell
        /\ UNCHANGED <<cut, code>>
    BY <1>0, <1>1, <2>1, <2>3 DEF Opening, LifeInv, LifeTypeOK
  <2>8. QED
    BY <1>0, <2>5, <2>6, <2>7, OpeningStep
<1>2. ASSUME NEW c, Return(c), ShutNow
      PROVE  LifeInv'
  <2>1. started' = started /\ started \in SUBSET Members /\ UNCHANGED <<state, settled, wasReady, Outside>>
    BY <1>0 DEF Work, LifeInv, LifeTypeOK
  <2>2. QED
    BY <1>0, <1>2, <2>1, ShutStep
<1>3. QED
  BY <1>1, <1>2 DEF Build

\* A database is durable, or there is none to await.
LEMMA DatabaseInv ==
  ASSUME LifeInv, Database
  PROVE  LifeInv'
<1> USE DEF Surfaces, Resources
<1>0. /\ stage = "db" /\ stage \in Opening /\ attempt' = "none"
      /\ UNCHANGED <<code, Resources, Surfaces, Work, Outside>>
      /\ deployment' = deployment /\ at \in Members
      /\ deployment \in Deployments /\ deployment.shell \in BOOLEAN
  BY DeploymentFacts DEF Database, Opening, Outside, LifeInv, LifeTypeOK
<1>1. /\ (at < Hosted) => stage' = "db" /\ at' = at + 1
      /\ ~(at < Hosted) => stage' = (IF deployment.shell THEN "start" ELSE "listen") /\ at' = 1
  BY <1>0, Proceeds DEF LifeInv, Database
<1>2. /\ Members' = Members /\ Hosted \in Nat /\ Hosted >= 1 /\ Members = 1 .. Hosted
      /\ Uses("database")' = Uses("database") /\ Uses("events")' = Uses("events")
      /\ ~deployment.shell => Hosted = 1
  BY <1>0, SameDeployment, DeploymentFacts
<1>3. at' \in Members
  BY <1>0, <1>1, <1>2
<1>4. \/ stage' = "db"
      \/ stage' = IF deployment.shell THEN "start" ELSE "listen"
  BY <1>1
<1>5. ResourceInv'
  <2>1. ~Unopened /\ ~Unbuilt /\ \A i \in Members : BuiltSoFar(i)
    BY <1>0 DEF Unopened, Unbuilt, Over, BuiltSoFar
  <2>2. \A i \in Members : Guarded(i)'
    BY <1>0, <2>1 DEF Guarded, LifeInv, ResourceInv
  <2>3. QED
    BY <1>0, <1>2, <2>1, <2>2 DEF LifeInv, ResourceInv
<1>6. SurfaceInv'
  BY <1>0, <1>2, <1>4 DEF LifeInv, SurfaceInv, ServedSoFar, Over
<1>7. /\ stage' \in Opening \cup {"start"}
      /\ stage' = "own" => deployment.shell
      /\ stage' \in {"check", "clock", "bus"} => at' = 1
      /\ <<"own", 0>> \in open' => deployment.shell
  BY <1>0, <1>4 DEF Opening, LifeInv, LifeTypeOK
<1>8. QED
  BY <1>0, <1>3, <1>5, <1>6, <1>7, OpeningStep

\* A surface listens, is not needed, or cannot be had.
LEMMA ListenInv ==
  ASSUME LifeInv, Listen
  PROVE  LifeInv'
<1> USE DEF Surfaces, Shared, Resources
<1>0. /\ stage \in {"listen", "grpc", "own"} /\ stage \in Opening
      /\ UNCHANGED <<Shared, Work, Outside>> /\ attempt' = "none"
      /\ deployment' = deployment /\ at \in Members
      /\ deployment \in Deployments /\ deployment.shell \in BOOLEAN
  BY DeploymentFacts, NoAttempt DEF Listen, Opening, Outside, LifeInv, LifeTypeOK
<1>1. ASSUME NEW c, Return(c), ShutNow
      PROVE  LifeInv'
  <2>1. started' = started /\ started \in SUBSET Members /\ UNCHANGED <<state, settled, wasReady, Outside>>
    BY <1>0 DEF Work, LifeInv, LifeTypeOK
  <2>2. QED
    BY <1>0, <1>1, <2>1, ShutStep
<1>2. ASSUME Proceed, UNCHANGED <<cut, code>>, open \subseteq open',
             stage = "listen" => open' = open \cup {<<"http", at>>},
             stage = "grpc" => open' \in {open, open \cup {<<"grpc", at>>}},
             stage = "own" => open' = open \cup {<<"own", 0>>},
             (stage = "grpc" /\ "services" \in deployment.members[at].has) => <<"grpc", at>> \in open'
      PROVE  LifeInv'
  <2>1. /\ stage = "listen" => stage' = "grpc" /\ at' = at
        /\ (stage = "grpc" /\ at < Hosted) => stage' = "build" /\ at' = at + 1
        /\ (stage = "grpc" /\ ~(at < Hosted)) =>
             stage' = (IF deployment.shell THEN "own" ELSE "start") /\ at' = 1
        /\ stage = "own" => stage' = "db" /\ at' = at
    BY <1>0, <1>2, Proceeds DEF LifeInv
  <2>2. /\ Members' = Members /\ Hosted \in Nat /\ Hosted >= 1 /\ Members = 1 .. Hosted
        /\ Uses("database")' = Uses("database") /\ Uses("events")' = Uses("events")
        /\ ~deployment.shell => Hosted = 1
    BY <1>0, SameDeployment, DeploymentFacts
  <2>3. stage = "own" => deployment.shell
    BY DEF LifeInv, LifeTypeOK
  <2>4. ResourceInv'
    <3>1. ~Unopened /\ ~Unbuilt
      BY <1>0 DEF Unopened, Unbuilt, Over
    <3>2. ASSUME NEW i \in Members, BuiltSoFar(i)'
          PROVE  Guarded(i)
      <4>1. BuiltSoFar(i)
        BY <1>0, <2>1, <2>2, <3>2 DEF BuiltSoFar
      <4>2. QED
        BY <3>1, <4>1 DEF LifeInv, ResourceInv
    <3>3. \A i \in Members : BuiltSoFar(i)' => Guarded(i)'
      BY <1>0, <3>2 DEF Guarded
    <3>4. QED
      BY <1>0, <2>2, <3>1, <3>3 DEF LifeInv, ResourceInv
  <2>5. SurfaceInv'
    <3>1. /\ stage' \notin Over \cup {"check", "clock", "bus", "members", "listen"}
          /\ (stage' \in {"build", "db"} => deployment.shell)
      BY <1>0, <2>1, <2>2, <2>3 DEF Over
    <3>2. ASSUME NEW i \in Members, ServedSoFar(i)'
          PROVE  /\ <<"http", i>> \in open'
                 /\ "services" \in deployment.members[i].has => <<"grpc", i>> \in open'
      <4>1. CASE stage = "grpc" /\ i = at
        BY <1>2, <4>1 DEF LifeInv, SurfaceInv
      <4>2. CASE ~(stage = "grpc" /\ i = at)
        <5>1. ServedSoFar(i)
          BY <1>0, <2>1, <2>2, <2>3, <3>2, <4>2 DEF ServedSoFar
        <5>2. QED
          BY <1>2, <5>1 DEF LifeInv, SurfaceInv
      <4>3. QED
        BY <4>1, <4>2
    <3>3. stage' = "grpc" => <<"http", at'>> \in open'
      BY <1>0, <1>2, <2>1
    <3>4. QED
      BY <1>0, <2>2, <3>1, <3>2, <3>3 DEF SurfaceInv
  <2>6. /\ stage' \in Opening \cup {"start"}
        /\ stage' = "own" => deployment.shell
        /\ stage' \notin {"check", "clock", "bus"}
    BY <1>0, <2>1, <2>2 DEF Opening
  <2>7. at' \in Members
    BY <1>0, <2>1, <2>2
  <2>8. <<"own", 0>> \in open' => deployment.shell
    <3>1. <<"own", 0>> # <<"http", at>> /\ <<"own", 0>> # <<"grpc", at>>
      OBVIOUS
    <3>2. <<"own", 0>> \in open => deployment.shell
      BY DEF LifeInv, LifeTypeOK
    <3>3. QED
      BY <1>0, <1>2, <2>3, <3>1, <3>2
  <2>9. QED
    BY <1>0, <1>2, <2>4, <2>5, <2>6, <2>7, <2>8, OpeningStep
<1>3. QED
  <2>1. CASE stage = "listen"
    BY <1>1, <1>2, <2>1 DEF Listen
  <2>2. CASE stage = "grpc"
    BY <1>1, <1>2, <2>2 DEF Listen, Current
  <2>3. CASE stage = "own"
    BY <1>1, <1>2, <2>3 DEF Listen
  <2>4. QED
    BY <1>0, <2>1, <2>2, <2>3

\* A member is started and answers ready.
LEMMA StartInv ==
  ASSUME LifeInv, Start
  PROVE  LifeInv'
<1> USE DEF Surfaces, Shared, Resources
<1>0. /\ stage = "start" /\ started' = started \cup {at}
      /\ state' = [state EXCEPT ![at] = "ready"]
      /\ wasReady' = (at = Hosted)
      /\ UNCHANGED <<settled, code, Shared, Surfaces, Outside>>
      /\ deployment' = deployment /\ at \in Members
      /\ deployment \in Deployments
  BY DEF Start, Outside, LifeInv, LifeTypeOK
<1>1. /\ at < Hosted => stage' = "start" /\ at' = at + 1
      /\ ~(at < Hosted) => stage' = "wait" /\ at' = at
  BY <1>0, Proceeds DEF Start, LifeInv
<1>2. /\ Members' = Members /\ Hosted \in Nat /\ Hosted >= 1 /\ Members = 1 .. Hosted
      /\ Uses("database")' = Uses("database") /\ Uses("events")' = Uses("events")
      /\ Hosted' = Hosted
  BY <1>0, SameDeployment, DeploymentFacts
<1>3. stage' \in {"start", "wait"} /\ at' \in Members /\ (wasReady' => stage' = "wait")
  <2>1. at \in Nat /\ at >= 1 /\ at <= Hosted
    BY <1>0, <1>2
  <2>2. stage' \in {"start", "wait"} /\ (at = Hosted => stage' = "wait")
    BY <1>1, <1>2, <2>1
  <2>3. at' \in 1 .. Hosted
    BY <1>1, <1>2, <2>1
  <2>4. QED
    BY <1>0, <1>2, <2>2, <2>3, Zenon
<1>4. LifeTypeOK'
  <2>1. {stop, wasReady, cut, unclean}' \subseteq BOOLEAN
    BY <1>0 DEF Outside, LifeInv, LifeTypeOK
  <2>2. /\ state' \in [Members' -> {"starting", "ready", "stopping"}]
        /\ started' \in SUBSET Members' /\ settled' \in SUBSET Members' /\ left' \in Int
    BY <1>0, <1>2 DEF Outside, LifeInv, LifeTypeOK
  <2>3. QED
    BY <1>0, <1>2, <1>3, <2>1, <2>2 DEF LifeInv, LifeTypeOK, Stages, Outside
<1>5. ReadyInv'
  <2>1. ASSUME NEW i \in Members, state'[i] = "ready"
        PROVE  i \in started'
    BY <1>0, <2>1 DEF LifeInv, LifeTypeOK, ReadyInv
  <2>2. QED
    BY <1>2, <1>3, <2>1 DEF ReadyInv, Stopping
<1>6. ResourceInv'
  <2>1. ~Unopened /\ ~Unbuilt /\ \A i \in Members : BuiltSoFar(i)
    BY <1>0 DEF Unopened, Unbuilt, Over, BuiltSoFar
  <2>2. \A i \in Members : Guarded(i)'
    BY <1>0, <2>1 DEF Guarded, LifeInv, ResourceInv
  <2>3. QED
    BY <1>0, <1>2, <2>1, <2>2 DEF LifeInv, ResourceInv
<1>7. SurfaceInv'
  BY <1>0, <1>2, <1>3 DEF LifeInv, SurfaceInv, ServedSoFar, Over
<1>8. StopInv'
  BY <1>0, <1>3 DEF LifeInv, StopInv, Opening, Stopping, Over, Outside
<1>9. QED
  BY <1>4, <1>5, <1>6, <1>7, <1>8 DEF LifeInv

\* A start fails.
LEMMA StartFailsInv ==
  ASSUME LifeInv, StartFails
  PROVE  LifeInv'
<1>1. /\ stage = "start" /\ Return(FAILURE) /\ ShutNow /\ started' = started \cup {at}
      /\ attempt' = "none" /\ UNCHANGED <<state, settled, wasReady, Outside>>
  BY NoAttempt DEF StartFails, Shared
<1>2. started' \in SUBSET Members
  BY <1>1 DEF LifeInv, LifeTypeOK
<1>3. QED
  BY <1>1, <1>2, ShutStep

\* The user surface of a component alone ends by itself.
LEMMA ServerEndsInv ==
  ASSUME LifeInv, ServerEnds
  PROVE  LifeInv'
<1>1. /\ stage = "wait" /\ ~deployment.shell /\ open' = open \ {<<"http", 1>>}
      /\ Return(FAILURE) /\ attempt' = "none" /\ UNCHANGED <<Work, Outside>>
  BY NoAttempt DEF ServerEnds, Shared
<1>2. cut' \in BOOLEAN
  BY DEF ServerEnds, LifeInv, LifeTypeOK
<1>3. Members = {1}
  BY <1>1, DeploymentFacts DEF LifeInv, LifeTypeOK
<1>4. started' = started /\ started \in SUBSET Members /\ UNCHANGED <<state, settled, wasReady, Outside>>
  BY <1>1 DEF Work, LifeInv, LifeTypeOK
<1>5. <<"own", 0>> \notin open'
  BY <1>1 DEF LifeInv, LifeTypeOK
<1>6. \A i \in Members : <<"http", i>> \notin open'
  BY <1>1, <1>3
<1>7. FAILURE # OK
  BY DEF FAILURE, OK
<1>8. QED
  BY <1>1, <1>2, <1>4, <1>5, <1>6, <1>7, ReturnStep

\* Steps of stop_all that lead from one of its stages to the next.
LEMMA BeginStopInv ==
  ASSUME LifeInv, BeginStop
  PROVE  LifeInv'
<1> USE DEF Surfaces, Shared, Resources
<1>0. /\ stage = "wait" /\ stop /\ stage' = "drain"
      /\ state' = [i \in Members |-> "stopping"]
      /\ UNCHANGED <<deployment, at, started, settled, wasReady, stop, left, unclean, code,
                     Shared, Surfaces>>
  BY DEF BeginStop
<1>1. /\ Members' = Members
      /\ Uses("database")' = Uses("database") /\ Uses("events")' = Uses("events")
  BY <1>0, SameDeployment
<1>2. LifeTypeOK'
  BY <1>0, <1>1 DEF LifeInv, LifeTypeOK, Stages, Stopping
<1>3. ReadyInv'
  BY <1>0, <1>1 DEF ReadyInv
<1>4. ResourceInv'
  <2>1. ~Unopened /\ ~Unbuilt /\ \A i \in Members : BuiltSoFar(i)
    BY <1>0 DEF Unopened, Unbuilt, Over, BuiltSoFar
  <2>2. \A i \in Members : Guarded(i)'
    BY <1>0, <2>1 DEF Guarded, LifeInv, ResourceInv
  <2>3. QED
    BY <1>0, <1>1, <2>1, <2>2 DEF LifeInv, ResourceInv
<1>5. SurfaceInv'
  BY <1>0, <1>1 DEF LifeInv, SurfaceInv, ServedSoFar, Over
<1>6. StopInv'
  BY <1>0 DEF LifeInv, StopInv, Opening, Over
<1>7. QED
  BY <1>2, <1>3, <1>4, <1>5, <1>6 DEF LifeInv

\* The drain is over; later, the servers are down.
LEMMA StopStagesInv ==
  ASSUME LifeInv, EndDrain \/ EndShutdown
  PROVE  LifeInv'
<1> USE DEF Surfaces, Shared, Resources, Outside, Work
<1>0. /\ \/ stage = "drain" /\ stage' = "shutdown" /\ Elapsed >= DrainTime
         \/ stage = "shutdown" /\ stage' = "members" /\ open = {}
      /\ UNCHANGED <<deployment, at, state, started, settled, wasReady, stop, left, unclean, code,
                     Shared, Surfaces>>
  BY DEF EndDrain, EndShutdown
<1>1. /\ Members' = Members /\ Elapsed' = Elapsed
      /\ Uses("database")' = Uses("database") /\ Uses("events")' = Uses("events")
  BY <1>0, SameDeployment DEF Elapsed
<1>2. LifeTypeOK'
  BY <1>0, <1>1 DEF LifeInv, LifeTypeOK, Stages, Stopping
<1>3. ReadyInv'
  BY <1>0, <1>1 DEF LifeInv, ReadyInv, Stopping, Over
<1>4. ResourceInv'
  <2>1. ~Unopened /\ ~Unbuilt /\ \A i \in Members : BuiltSoFar(i)
    BY <1>0 DEF Unopened, Unbuilt, Over, BuiltSoFar
  <2>2. \A i \in Members : Guarded(i)'
    BY <1>0, <2>1 DEF Guarded, LifeInv, ResourceInv
  <2>3. QED
    BY <1>0, <1>1, <2>1, <2>2 DEF LifeInv, ResourceInv
<1>5. SurfaceInv'
  BY <1>0, <1>1 DEF LifeInv, SurfaceInv, ServedSoFar, Over
<1>6. StopInv'
  BY <1>0, <1>1 DEF LifeInv, StopInv, Opening, Over, Stopping, DrainTime
<1>7. QED
  BY <1>2, <1>3, <1>4, <1>5, <1>6 DEF LifeInv

\* A server stops, and one that cut a request off counts as unclean.
LEMMA ServerStopsInv ==
  ASSUME LifeInv, NEW s \in open, ServerStops(s)
  PROVE  LifeInv'
<1> USE DEF Shared, Resources, Work
<1>0. /\ stage = "shutdown" /\ stage' = stage /\ open' = open \ {s}
      /\ cut' = (cut \/ s \in busy)
      /\ UNCHANGED <<deployment, at, stop, left, code, Shared, Work>>
  BY DEF ServerStops
<1>1. /\ Members' = Members /\ Elapsed' = Elapsed
      /\ Uses("database")' = Uses("database") /\ Uses("events")' = Uses("events")
  BY <1>0, SameDeployment DEF Elapsed
<1>2. unclean' \in BOOLEAN /\ (cut' => unclean')
  <2>1. CASE s \in busy
    BY <2>1 DEF ServerStops
  <2>2. CASE s \notin busy
    <3>1. cut' = cut /\ (cut => unclean)
      BY <1>0, <2>2 DEF LifeInv, StopInv, Over, LifeTypeOK
    <3>2. unclean' \in {unclean, unclean \/ left <= 0} /\ unclean \in BOOLEAN
      BY <2>2 DEF ServerStops, LifeInv, LifeTypeOK
    <3>3. QED
      BY <3>1, <3>2
  <2>3. QED
    BY <2>1, <2>2
<1>3. LifeTypeOK'
  BY <1>0, <1>1, <1>2 DEF LifeInv, LifeTypeOK
<1>4. ReadyInv'
  BY <1>0, <1>1 DEF LifeInv, ReadyInv
<1>5. ResourceInv'
  BY <1>0, <1>1 DEF LifeInv, ResourceInv, Unopened, Unbuilt, BuiltSoFar, Guarded
<1>6. SurfaceInv'
  BY <1>0, <1>1 DEF LifeInv, SurfaceInv, ServedSoFar, Over
<1>7. StopInv'
  BY <1>0, <1>1, <1>2 DEF LifeInv, StopInv, Opening, Over, Stopping, DrainTime
<1>8. QED
  BY <1>3, <1>4, <1>5, <1>6, <1>7 DEF LifeInv

\* A member's stop ends, or does not end well.
LEMMA MemberStopsInv ==
  ASSUME LifeInv, NEW i \in Members, MemberStops(i)
  PROVE  LifeInv'
<1> USE DEF Shared, Resources, Surfaces
<1>0. /\ stage = "members" /\ stage' = stage /\ settled' = settled \cup {i}
      /\ \/ started' = started \ {i} /\ UNCHANGED unclean
         \/ unclean' = TRUE /\ UNCHANGED started
      /\ UNCHANGED <<deployment, at, state, wasReady, stop, left, code, Shared, Surfaces>>
  BY DEF MemberStops, NotStopped
<1>1. /\ Members' = Members
      /\ Uses("database")' = Uses("database") /\ Uses("events")' = Uses("events")
  BY <1>0, SameDeployment
<1>2. LifeTypeOK'
  BY <1>0, <1>1 DEF LifeInv, LifeTypeOK
<1>3. ReadyInv'
  BY <1>0, <1>1 DEF LifeInv, ReadyInv, Stopping, Over
<1>4. ResourceInv'
  BY <1>0, <1>1 DEF LifeInv, ResourceInv, Unopened, Unbuilt, BuiltSoFar, Guarded
<1>5. SurfaceInv'
  BY <1>0, <1>1 DEF LifeInv, SurfaceInv, ServedSoFar, Over
<1>6. StopInv'
  <2>1. (stage' = "members" /\ ~unclean') => started' \cap settled' = {}
    BY <1>0 DEF LifeInv, StopInv
  <2>2. cut' => unclean'
    BY <1>0 DEF LifeInv, StopInv, Over
  <2>3. QED
    BY <1>0, <2>1, <2>2 DEF LifeInv, StopInv, Opening, Over, Stopping
<1>7. QED
  BY <1>2, <1>3, <1>4, <1>5, <1>6 DEF LifeInv

\* stop_all returns: its code is 0 only when every server and every member
\* stopped as it should.
LEMMA EndStopInv ==
  ASSUME LifeInv, EndStop
  PROVE  LifeInv'
<1> USE DEF Surfaces
<1>1. PICK c : Return(c) /\ c = IF unclean THEN FAILURE ELSE OK
  BY DEF EndStop
<1>2. /\ stage = "members" /\ settled = Members /\ UNCHANGED <<Surfaces, Work, Outside>>
      /\ open = {} /\ open' = {} /\ stop /\ attempt' = "none"
  BY NoAttempt DEF EndStop, Shared, LifeInv, SurfaceInv, StopInv, Stopping
<1>3. started' = started /\ started \in SUBSET Members /\ cut' \in BOOLEAN /\ cut' = cut
      /\ UNCHANGED <<state, settled, wasReady, Outside>>
  BY <1>2 DEF Work, LifeInv, LifeTypeOK
<1>4. c = OK => ~unclean
  BY <1>1 DEF FAILURE, OK
<1>5. ~unclean => ~cut /\ started = {}
  BY <1>2, <1>3 DEF LifeInv, StopInv, Over
<1>6. QED
  BY <1>1, <1>2, <1>3, <1>4, <1>5, ReturnStep

\* The finally blocks.
LEMMA CloseInv ==
  ASSUME LifeInv, Close
  PROVE  LifeInv'
<1> USE DEF Surfaces, Outside, Work
<1>0. /\ stage = "closing" /\ stage' = "exited"
      /\ UNCHANGED <<deployment, at, attempt, state, started, settled, wasReady, stop, left,
                     unclean, code, Surfaces>>
  BY DEF Close
<1>1. Members' = Members
  BY <1>0, SameDeployment
<1>2. LifeTypeOK'
  BY <1>0, <1>1 DEF LifeInv, LifeTypeOK, Stages, Over
<1>3. ReadyInv'
  BY <1>0, <1>1 DEF LifeInv, ReadyInv, Stopping, Over
<1>4. ResourceInv'
  BY <1>0 DEF ResourceInv, Unopened, Unbuilt, Over
<1>5. SurfaceInv'
  BY <1>0, <1>1 DEF LifeInv, SurfaceInv, ServedSoFar, Over
<1>6. StopInv'
  BY <1>0 DEF LifeInv, StopInv, Opening, Stopping, Over
<1>7. QED
  BY <1>2, <1>3, <1>4, <1>5, <1>6 DEF LifeInv

\* The surroundings touch neither the stage, nor what is open, nor a member's
\* state; time only passes.
LEMMA SurroundingsInv ==
  ASSUME LifeInv, stop' \in BOOLEAN, stop => stop', left' \in Int, left' <= left,
         UNCHANGED <<deployment, stage, at, state, open, started, settled, bus, pools, keys,
                     attempt, wasReady, cut, unclean, code>>
  PROVE  LifeInv'
<1>1. /\ Members' = Members
      /\ Uses("database")' = Uses("database") /\ Uses("events")' = Uses("events")
  BY SameDeployment
<1>2. LifeTypeOK'
  BY <1>1 DEF LifeInv, LifeTypeOK
<1>3. ReadyInv'
  BY <1>1 DEF LifeInv, ReadyInv
<1>4. ResourceInv'
  BY <1>1 DEF LifeInv, ResourceInv, Unopened, Unbuilt, BuiltSoFar, Guarded
<1>5. SurfaceInv'
  BY <1>1 DEF LifeInv, SurfaceInv, ServedSoFar
<1>6. Elapsed >= DrainTime => Elapsed' >= DrainTime
  <2>1. StopTimeout \in Int /\ left \in Int /\ DrainTime \in Int
    BY LeastOfTwo, LifeAssumption DEF LifeInv, LifeTypeOK
  <2>2. \A t, a, b, d \in Int : t - a >= d /\ b <= a => t - b >= d
    OBVIOUS
  <2>3. Elapsed' = StopTimeout - left' /\ Elapsed = StopTimeout - left
    BY DEF Elapsed
  <2>4. QED
    BY <2>1, <2>2, <2>3, Zenon
<1>7. StopInv'
  BY <1>6 DEF LifeInv, StopInv, DrainTime
<1>8. QED
  BY <1>2, <1>3, <1>4, <1>5, <1>7 DEF LifeInv

\* The inductive invariant is preserved by every step.
LEMMA LifeStepInv == LifeInv /\ [LifeNext]_lifeVars => LifeInv'
<1> SUFFICES ASSUME LifeInv, [LifeNext]_lifeVars PROVE LifeInv'
  OBVIOUS
<1>0. left \in Int /\ stop \in BOOLEAN
  BY DEF LifeInv, LifeTypeOK
<1>1. CASE Run
  BY <1>1, ChecksInv, OpenBusInv, AttemptsInv, WaitingEndsInv, DurableCheckRaisesInv, BuildInv, ListenInv, DatabaseInv, StartInv,
     StartFailsInv, ServerEndsInv, BeginStopInv, StopStagesInv, EndStopInv, CloseInv,
     ServerStopsInv, MemberStopsInv DEF Run
<1>2. CASE StopTimePasses
  BY <1>0, <1>2, SurroundingsInv DEF StopTimePasses, Shared, Resources, Surfaces, Work
<1>3. ASSUME NEW i \in Members, RetrySubmission(i)
      PROVE  LifeInv'
  BY <1>0, <1>3, SurroundingsInv DEF RetrySubmission, Shared, Resources, Surfaces
<1>4. ASSUME NEW s \in open, Arrive(s) \/ Answer(s)
      PROVE  LifeInv'
  BY <1>0, <1>4, SurroundingsInv DEF Arrive, Answer, Shared, Resources, Work, Outside
<1>5. CASE Signal
  BY <1>0, <1>5, SurroundingsInv DEF Signal, Shared, Resources, Surfaces, Work
<1>6. CASE AuthzChanges
  BY <1>0, <1>6, SurroundingsInv DEF AuthzChanges, Shared, Resources, Surfaces, Work
<1>7. CASE UNCHANGED lifeVars
  BY <1>0, <1>7, SurroundingsInv DEF lifeVars
<1>8. QED
  BY <1>1, <1>2, <1>3, <1>4, <1>5, <1>6, <1>7 DEF LifeNext

\* For every deployment, a member that answers ready has been started, and has
\* its surfaces, pools, bus, keys and identity.
THEOREM ReadyMembersServe == LifeSpec => []ReadyIsServing
<1>1. LifeInv => ReadyIsServing
  <2> SUFFICES ASSUME LifeInv PROVE ReadyIsServing
    OBVIOUS
  <2>1. ASSUME NEW i \in Members, Answers(i)
        PROVE  /\ i \in started
               /\ "services" \in deployment.members[i].has => <<"grpc", i>> \in open
               /\ "database" \in deployment.members[i].has => pools = "open"
               /\ "events" \in deployment.members[i].has => bus = "open"
               /\ Guarded(i)
    <3>1. i \in started /\ stage \in {"start", "wait"}
      BY <2>1 DEF Answers, LifeInv, ReadyInv, SurfaceInv
    <3>2. ~Unopened /\ ~Unbuilt /\ BuiltSoFar(i) /\ ServedSoFar(i)
      BY <3>1 DEF Unopened, Unbuilt, Over, BuiltSoFar, ServedSoFar
    <3>3. "database" \in deployment.members[i].has => Uses("database")
      BY DEF Uses
    <3>4. "events" \in deployment.members[i].has => Uses("events")
      BY DEF Uses
    <3>5. QED
      BY <3>1, <3>2, <3>3, <3>4 DEF LifeInv, ResourceInv, SurfaceInv
  <2>2. ASSUME <<"own", 0>> \in open, \A i \in Members : state[i] = "ready",
               NEW i \in Members
        PROVE  Answers(i)
    <3>1. stage \in {"start", "wait"}
      BY <2>2 DEF LifeInv, ReadyInv, SurfaceInv
    <3>2. ServedSoFar(i)
      BY <3>1 DEF ServedSoFar
    <3>3. QED
      BY <2>2, <3>2 DEF Answers, LifeInv, SurfaceInv
  <2>3. QED
    BY <2>1, <2>2 DEF ReadyIsServing, Guarded
<1>2. QED
  BY LifeInitInv, LifeStepInv, <1>1, PTL DEF LifeSpec

\* For every deployment, exit code 0 after the process was ready means that no
\* request was cut off and every member stopped well.
THEOREM ExitIsClean == LifeSpec => []CleanExit
<1>1. LifeInv => CleanExit
  BY DEF LifeInv, StopInv, CleanExit, Over
<1>2. QED
  BY LifeInitInv, LifeStepInv, <1>1, PTL DEF LifeSpec

\* For every deployment, delay and timeout, the surfaces of a process that was
\* ready close only after the drain.
THEOREM DrainComesFirst == LifeSpec => DrainedFirst
<1>1. ASSUME LifeInv, LifeNext, wasReady, open' # open, stage # "wait"
      PROVE  /\ \A i \in Members : state[i] = "stopping"
             /\ Elapsed >= StopDrain \/ Elapsed >= StopTimeout
  <2>1. stage \notin Opening \cup {"start"}
    BY <1>1 DEF LifeInv, StopInv
  <2>2. attempt = "none"
    BY <1>1, <2>1, NoAttempt DEF Opening
  <2>3. \E s \in open : ServerStops(s)
    BY <1>1, <2>1, <2>2 DEF LifeNext, Run, CheckConfiguration, CheckClock, BeginAttempt,
       PauseWaiting, OpenBus, DatabaseAnswers, GiveUpWaiting, DurableCheckRaises, StopWaiting,
       Build, Listen, Database, Start, StartFails, ServerEnds, BeginStop, EndDrain,
       EndShutdown, EndStop, Close, MemberStops, StopTimePasses, RetrySubmission, Arrive, Answer,
       Signal, AuthzChanges, Opening, Surfaces
  <2>4. stage = "shutdown"
    BY <2>3 DEF ServerStops
  <2>5. Elapsed >= DrainTime
    BY <1>1, <2>4 DEF LifeInv, StopInv
  <2>6. \A i \in Members : state[i] = "stopping"
    BY <1>1, <2>4 DEF LifeInv, ReadyInv, Stopping
  <2>7. QED
    BY <2>5, <2>6, LeastOfTwo
<1>2. LifeInv /\ [LifeNext]_lifeVars =>
        [(wasReady /\ open' # open /\ stage # "wait") =>
           /\ \A i \in Members : state[i] = "stopping"
           /\ Elapsed >= StopDrain \/ Elapsed >= StopTimeout]_lifeVars
  BY <1>1
<1>3. QED
  BY LifeInitInv, LifeStepInv, <1>2, PTL DEF LifeSpec, DrainedFirst
=============================================================================
