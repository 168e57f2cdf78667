------------------------------ MODULE Rotation ------------------------------
(***************************************************************************)
(* A member's certificate while it is rotated: the files are replaced one  *)
(* by one, ServiceTLS.reload re-reads them (identity/service.py), the      *)
(* server's handshakes fetch its configuration in a thread of gRPC's, and  *)
(* the calls of a stub follow it through _TLSChannel and _Rebound          *)
(* (calls/client.py). Each statement of the two threads is one step; the   *)
(* event loop does nothing else while it reloads.                          *)
(***************************************************************************)
EXTENDS Integers, Sequences

CONSTANTS
  LastVersion,    \* bound: versions of the files
  StubCall,       \* unary calls that may be in progress
  StubAttempts,   \* MAX_ATTEMPTS of a call
  CallMax,        \* the longest call: that many MAX_ATTEMPT_TIMEOUTs and the backoffs
  RotationGrace   \* ROTATION_GRACE

\* Three attempts of three seconds with their backoffs end within the grace of
\* thirty.
ASSUME RotationAssumption ==
  /\ LastVersion \in Nat /\ StubAttempts \in Nat \ {0}
  /\ CallMax \in Nat /\ RotationGrace \in Nat /\ CallMax < RotationGrace

VARIABLES
  files,      \* the versions the three files have: [cert, key, ca]
  readSoFar,  \* the files reload has read
  tls,        \* ServiceTLS: [cert, key, ca]
  gen,        \* its generation
  counted,    \* generation has been raised for what tls has
  server,     \* seen, what the handshakes use, and whether fetch is under way
  channel,    \* _TLSChannel: [gen, with], gen 0 before the first
  retired,    \* the previous channels: [gen, left of the grace, closing]
  onWire      \* per call: where it is, its channel, its attempts and the time it has taken

rotationVars == <<files, readSoFar, tls, gen, counted, server, channel, retired, onWire>>

FileOrder == <<"cert", "key", "ca">>
Version(v) == [f \in {"cert", "key", "ca"} |-> v]
NoWire == [at |-> "none", gen |-> 0, n |-> 0, took |-> 0, with |-> Version(0)]

\* The key belongs to the certificate. What else is refused (it does not parse,
\* it names another member) is kept out in the same way.
Accepted(t) == t.cert = t.key

RotationInit ==
  /\ files = Version(1)
  /\ readSoFar = <<>>
  /\ tls = Version(1) /\ gen = 1 /\ counted = TRUE
  /\ server = [seen |-> 1, with |-> Version(1), fetching |-> FALSE]
  /\ channel = [gen |-> 0, with |-> Version(0)]
  /\ retired = {}
  /\ onWire = [c \in StubCall |-> NoWire]

\* The event loop is not in reload.
LoopIsFree == readSoFar = <<>> /\ counted

------------------------------------------------------------------------------
(* The files and ServiceTLS.reload                                           *)

\* A file is replaced by its next version, in whatever order.
Replace(f) ==
  /\ files[f] < LastVersion
  /\ files' = [files EXCEPT ![f] = @ + 1]
  /\ UNCHANGED <<readSoFar, tls, gen, counted, server, channel, retired, onWire>>

ReadFile ==
  /\ counted /\ Len(readSoFar) < 3
  /\ readSoFar' = Append(readSoFar, files[FileOrder[Len(readSoFar) + 1]])
  /\ UNCHANGED <<files, tls, gen, counted, server, channel, retired, onWire>>

\* All three were read: a change that is accepted is stored; else the previous
\* certificate is kept until the next reload.
StoreFiles ==
  LET new == [f \in DOMAIN tls |-> readSoFar[CHOOSE i \in 1 .. 3 : FileOrder[i] = f]]
  IN  /\ Len(readSoFar) = 3
      /\ readSoFar' = <<>>
      /\ IF new # tls /\ Accepted(new)
         THEN tls' = new /\ counted' = FALSE
         ELSE UNCHANGED <<tls, counted>>
      /\ UNCHANGED <<files, gen, server, channel, retired, onWire>>

RaiseGeneration ==
  /\ ~counted
  /\ gen' = gen + 1
  /\ counted' = TRUE
  /\ UNCHANGED <<files, readSoFar, tls, server, channel, retired, onWire>>

\* A file cannot be read.
ReadFails ==
  /\ readSoFar # <<>> /\ Len(readSoFar) < 3
  /\ readSoFar' = <<>>
  /\ UNCHANGED <<files, tls, gen, counted, server, channel, retired, onWire>>

------------------------------------------------------------------------------
(* server_credentials: fetch, at a handshake                                 *)

BeginHandshake ==
  /\ ~server.fetching /\ server.seen # gen
  /\ server' = [server EXCEPT !.seen = gen, !.fetching = TRUE]
  /\ UNCHANGED <<files, readSoFar, tls, gen, counted, channel, retired, onWire>>

EndHandshake ==
  /\ server.fetching
  /\ server' = [server EXCEPT !.with = tls, !.fetching = FALSE]
  /\ UNCHANGED <<files, readSoFar, tls, gen, counted, channel, retired, onWire>>

------------------------------------------------------------------------------
(* _TLSChannel.current and _Rebound                                          *)

\* Faulty variant: the channel of the previous certificate is closed at once.
NoGrace == 0

Grace == RotationGrace

\* In an attempt, or in the backoff before the next one.
Calling(c) == onWire[c].at \in {"sent", "backoff"}

\* A call takes the current channel, made anew when the generation changed, and
\* its first attempt is sent; closing the previous channel is a task of its own.
\* The stub's call is rebound to the channel it takes.
Begin(c) ==
  LET stale == channel.gen # gen
  IN  /\ LoopIsFree /\ onWire[c] = NoWire
      /\ channel' = IF stale THEN [gen |-> gen, with |-> tls] ELSE channel
      /\ retired' = IF stale /\ channel.gen # 0
                    THEN retired \cup {[gen |-> channel.gen, left |-> Grace, closing |-> FALSE]}
                    ELSE retired
      /\ onWire' = [onWire EXCEPT ![c] = [at |-> "sent", gen |-> channel'.gen, n |-> 1,
                                          took |-> 0, with |-> channel'.with]]
      /\ UNCHANGED <<files, readSoFar, tls, gen, counted, server>>

\* _attempts: an attempt fails and another one follows its backoff.
AttemptFails(c) ==
  /\ LoopIsFree /\ onWire[c].at = "sent" /\ onWire[c].n < StubAttempts
  /\ onWire' = [onWire EXCEPT ![c].at = "backoff"]
  /\ UNCHANGED <<files, readSoFar, tls, gen, counted, server, channel, retired>>

\* A channel begins no call once it is being closed.
Accepting(g) == g = channel.gen \/ \E r \in retired : r.gen = g /\ ~r.closing

\* Every attempt goes through the interceptor's continuation: a call of its own
\* on the channel taken in the beginning. When that refuses it, the UsageError
\* ends the call.
NextAttempt(c) ==
  /\ LoopIsFree /\ onWire[c].at = "backoff"
  /\ onWire' = [onWire EXCEPT
       ![c] = IF Accepting(onWire[c].gen)
              THEN [onWire[c] EXCEPT !.at = "sent", !.n = @ + 1]
              ELSE [onWire[c] EXCEPT !.at = "refused"]]
  /\ UNCHANGED <<files, readSoFar, tls, gen, counted, server, channel, retired>>

\* The call ends: by its answer, the timeouts of its attempts, a retry that is
\* not made, or what happened to its channel.
Done(c) ==
  /\ LoopIsFree /\ onWire[c] # NoWire
  /\ onWire' = [onWire EXCEPT ![c] = NoWire]
  /\ UNCHANGED <<files, readSoFar, tls, gen, counted, server, channel, retired>>

\* The task of close(grace) begins: the channel accepts nothing more.
CloseBegins(r) ==
  /\ LoopIsFree /\ r \in retired /\ ~r.closing
  /\ retired' = (retired \ {r}) \cup {[r EXCEPT !.closing = TRUE]}
  /\ UNCHANGED <<files, readSoFar, tls, gen, counted, server, channel, onWire>>

\* The channel is destroyed when its calls are done or the grace has passed;
\* what is still on it then is cancelled.
Destroy(r) ==
  /\ LoopIsFree /\ r \in retired /\ r.closing
  /\ r.left = 0 \/ \A c \in StubCall : Calling(c) => onWire[c].gen # r.gen
  /\ retired' = retired \ {r}
  /\ onWire' = [c \in StubCall |-> IF Calling(c) /\ onWire[c].gen = r.gen
                                   THEN [onWire[c] EXCEPT !.at = "cut"] ELSE onWire[c]]
  /\ UNCHANGED <<files, readSoFar, tls, gen, counted, server, channel>>

\* Time is longer than a turn of the loop, and a call ends by its timeouts.
WireTime ==
  /\ LoopIsFree
  /\ \A c \in StubCall : onWire[c].took < CallMax
  /\ \A r \in retired : r.closing /\ r.left > 0
  /\ \E c \in StubCall : Calling(c)
  /\ onWire' = [c \in StubCall |->
                  IF Calling(c) THEN [onWire[c] EXCEPT !.took = @ + 1] ELSE onWire[c]]
  /\ retired' = {[r EXCEPT !.left = @ - 1] : r \in retired}
  /\ UNCHANGED <<files, readSoFar, tls, gen, counted, server, channel>>

RotationNext ==
  \/ \E f \in DOMAIN files : Replace(f)
  \/ ReadFile \/ StoreFiles \/ RaiseGeneration \/ ReadFails
  \/ BeginHandshake \/ EndHandshake
  \/ \E c \in StubCall : Begin(c) \/ AttemptFails(c) \/ NextAttempt(c) \/ Done(c)
  \/ \E r \in retired : CloseBegins(r) \/ Destroy(r)
  \/ WireTime

RotationSpec == RotationInit /\ [][RotationNext]_rotationVars

------------------------------------------------------------------------------
\* What a rotation may do, however the replacement of the files, the reloads,
\* the handshakes and the attempts interleave: a server and a call present a
\* certificate with its own key; no attempt is cut off, for the grace is longer
\* than a call; an attempt is refused only when it is a retry over a rotation; a
\* call that begins, and a handshake after the one that saw the generation, have
\* what was loaded last (reload's order, fetch, current, ROTATION_GRACE).
RotationIsSeamless ==
  /\ Accepted(server.with)
  /\ \A c \in StubCall :
       /\ Calling(c) => Accepted(onWire[c].with)
       /\ onWire[c].at # "cut"
       /\ onWire[c].at = "refused" => onWire[c].n > 0 /\ onWire[c].gen < channel.gen
  /\ (counted /\ server.seen = gen /\ ~server.fetching) => server.with = tls
  /\ (counted /\ channel.gen = gen) => channel.with = tls

\* What _TLSChannel says of itself: the next call opens a new channel, "and the
\* old one closes once its calls are done". The code closes it to the retries of
\* the calls that are on it.
OldChannelServesItsCalls == \A c \in StubCall : onWire[c].at # "refused"

------------------------------------------------------------------------------
(* The inductive invariant behind RotationIsSeamless.                        *)

Loaded == [{"cert", "key", "ca"} -> Nat]
Wire == [at : {"none", "sent", "backoff", "refused", "cut"}, gen : Nat, n : Nat,
         took : 0 .. CallMax, with : Loaded]
Retired == [gen : Nat, left : 0 .. RotationGrace, closing : BOOLEAN]

RotationTypeOK ==
  /\ files \in Loaded /\ tls \in Loaded
  /\ readSoFar \in Seq(Nat)
  /\ gen \in Nat \ {0} /\ counted \in BOOLEAN
  /\ server \in [seen : Nat, with : Loaded, fetching : BOOLEAN]
  /\ channel \in [gen : Nat, with : Loaded]
  /\ retired \in SUBSET Retired
  /\ onWire \in [StubCall -> Wire]

\* Nothing is of a generation that is still to come, and what is of the last
\* one has what was loaded last.
GenerationInv ==
  /\ server.seen <= gen /\ channel.gen <= gen
  /\ Accepted(tls) /\ Accepted(server.with) /\ Accepted(channel.with)
  /\ (counted /\ server.seen = gen /\ ~server.fetching) => server.with = tls
  /\ (counted /\ channel.gen = gen) => channel.with = tls

\* A call's channel is of a generation up to the current one, and the grace that
\* channel has left is at least that of a call that began at the rotation.
OnItsChannel(c) ==
  /\ onWire[c].at # "cut"
  /\ onWire[c].at = "refused" => onWire[c].n > 0 /\ onWire[c].gen < channel.gen
  /\ Calling(c) =>
       /\ 0 < onWire[c].gen /\ 0 < onWire[c].n /\ Accepted(onWire[c].with)
       /\ onWire[c].gen <= channel.gen
       /\ \A r \in retired : r.gen = onWire[c].gen => r.left + onWire[c].took >= RotationGrace

WireInv ==
  /\ \A r \in retired : 0 < r.gen /\ r.gen < channel.gen
  /\ \A c \in StubCall : OnItsChannel(c)

RotationInv == RotationTypeOK /\ GenerationInv /\ WireInv
=============================================================================
