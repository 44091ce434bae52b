---------------------------- MODULE RecordCipher ----------------------------
(***************************************************************************)
(* One direction of one epoch: the sender's recordCipher, which numbers    *)
(* the records it seals, and the receiver's, which rebuilds a number from  *)
(* the truncated one on the wire, authenticates, and consults the sliding  *)
(* replay window (protected_record.go, replay.go).  Any record sealed so   *)
(* far may arrive at any time, any number of times, with an 8- or 16-bit   *)
(* sequence number, and damaged records arrive too.                        *)
(*                                                                         *)
(* The AEAD is external: a record opens exactly under its own number.      *)
(***************************************************************************)
EXTENDS Integers, FiniteSetsExt

CONSTANTS
    Windows,           \* 2^8 and 2^16: the ranges of a truncated number
    SequenceLimit,     \* 2^48: record numbers are below it
    RecordLimit,       \* the AEAD usage limit of the cipher suite
    BitmapBits,        \* 64: the width of replayWindow.bitmap
    ReplaySize,        \* Config.ReplayWindow, 1 .. 64
    AuthFailureLimit,  \* the suite's limit of failed authentications
    MaxDamaged         \* bound: damaged records that arrive

ASSUME WindowsAssumption ==
    \A w \in Windows : w \in Nat \ {0} /\ ReplaySize < w \div 2
ASSUME SizesAssumption ==
    /\ SequenceLimit \in Nat /\ RecordLimit \in Nat /\ MaxDamaged \in Nat
    /\ BitmapBits \in Nat /\ ReplaySize \in 1 .. BitmapBits
ASSUME FailureLimitAssumption == AuthFailureLimit \in Nat /\ AuthFailureLimit >= 2

VARIABLES
    nextSequence,  \* of the sender
    replay,        \* the receiver's replayWindow
    authFailures,  \* recordCipher.authFailures
    requested,     \* was a KeyUpdate requested of the peer?
    canRequest,    \* could one be requested now?
    hindered,      \* failures near the limit at which none could be
    status,        \* "open", or why the receiver failed the connection:
                   \* "limit" of failed authentications, "request" in error
    handed,        \* how often each record was handed to its handler
    damaged        \* damaged records so far

vars == <<nextSequence, replay, authFailures, requested, canRequest, hindered,
          status, handed, damaged>>

Sequence == 0 .. SequenceLimit - 1

(***************************************************************************)
(* replayWindow.  Bit d of the bitmap stands for record latest - d.        *)
(***************************************************************************)
NewReplayWindow == [initialized |-> FALSE, latest |-> 0, bitmap |-> {}]

NextExpected(w) == IF w.initialized THEN w.latest + 1 ELSE 0

\* Mutant: the window is taken to be one record wider than its bitmap.
CheckOneMore(w, seq) ==
    \/ ~w.initialized
    \/ seq > w.latest
    \/ w.latest - seq <= ReplaySize /\ w.latest - seq \notin w.bitmap

Check(w, seq) ==
    \/ ~w.initialized
    \/ seq > w.latest
    \/ w.latest - seq < ReplaySize /\ w.latest - seq \notin w.bitmap

\* Mutant: the bitmap is kept when the window moves past all of it.
ShiftKeepingAll(bitmap, delta) ==
    IF delta >= BitmapBits THEN bitmap
    ELSE {d \in 0 .. BitmapBits - 1 : d - delta \in bitmap}

\* bitmap <<= delta, or 0 for a delta of the whole width.
Shift(bitmap, delta) == {d \in 0 .. BitmapBits - 1 : d - delta \in bitmap}

Accept(w, seq) ==
    IF ~w.initialized
    THEN [initialized |-> TRUE, latest |-> seq, bitmap |-> {0}]
    ELSE IF seq > w.latest
    THEN [initialized |-> TRUE, latest |-> seq,
          bitmap |-> Shift(w.bitmap, seq - w.latest) \cup {0}]
    ELSE [initialized |-> TRUE, latest |-> w.latest,
          bitmap |-> w.bitmap \cup ({w.latest - seq} \cap (0 .. BitmapBits - 1))]

(***************************************************************************)
(* reconstructSequence: the number nearest to the expected one with these  *)
(* low bits.                                                               *)
(***************************************************************************)
\* Mutant: the record half a window ahead is taken for one behind.
ReconstructTieBack(expected, truncated, window) ==
    LET half == window \div 2
        candidate == (expected - (expected % window)) + truncated
    IN  IF candidate + half <= expected /\ candidate + window < SequenceLimit
        THEN candidate + window
        ELSE IF candidate >= expected + half /\ candidate >= window
        THEN candidate - window
        ELSE candidate

Reconstruct(expected, truncated, window) ==
    LET half == window \div 2
        candidate == (expected - (expected % window)) + truncated
    IN  IF candidate + half <= expected /\ candidate + window < SequenceLimit
        THEN candidate + window
        ELSE IF candidate > expected + half /\ candidate >= window
        THEN candidate - window
        ELSE candidate

Init ==
    /\ nextSequence = 0
    /\ replay = NewReplayWindow
    /\ authFailures = 0
    /\ requested = FALSE
    /\ canRequest \in BOOLEAN
    /\ hindered = 0
    /\ status = "open"
    /\ handed = [n \in Sequence |-> 0]
    /\ damaged = 0

\* Mutant: a record more than the sequence numbers and the AEAD allow.
CanSealOneMore == nextSequence <= SequenceLimit /\ nextSequence <= RecordLimit

\* sealWithHeaderBuilderInto: refused at either limit.
CanSeal == nextSequence < SequenceLimit /\ nextSequence < RecordLimit

Seal ==
    /\ CanSeal
    /\ nextSequence' = nextSequence + 1
    /\ UNCHANGED <<replay, authFailures, requested, canRequest, hindered, status, handed, damaged>>

\* Mutant: no margin is left below the limit.
ShouldRequestKeyUpdateLate(failures) == failures >= AuthFailureLimit

\* shouldRequestKeyUpdateForAuthFailures
Margin == Max({Min({AuthFailureLimit \div 4, 1024}), 1})
ShouldRequestKeyUpdate(failures) == failures >= AuthFailureLimit - Margin

\* The rest of the connection: the handshake, whose receive loop requests
\* nothing, ends; a KeyUpdate of the receiver's own is begun or acknowledged
\* (canBeginKeyUpdate).
RequestBecomes(can) ==
    /\ status = "open"
    /\ canRequest' = can
    /\ UNCHANGED <<nextSequence, replay, authFailures, requested, hindered, status, handed, damaged>>

\* requestKeyUpdateAfterAuthFailures: nothing while a KeyUpdate is pending; an
\* update that cannot be sealed or written ends the connection.
RequestKeyUpdate ==
    \/ ~canRequest /\ UNCHANGED <<requested, canRequest, status>>
    \/ canRequest /\ requested' = TRUE /\ canRequest' = FALSE /\ UNCHANGED status
    \/ canRequest /\ status' = "request" /\ UNCHANGED <<requested, canRequest>>

\* A record that does not open is dropped, and a KeyUpdate is requested once
\* failures approach the limit (dispatchDatagramWithACK).
Drop(failures) ==
    /\ IF ShouldRequestKeyUpdate(failures)
       THEN RequestKeyUpdate
       ELSE UNCHANGED <<requested, canRequest, status>>
    /\ UNCHANGED <<nextSequence, replay, handed>>

AuthenticationFails ==
    /\ authFailures' = authFailures + 1
    /\ \/ /\ authFailures' < AuthFailureLimit
          /\ Drop(authFailures')
          /\ hindered' = IF ShouldRequestKeyUpdate(authFailures') /\ ~canRequest
                         THEN hindered + 1 ELSE hindered
       \/ /\ authFailures' >= AuthFailureLimit
          /\ status' = "limit"
          /\ UNCHANGED <<nextSequence, replay, requested, canRequest, hindered, handed>>

(***************************************************************************)
(* recordCipher.openRecord of record n with a truncated number of range w. *)
(***************************************************************************)
SequenceOf(n, w) == Reconstruct(NextExpected(replay), n % w, w)

Open(n, w) ==
    /\ status = "open"
    /\ n < nextSequence
    /\ SequenceOf(n, w) = n
    /\ Check(replay, n)
    /\ replay' = Accept(replay, n)
    /\ handed' = [handed EXCEPT ![n] = @ + 1]
    /\ UNCHANGED <<nextSequence, authFailures, requested, canRequest, hindered, status, damaged>>

OpenDuplicateOrStale(n, w) ==
    /\ status = "open"
    /\ n < nextSequence
    /\ SequenceOf(n, w) = n
    /\ ~Check(replay, n)
    /\ Drop(authFailures)
    /\ UNCHANGED <<authFailures, hindered, damaged>>

\* A number rebuilt past the limit is refused before authentication.
OpenOutOfRange(n, w) ==
    /\ status = "open"
    /\ n < nextSequence
    /\ SequenceOf(n, w) >= SequenceLimit
    /\ Drop(authFailures)
    /\ UNCHANGED <<authFailures, hindered, damaged>>

\* A record too far from the expected one gets another record's number.
OpenMisnumbered(n, w) ==
    /\ status = "open"
    /\ n < nextSequence
    /\ SequenceOf(n, w) # n
    /\ SequenceOf(n, w) < SequenceLimit
    /\ AuthenticationFails
    /\ UNCHANGED damaged

OpenDamaged ==
    /\ status = "open"
    /\ damaged < MaxDamaged
    /\ damaged' = damaged + 1
    /\ AuthenticationFails

Next ==
    \/ Seal
    \/ \E n \in Sequence, w \in Windows :
          \/ Open(n, w)
          \/ OpenDuplicateOrStale(n, w)
          \/ OpenOutOfRange(n, w)
          \/ OpenMisnumbered(n, w)
    \/ OpenDamaged
    \/ \E can \in BOOLEAN : RequestBecomes(can)

Spec == Init /\ [][Next]_vars

(***************************************************************************)
(* Properties.                                                             *)
(***************************************************************************)

ReplayWindow == [initialized : BOOLEAN, latest : Nat, bitmap : SUBSET (0 .. BitmapBits - 1)]

\* Every variable has its type; no number is sealed past the sequence space or
\* the AEAD limit (sealWithHeaderBuilderInto).
TypeOK ==
    /\ nextSequence \in Nat
    /\ nextSequence <= SequenceLimit /\ nextSequence <= RecordLimit
    /\ replay \in ReplayWindow
    /\ authFailures \in Nat
    /\ requested \in BOOLEAN
    /\ canRequest \in BOOLEAN
    /\ hindered \in Nat
    /\ status \in {"open", "limit", "request"}
    /\ handed \in [Sequence -> Nat]
    /\ damaged \in Nat

\* However records are reordered and duplicated, each is handed to its handler
\* at most once (replayWindow.check, consulted after authentication).
AtMostOnce == \A n \in Sequence : handed[n] <= 1

\* latest is a record that was sealed, nothing beyond it was handed over, and
\* the bitmap says of each of the last BitmapBits records exactly whether it
\* was (replayWindow.accept).
WindowExact ==
    /\ ~replay.initialized => \A n \in Sequence : handed[n] = 0
    /\ replay.initialized =>
        /\ replay.latest < nextSequence
        /\ \A n \in Sequence : n > replay.latest => handed[n] = 0
        /\ \A d \in 0 .. BitmapBits - 1 :
              d <= replay.latest => (d \in replay.bitmap <=> handed[replay.latest - d] > 0)

\* A record not seen yet, no older than the replay window and at most half a
\* truncated range ahead, opens when it arrives: it gets its own number
\* (reconstructSequence) and the window lets it in, also next to 0 and next to
\* the end of the sequence space.
NearRecordsOpen ==
    \A n \in Sequence, w \in Windows :
        /\ n < nextSequence
        /\ handed[n] = 0
        /\ replay.initialized => replay.latest < n + ReplaySize
        /\ n <= NextExpected(replay) + w \div 2
        => SequenceOf(n, w) = n /\ Check(replay, n)

\* The connection is ended for failed authentications only after fresh keys
\* were requested, unless at every one of the failures in the margin below the
\* limit they could not be: a KeyUpdate was pending, or the handshake was not
\* over (shouldRequestKeyUpdateForAuthFailures, requestKeyUpdateAfterAuthFailures).
RequestedBeforeLimit == status = "limit" => requested \/ hindered >= Margin
=============================================================================
