------------------------- MODULE RecordCipherProofs -------------------------
(***************************************************************************)
(* What RecordCipher promises, for every value of its constants.           *)
(***************************************************************************)
EXTENDS RecordCipher, TLAPS

(***************************************************************************)
(* replayWindow.                                                           *)
(***************************************************************************)

\* accept keeps the window well formed.
LEMMA AcceptType ==
    ASSUME NEW w \in ReplayWindow, NEW n \in Nat
    PROVE  Accept(w, n) \in ReplayWindow
<1>1. 0 \in 0 .. BitmapBits - 1 BY SizesAssumption
<1>2. CASE ~w.initialized BY <1>1, <1>2 DEF Accept, ReplayWindow
<1>3. CASE w.initialized /\ n > w.latest
  BY Zenon, <1>1, <1>3 DEF Accept, ReplayWindow, Shift
<1>4. CASE w.initialized /\ ~(n > w.latest)
  BY Zenon, <1>4 DEF Accept, ReplayWindow
<1> QED BY Zenon, <1>2, <1>3, <1>4

(***************************************************************************)
(* reconstructSequence.                                                    *)
(***************************************************************************)

\* Two multiples of w less than 2w apart differ by -w, 0 or w.
LEMMA MultiplesApart ==
    ASSUME NEW w \in Nat \ {0}, NEW a \in Int, NEW b \in Int,
           w * a - w * b < 2 * w, w * b - w * a < 2 * w
    PROVE  w * a - w * b \in {-w, 0, w}
<1>1. w * a - w * b = w * (a - b) OBVIOUS
<1>2. a - b < 2
  <2>1. SUFFICES ASSUME a - b >= 2 PROVE FALSE OBVIOUS
  <2>2. w * (a - b) >= w * 2 BY <2>1
  <2> QED BY <1>1, <2>2
<1>3. b - a < 2
  <2>1. SUFFICES ASSUME b - a >= 2 PROVE FALSE OBVIOUS
  <2>2. w * (b - a) >= w * 2 BY <2>1
  <2>3. w * (b - a) = w * b - w * a OBVIOUS
  <2> QED BY <2>2, <2>3
<1>4. a - b = -1 \/ a - b = 0 \/ a - b = 1 BY <1>2, <1>3
<1> QED BY <1>1, <1>4

\* A number less than half a range behind the expected one, or at most half a
\* range ahead of it, is rebuilt exactly from its low bits.
LEMMA ReconstructNear ==
    ASSUME NEW w \in Nat \ {0}, NEW expected \in Nat, NEW n \in Sequence,
           expected < n + w \div 2, n <= expected + w \div 2
    PROVE  Reconstruct(expected, n % w, w) = n
<1> DEFINE q == expected \div w
           r == expected % w
           qn == n \div w
           rn == n % w
           half == w \div 2
           candidate == (expected - r) + rn
<1>0. n \in Nat /\ n < SequenceLimit /\ SequenceLimit \in Int
  BY SizesAssumption DEF Sequence
<1>1. q \in Int /\ r \in Int /\ expected = w * q + r /\ 0 <= r /\ r < w
  OBVIOUS
<1>2. qn \in Int /\ rn \in Int /\ n = w * qn + rn /\ 0 <= rn /\ rn < w
  BY <1>0
<1>3. half \in Nat /\ 2 * half <= w /\ w <= 2 * half + 1 OBVIOUS
<1>4. candidate - n = w * q - w * qn BY <1>1, <1>2
<1>5. candidate - n \in {-w, 0, w}
  <2>1. w * q - w * qn < 2 * w /\ w * qn - w * q < 2 * w
    BY <1>1, <1>2, <1>3
  <2> QED BY Zenon, <1>1, <1>2, <1>4, <2>1, MultiplesApart
<1>6. candidate \in Int BY <1>1, <1>2
<1>7. Reconstruct(expected, rn, w) =
        IF candidate + half <= expected /\ candidate + w < SequenceLimit
        THEN candidate + w
        ELSE IF candidate > expected + half /\ candidate >= w
        THEN candidate - w
        ELSE candidate
  BY Zenon DEF Reconstruct
<1> HIDE DEF q, r, qn, rn, half, candidate
<1>8. expected < n + half /\ n <= expected + half BY DEF half
<1> QED
  <2>1. CASE candidate = n BY <1>0, <1>3, <1>6, <1>7, <1>8, <2>1 DEF rn
  <2>2. CASE candidate = n - w BY <1>0, <1>3, <1>6, <1>7, <1>8, <2>2 DEF rn
  <2>3. CASE candidate = n + w BY <1>0, <1>3, <1>6, <1>7, <1>8, <2>3 DEF rn
  <2> QED BY <1>0, <1>5, <1>6, <2>1, <2>2, <2>3

(***************************************************************************)
(* Type correctness.                                                       *)
(***************************************************************************)

\* The initial state is well typed.
LEMMA InitType == Init => TypeOK
<1> SUFFICES ASSUME Init PROVE TypeOK OBVIOUS
<1>1. replay \in ReplayWindow BY DEF Init, NewReplayWindow, ReplayWindow
<1>2. handed \in [Sequence -> Nat] BY DEF Init
<1>3. /\ requested \in BOOLEAN /\ canRequest \in BOOLEAN
      /\ status \in {"open", "limit", "request"}
  BY Zenon DEF Init
<1>4. 0 <= SequenceLimit /\ 0 <= RecordLimit BY SizesAssumption
<1> QED BY Zenon, <1>1, <1>2, <1>3, <1>4 DEF Init, TypeOK

\* A dropped record changes only what a request changes, within its type.
LEMMA DropType ==
    ASSUME TypeOK, NEW failures, Drop(failures)
    PROVE  /\ UNCHANGED <<nextSequence, replay, handed>>
           /\ requested' \in BOOLEAN /\ canRequest' \in BOOLEAN
           /\ status' \in {"open", "limit", "request"}
BY Zenon DEF TypeOK, Drop, RequestKeyUpdate

\* No step seals past a limit or leaves a variable out of its type.
THEOREM TypeCorrect == Spec => []TypeOK
<1>1. Init => TypeOK BY InitType
<1>2. TypeOK /\ [Next]_vars => TypeOK'
  <2> SUFFICES ASSUME TypeOK, [Next]_vars PROVE TypeOK' OBVIOUS
  <2> USE DEF TypeOK
  <2>1. CASE Seal BY <2>1, SizesAssumption DEF Seal, CanSeal
  <2>2. ASSUME NEW n \in Sequence, NEW w \in Windows, Open(n, w) PROVE TypeOK'
    <3>1. n \in Nat BY SizesAssumption DEF Sequence
    <3>2. replay' \in ReplayWindow BY <2>2, <3>1, AcceptType DEF Open
    <3>3. handed' \in [Sequence -> Nat] BY <2>2 DEF Open
    <3> QED BY Zenon, <2>2, <3>2, <3>3 DEF Open
  <2>3. ASSUME NEW n \in Sequence, NEW w \in Windows,
               OpenDuplicateOrStale(n, w) \/ OpenOutOfRange(n, w)
        PROVE  TypeOK'
    <3>1. Drop(authFailures) /\ UNCHANGED <<authFailures, hindered, damaged>>
      BY <2>3, Zenon DEF OpenDuplicateOrStale, OpenOutOfRange
    <3> QED BY Zenon, <3>1, DropType
  <2>4. ASSUME AuthenticationFails, damaged' \in Nat PROVE TypeOK'
    <3>1. /\ UNCHANGED <<nextSequence, replay, handed>>
          /\ requested' \in BOOLEAN /\ canRequest' \in BOOLEAN
          /\ status' \in {"open", "limit", "request"}
      BY <2>4, DropType, Zenon DEF AuthenticationFails
    <3>2. authFailures' \in Nat BY <2>4 DEF AuthenticationFails
    <3>3. hindered' \in Nat
      <4>1. hindered' = hindered \/ hindered' = hindered + 1
        BY Zenon, <2>4 DEF AuthenticationFails
      <4> QED BY <4>1
    <3> QED BY Zenon, <2>4, <3>1, <3>2, <3>3
  <2>5. ASSUME NEW n \in Sequence, NEW w \in Windows, OpenMisnumbered(n, w)
        PROVE  TypeOK'
    BY Zenon, <2>4, <2>5 DEF OpenMisnumbered
  <2>6. CASE OpenDamaged BY <2>4, <2>6 DEF OpenDamaged
  <2>7. ASSUME NEW can \in BOOLEAN, RequestBecomes(can) PROVE TypeOK'
    BY Zenon, <2>7 DEF RequestBecomes
  <2>8. CASE UNCHANGED vars BY <2>8 DEF vars
  <2> QED BY Zenon, <2>1, <2>2, <2>3, <2>5, <2>6, <2>7, <2>8 DEF Next
<1> QED BY <1>1, <1>2, PTL DEF Spec

(***************************************************************************)
(* The replay window.                                                      *)
(***************************************************************************)

\* WindowExact is what makes AtMostOnce inductive: a number check lets in is
\* beyond latest, or its bit is clear, and so it was not handed over.
WindowInv == TypeOK /\ WindowExact /\ AtMostOnce

\* A number that passes check was not handed over before.
LEMMA CheckedIsFresh ==
    ASSUME WindowInv, NEW n \in Sequence, Check(replay, n)
    PROVE  handed[n] = 0
<1> USE SizesAssumption DEF WindowInv, TypeOK, WindowExact, ReplayWindow, Sequence
<1>1. CASE ~replay.initialized BY <1>1
<1>2. CASE replay.initialized /\ n > replay.latest BY <1>2
<1>3. CASE replay.initialized /\ ~(n > replay.latest)
  <2> DEFINE d == replay.latest - n
  <2>1. d \in 0 .. BitmapBits - 1 /\ d <= replay.latest /\ d \notin replay.bitmap
    BY SMTT(30), <1>3 DEF Check
  <2>2. replay.latest - d = n OBVIOUS
  <2>3. ~(handed[replay.latest - d] > 0) BY <1>3, <2>1
  <2> QED BY <2>2, <2>3
<1> QED BY Zenon, <1>1, <1>2, <1>3

\* accept records n in the bitmap and keeps the rest of it exact.
LEMMA OpenKeepsWindow ==
    ASSUME WindowInv, NEW n \in Sequence, Check(replay, n), n < nextSequence,
           nextSequence' = nextSequence, replay' = Accept(replay, n), handed' = [handed EXCEPT ![n] = @ + 1]
    PROVE  WindowExact' /\ AtMostOnce'
<1> USE SizesAssumption DEF Sequence
<1>1. /\ n \in Nat /\ n < SequenceLimit
      /\ replay \in ReplayWindow /\ handed \in [Sequence -> Nat]
  BY DEF WindowInv, TypeOK
<1>2. /\ handed' \in [Sequence -> Nat]
      /\ handed'[n] = 1
      /\ \A m \in Sequence : m # n => handed'[m] = handed[m]
  BY <1>1, CheckedIsFresh
<1>3. AtMostOnce' BY <1>2 DEF WindowInv, AtMostOnce
<1>4. WindowExact'
  <2>1. CASE ~replay.initialized
    <3>1. replay'.initialized /\ replay'.latest = n /\ replay'.bitmap = {0}
      BY Zenon, <2>1 DEF Accept
    <3>2. \A m \in Sequence : handed[m] = 0 BY <2>1 DEF WindowInv, WindowExact
    <3> QED BY <1>1, <1>2, <3>1, <3>2 DEF WindowExact
  <2>2. CASE replay.initialized /\ n > replay.latest
    <3> DEFINE delta == n - replay.latest
    <3>1. /\ replay'.initialized /\ replay'.latest = n
          /\ replay'.bitmap = Shift(replay.bitmap, delta) \cup {0}
      BY Zenon, <2>2 DEF Accept
    <3>2. \A m \in Sequence : m > n => handed'[m] = 0
      BY <1>1, <1>2, <2>2 DEF WindowInv, WindowExact, ReplayWindow
    <3>3. ASSUME NEW d \in 0 .. BitmapBits - 1, d <= n
          PROVE  d \in replay'.bitmap <=> handed'[n - d] > 0
      <4>1. CASE d = 0
        <5>1. d \in replay'.bitmap BY <3>1, <4>1
        <5>2. n - d = n BY <1>1, <4>1
        <5> QED BY <1>2, <5>1, <5>2
      <4>2. CASE d # 0 /\ d < delta
        <5>1. d \notin replay'.bitmap
          BY SMTT(30), <1>1, <3>1, <4>2 DEF Shift, ReplayWindow
        <5>2. n - d \in Sequence /\ n - d > replay.latest /\ n - d # n
          BY <1>1, <4>2 DEF ReplayWindow
        <5>3. handed'[n - d] = 0
          BY ZenonT(30), <1>2, <2>2, <5>2 DEF WindowInv, WindowExact
        <5> QED BY <5>1, <5>3
      <4>3. CASE d # 0 /\ d >= delta
        <5> DEFINE e == d - delta
        <5>a. replay.latest \in Nat /\ d \in Nat /\ d < BitmapBits /\ BitmapBits \in Nat
          BY <1>1 DEF ReplayWindow
        <5>g. n \in Nat /\ n > replay.latest /\ n - replay.latest <= d
          BY Zenon, <1>1, <2>2, <4>3
        <5>b. delta \in Nat /\ delta > 0 /\ delta <= d
          BY <5>a, <5>g
        <5>c. e \in Nat /\ e < BitmapBits BY <5>a, <5>b
        <5>d. e <= replay.latest BY SMTT(30), <1>1, <3>3, <5>a, <5>b
        <5>e. replay.latest - e = n - d BY SMTT(30), <1>1, <5>a
        <5>f. n - d \in Nat /\ n - d < SequenceLimit /\ n - d # n
          BY <1>1, <3>3, <4>3, <5>a
        <5>1. /\ e \in 0 .. BitmapBits - 1 /\ e <= replay.latest
              /\ replay.latest - e = n - d /\ n - d \in Sequence /\ n - d # n
          BY <5>a, <5>c, <5>d, <5>e, <5>f
        <5>2. d \in replay'.bitmap <=> e \in replay.bitmap
          BY Zenon, <3>1, <4>3 DEF Shift
        <5>3. e \in replay.bitmap <=> handed[replay.latest - e] > 0
          BY Zenon, <2>2, <5>1 DEF WindowInv, WindowExact
        <5> QED BY Zenon, <1>2, <5>1, <5>2, <5>3
      <4> QED BY <1>1, <4>1, <4>2, <4>3 DEF ReplayWindow
    <3> QED BY ZenonT(30), <3>1, <3>2, <3>3 DEF WindowExact
  <2>3. CASE replay.initialized /\ ~(n > replay.latest)
    <3> DEFINE delta == replay.latest - n
    <3>1. delta \in 0 .. BitmapBits - 1
      BY SMTT(30), <1>1, <2>3 DEF Check, ReplayWindow
    <3>2. /\ replay'.initialized /\ replay'.latest = replay.latest
          /\ replay'.bitmap = replay.bitmap \cup {delta}
      BY Zenon, <2>3, <3>1 DEF Accept
    <3>3. \A m \in Sequence : m > replay.latest => handed'[m] = 0
      BY ZenonT(30), <1>1, <1>2, <2>3 DEF WindowInv, WindowExact, ReplayWindow
    <3>4. ASSUME NEW d \in 0 .. BitmapBits - 1, d <= replay.latest
          PROVE  d \in replay'.bitmap <=> handed'[replay.latest - d] > 0
      <4>1. CASE d = delta BY SMTT(30), <1>1, <1>2, <3>2, <4>1 DEF ReplayWindow
      <4>2. CASE d # delta
        <5>1. d \in replay'.bitmap <=> d \in replay.bitmap BY <3>2, <4>2
        <5>2. d \in replay.bitmap <=> handed[replay.latest - d] > 0
          BY Zenon, <2>3, <3>4 DEF WindowInv, WindowExact
        <5>a. replay.latest \in Nat /\ d \in Nat BY <1>1 DEF ReplayWindow
        <5>b. replay.latest - d # n BY <1>1, <4>2, <5>a
        <5>c. replay.latest < SequenceLimit
          BY SMTT(30), <2>3, <5>a DEF WindowInv, WindowExact, TypeOK
        <5>d. replay.latest - d \in Nat /\ replay.latest - d < SequenceLimit
          BY <3>4, <5>a, <5>c
        <5>3. replay.latest - d # n /\ replay.latest - d \in Sequence
          BY <5>b, <5>d
        <5> QED BY Zenon, <1>2, <5>1, <5>2, <5>3
      <4> QED BY Zenon, <4>1, <4>2
    <3> QED BY Zenon, <2>3, <3>2, <3>3, <3>4 DEF WindowInv, WindowExact
  <2> QED BY Zenon, <2>1, <2>2, <2>3
<1> QED BY Zenon, <1>3, <1>4
\* A step that does not hand a record over keeps what the window says.
LEMMA KeepsWindow ==
    ASSUME WindowInv, replay' = replay, handed' = handed,
           nextSequence' \in Nat, nextSequence' >= nextSequence
    PROVE  WindowExact' /\ AtMostOnce'
BY DEF WindowInv, TypeOK, WindowExact, AtMostOnce, ReplayWindow

\* The inductive invariant of the replay window.
LEMMA WindowHolds == Spec => []WindowInv
<1>1. Init => WindowInv
  <2>1. Init => TypeOK BY InitType
  <2> QED BY <2>1 DEF Init, WindowInv, WindowExact, AtMostOnce, NewReplayWindow
<1>2. TypeOK' /\ WindowInv /\ [Next]_vars => WindowInv'
  <2> SUFFICES ASSUME TypeOK', WindowInv, [Next]_vars
               PROVE  WindowExact' /\ AtMostOnce'
    BY Zenon DEF WindowInv
  <2>1. CASE Seal
    BY <2>1, KeepsWindow, SizesAssumption DEF Seal, WindowInv, TypeOK
  <2>2. ASSUME NEW n \in Sequence, NEW w \in Windows, Open(n, w)
        PROVE  WindowExact' /\ AtMostOnce'
    BY Zenon, <2>2, OpenKeepsWindow DEF Open
  <2>3. ASSUME UNCHANGED <<nextSequence, replay, handed>>
        PROVE  WindowExact' /\ AtMostOnce'
    BY <2>3, KeepsWindow DEF WindowInv, TypeOK
  <2>4. ASSUME NEW n \in Sequence, NEW w \in Windows,
               OpenDuplicateOrStale(n, w) \/ OpenOutOfRange(n, w)
        PROVE  WindowExact' /\ AtMostOnce'
    BY Zenon, <2>3, <2>4 DEF OpenDuplicateOrStale, OpenOutOfRange, Drop
  <2>5. CASE AuthenticationFails
    BY Zenon, <2>3, <2>5 DEF AuthenticationFails, Drop
  <2>6. ASSUME NEW n \in Sequence, NEW w \in Windows, OpenMisnumbered(n, w)
        PROVE  WindowExact' /\ AtMostOnce'
    BY Zenon, <2>5, <2>6 DEF OpenMisnumbered
  <2>7. CASE OpenDamaged BY <2>5, <2>7 DEF OpenDamaged
  <2>8. ASSUME NEW can \in BOOLEAN, RequestBecomes(can)
        PROVE  WindowExact' /\ AtMostOnce'
    BY Zenon, <2>3, <2>8 DEF RequestBecomes
  <2>9. CASE UNCHANGED vars BY <2>3, <2>9 DEF vars
  <2> QED BY Zenon, <2>1, <2>2, <2>4, <2>6, <2>7, <2>8, <2>9 DEF Next
<1> QED BY <1>1, <1>2, TypeCorrect, PTL DEF Spec

\* Every record is handed to its handler at most once, for any window size and
\* any order of arrival.
THEOREM NoReplay == Spec => []AtMostOnce
<1>1. WindowInv => AtMostOnce BY DEF WindowInv
<1> QED BY <1>1, WindowHolds, PTL

\* The bitmap is exact.
THEOREM WindowIsExact == Spec => []WindowExact
<1>1. WindowInv => WindowExact BY DEF WindowInv
<1> QED BY <1>1, WindowHolds, PTL

\* Near records always open: the truncated number and the window never cost a
\* record that is in reach of both.
THEOREM NearRecordsAlwaysOpen == Spec => []NearRecordsOpen
<1>1. WindowInv => NearRecordsOpen
  <2> SUFFICES ASSUME WindowInv, NEW n \in Sequence, NEW w \in Windows,
                      n < nextSequence, handed[n] = 0,
                      replay.initialized => replay.latest < n + ReplaySize,
                      n <= NextExpected(replay) + w \div 2
               PROVE  SequenceOf(n, w) = n /\ Check(replay, n)
    BY Zenon DEF NearRecordsOpen
  <2>1. /\ w \in Nat \ {0} /\ ReplaySize < w \div 2 /\ w \div 2 \in Nat
        /\ ReplaySize \in Nat /\ n \in Nat
    BY WindowsAssumption, SizesAssumption DEF Sequence
  <2>2. replay.initialized \in BOOLEAN /\ replay.latest \in Nat
    BY Zenon DEF WindowInv, TypeOK, ReplayWindow
  <2>3. NextExpected(replay) \in Nat /\ NextExpected(replay) < n + w \div 2
    BY <2>1, <2>2, SizesAssumption DEF NextExpected
  <2>4. SequenceOf(n, w) = n BY <2>1, <2>3, ReconstructNear DEF SequenceOf
  <2>5. Check(replay, n)
    <3>1. CASE replay.initialized /\ ~(n > replay.latest)
      <4> DEFINE d == replay.latest - n
      <4>1. d \in 0 .. BitmapBits - 1 /\ d <= replay.latest /\ d < ReplaySize
        BY <2>1, <2>2, <3>1, SizesAssumption
      <4>2. replay.latest - d = n BY <2>1, <2>2
      <4>3. d \in replay.bitmap <=> handed[replay.latest - d] > 0
        BY Zenon, <3>1, <4>1 DEF WindowInv, WindowExact
      <4> QED BY <4>1, <4>2, <4>3 DEF Check
    <3> QED BY Zenon, <3>1 DEF Check
  <2> QED BY Zenon, <2>4, <2>5
<1> QED BY <1>1, WindowHolds, PTL

(***************************************************************************)
(* Failed authentications.                                                 *)
(***************************************************************************)

\* Every failure in the margin either found a request already made, made one,
\* or is counted as hindered: without a request, all of them are.
RequestInv ==
    /\ RequestedBeforeLimit
    /\ status = "open" =>
         /\ authFailures < AuthFailureLimit
         /\ \/ requested
            \/ hindered >= authFailures - (AuthFailureLimit - Margin) + 1

\* The margin is at least one and less than the limit.
LEMMA MarginBounds == Margin \in 1 .. AuthFailureLimit - 1
<1> USE FailureLimitAssumption
<1> DEFINE quarter == AuthFailureLimit \div 4
           capped == Min({quarter, 1024})
<1>1. quarter \in Nat /\ quarter < AuthFailureLimit OBVIOUS
<1>2. capped = IF quarter <= 1024 THEN quarter ELSE 1024
  BY <1>1 DEF Min
<1>3. Margin = IF capped >= 1 THEN capped ELSE 1
  BY <1>1, <1>2 DEF Margin, Max
<1> QED BY <1>1, <1>2, <1>3

\* The connection is never ended for failed authentications before a KeyUpdate
\* was requested, unless none could be at any failure of the whole margin.
THEOREM RequestComesFirst == Spec => []RequestedBeforeLimit
<1> USE FailureLimitAssumption
<1>1. Init => RequestInv
  <2>1. 0 >= 0 - (AuthFailureLimit - Margin) + 1 BY MarginBounds
  <2> QED BY <2>1 DEF Init, RequestInv, RequestedBeforeLimit
<1>2. TypeOK /\ RequestInv /\ [Next]_vars => RequestInv'
  <2> SUFFICES ASSUME TypeOK, RequestInv, [Next]_vars PROVE RequestInv' OBVIOUS
  <2>2. authFailures \in Nat /\ hindered \in Nat BY DEF TypeOK
  <2>3. ASSUME requested => requested', UNCHANGED <<authFailures, hindered>>,
               status' = status \/ status' = "request"
        PROVE  RequestInv'
    BY Zenon, <2>3 DEF RequestInv, RequestedBeforeLimit
  <2>4. CASE Seal BY <2>3, <2>4 DEF Seal
  <2>5. ASSUME NEW n \in Sequence, NEW w \in Windows,
               \/ Open(n, w) \/ OpenDuplicateOrStale(n, w) \/ OpenOutOfRange(n, w)
        PROVE  RequestInv'
    BY Zenon, <2>3, <2>5
    DEF Open, OpenDuplicateOrStale, OpenOutOfRange, Drop, RequestKeyUpdate
  <2>6. ASSUME status = "open", AuthenticationFails PROVE RequestInv'
    <3>0. authFailures' = authFailures + 1 BY Zenon, <2>6 DEF AuthenticationFails
    <3>1. CASE authFailures' < AuthFailureLimit
      <4>1. Drop(authFailures') BY <2>2, <3>0, <3>1, <2>6 DEF AuthenticationFails
      <4>2. hindered' = IF ShouldRequestKeyUpdate(authFailures') /\ ~canRequest
                        THEN hindered + 1 ELSE hindered
        BY <2>2, <3>0, <3>1, <2>6 DEF AuthenticationFails
      <4>3. status' = "open" \/ status' = "request"
        BY Zenon, <2>6, <4>1 DEF Drop, RequestKeyUpdate
      <4>4. \/ requested' \/ status' = "request"
            \/ hindered' >= authFailures' - (AuthFailureLimit - Margin) + 1
        <5>1. CASE requested
          BY Zenon, <4>1, <5>1 DEF Drop, RequestKeyUpdate
        <5>2. CASE ~requested /\ ~ShouldRequestKeyUpdate(authFailures')
          <6>1. hindered' \in Nat BY <2>2, <4>2, <5>2
          <6> QED BY <2>2, <3>0, <5>2, <6>1, MarginBounds DEF ShouldRequestKeyUpdate
        <5>3. CASE ~requested /\ ShouldRequestKeyUpdate(authFailures') /\ canRequest
          BY Zenon, <4>1, <5>3 DEF Drop, RequestKeyUpdate
        <5>4. CASE ~requested /\ ShouldRequestKeyUpdate(authFailures') /\ ~canRequest
          <6>1. hindered' = hindered + 1 BY Zenon, <4>2, <5>4
          <6>2. hindered >= authFailures - (AuthFailureLimit - Margin) + 1
            BY Zenon, <2>6, <5>4 DEF RequestInv
          <6> QED BY <2>2, <3>0, <6>1, <6>2, MarginBounds
        <5> QED BY Zenon, <5>1, <5>2, <5>3, <5>4
      <4> QED BY Zenon, <3>1, <4>3, <4>4 DEF RequestInv, RequestedBeforeLimit
    <3>2. CASE ~(authFailures' < AuthFailureLimit)
      <4>1. status' = "limit" /\ requested' = requested /\ hindered' = hindered
        BY <2>2, <2>6, <3>0, <3>2 DEF AuthenticationFails
      <4>2. authFailures = AuthFailureLimit - 1
        BY <2>2, <2>6, <3>0, <3>2 DEF RequestInv
      <4>3. requested \/ hindered >= Margin
        BY <2>2, <2>6, <4>2, MarginBounds DEF RequestInv
      <4> QED BY Zenon, <4>1, <4>3 DEF RequestInv, RequestedBeforeLimit
    <3> QED BY Zenon, <3>1, <3>2
  <2>7. ASSUME NEW n \in Sequence, NEW w \in Windows, OpenMisnumbered(n, w)
        PROVE  RequestInv'
    BY Zenon, <2>6, <2>7 DEF OpenMisnumbered
  <2>8. CASE OpenDamaged BY <2>6, <2>8 DEF OpenDamaged
  <2>9. ASSUME NEW can \in BOOLEAN, RequestBecomes(can) PROVE RequestInv'
    BY Zenon, <2>3, <2>9 DEF RequestBecomes
  <2>10. CASE UNCHANGED vars BY <2>3, <2>10 DEF vars
  <2> QED BY Zenon, <2>4, <2>5, <2>7, <2>8, <2>9, <2>10 DEF Next
<1>3. RequestInv => RequestedBeforeLimit BY DEF RequestInv
<1> QED BY <1>1, <1>2, <1>3, TypeCorrect, PTL DEF Spec

=============================================================================
