----------------------- MODULE SequenceReplay_proofs -----------------------
(***************************************************************************)
(* Proofs about the replay window, for a sequence space and a window of    *)
(* any size, any number of packets and any order of arrival within half    *)
(* the sequence space: it passes every packet once and refuses none that   *)
(* is new and not older than the window.                                   *)
(***************************************************************************)
EXTENDS SequenceReplay, WellFoundedInduction, TLAPS

ReplayInv ==
    /\ TypeOK
    /\ window.initialized => accepted # {}
    /\ WindowMirrorsAccepted

-----------------------------------------------------------------------------
LEMMA WidthFacts ==
  /\ Modulus \in Nat /\ HALF \in Nat /\ Modulus = 2 * HALF
  /\ WindowSize \in Nat /\ 1 <= WindowSize /\ WindowSize <= HALF
  /\ MaxPacket \in Nat /\ 0 \in Packets /\ 0 \in Sequences
  BY WindowAssumption, ReplayAssumption DEF HALF, Packets, Sequences

\* A set of packets has a newest one.
LEMMA NewestExists ==
  ASSUME NEW A, A \subseteq Packets, A # {}
  PROVE  \E n \in A : \A m \in A : m <= n
<1> DEFINE behind == {MaxPacket - n : n \in A}
<1>1. /\ A \subseteq 0 .. MaxPacket /\ MaxPacket \in Nat
  BY WidthFacts DEF Packets
<1>2. behind \subseteq Nat /\ behind # {}
  BY <1>1
<1>3. PICK x \in behind : \A y \in behind : ~(<<y, x>> \in OpToRel(<, Nat))
  <2> HIDE DEF behind
  <2> QED
    BY <1>2, NatLessThanWellFounded, WFMin
<1>4. PICK n \in A : x = MaxPacket - n
  OBVIOUS
<1>5. ASSUME NEW m \in A PROVE m <= n
  <2> DEFINE y == MaxPacket - m
  <2>1. y \in behind /\ y \in Nat /\ x \in Nat
    BY <1>2
  <2>2. ~(y < x)
    BY <1>3, <2>1 DEF OpToRel
  <2> QED
    BY <1>1, <1>4, <2>2
<1> QED
  BY <1>5

LEMMA NewestFacts ==
  ASSUME accepted \subseteq Packets, accepted # {}
  PROVE  Newest \in accepted /\ \A m \in accepted : m <= Newest
<1>1. \E n \in accepted : \A m \in accepted : m <= n
  BY NewestExists
<1> QED
  BY <1>1 DEF Newest

\* The newest packet is the one that bounds all others.
LEMMA NewestIs ==
  ASSUME NEW A, A \subseteq Packets, NEW n \in A, \A m \in A : m <= n
  PROVE  (CHOOSE x \in A : \A m \in A : m <= x) = n
<1> DEFINE x == CHOOSE x \in A : \A m \in A : m <= x
<1>1. x \in A /\ \A m \in A : m <= x
  OBVIOUS
<1>2. x <= n /\ n <= x
  BY <1>1
<1> HIDE DEF x
<1>3. x \in Int /\ n \in Int
  BY <1>1 DEF Packets
<1>4. x = n
  BY <1>2, <1>3
<1> QED
  BY <1>4 DEF x

\* Between two packets within half the space, the sequence numbers tell how
\* far apart they are.
LEMMA DistanceOfPackets ==
  ASSUME NEW n \in Nat, NEW m \in Nat, NEW x \in Int, x = m - n,
         -HALF <= x, x <= HALF
  PROVE  Distance(n % Modulus, m % Modulus) = IF x >= 0 THEN x ELSE x + Modulus
<1>1. /\ Modulus \in Nat /\ Modulus >= 2 /\ HALF \in Nat /\ Modulus = 2 * HALF
  BY WidthFacts
<1> DEFINE M == Modulus
           r == n % M
           s == m % M
           q == n \div M
           u == m \div M
           k == u - q
<1>2. /\ n = M * q + r /\ q \in Int /\ r \in 0 .. M - 1
      /\ m = M * u + s /\ u \in Int /\ s \in 0 .. M - 1
  <2>1. M \in Int /\ M > 0 /\ n \in Int /\ m \in Int
    BY <1>1
  <2> HIDE DEF M
  <2>2. n = M * (n \div M) + (n % M)
    BY <2>1
  <2>3. m = M * (m \div M) + (m % M)
    BY <2>1
  <2>4. n \div M \in Int /\ m \div M \in Int
    BY <2>1
  <2>5. n % M \in 0 .. M - 1 /\ m % M \in 0 .. M - 1
    BY <2>1
  <2> QED
    BY <2>2, <2>3, <2>4, <2>5
<1> HIDE DEF r, s, q, u
<1>3. k \in Int /\ s - r = x - M * k
  <2>1. M * k = M * u - M * q /\ M * u \in Int /\ M * q \in Int
    BY <1>1, <1>2
  <2>2. s = m - M * u /\ r = n - M * q
    BY <1>1, <1>2, <2>1
  <2> QED
    BY <1>2, <2>1, <2>2
<1> HIDE DEF k
<1>4. k \in {-1, 0, 1}
  <2>1. k >= 2 => M * k >= 2 * M
    BY <1>1, <1>3
  <2>2. k <= -2 => M * k <= -2 * M
    BY <1>1, <1>3
  <2>3. /\ x - M * k <= M - 1
        /\ x - M * k >= 1 - M
    BY <1>1, <1>2, <1>3
  <2>4. M * k \in Int
    BY <1>1, <1>3
  <2> DEFINE p == M * k
  <2>5. p \in Int /\ (k >= 2 => p >= 2 * M) /\ (k <= -2 => p <= -2 * M)
        /\ x - p <= M - 1 /\ x - p >= 1 - M
    BY <2>1, <2>2, <2>3, <2>4
  <2> HIDE DEF p
  <2> QED
    BY <2>5, <1>1, <1>3
<1>5. s - r = x \/ s - r = x - M \/ s - r = x + M
  BY <1>1, <1>3, <1>4
<1>6. s - r \in 1 - M .. M - 1
  BY <1>1, <1>2
<1>7. (s - r) % M = IF s - r >= 0 THEN s - r ELSE s - r + M
  <2> DEFINE d == s - r
  <2>1. d \in 1 - M .. M - 1
    BY <1>6
  <2> HIDE DEF d
  <2>2. d % M = IF d >= 0 THEN d ELSE d + M
    <3>1. CASE d >= 0
      BY <3>1, <2>1, <1>1
    <3>2. CASE d < 0
      BY <3>2, <2>1, <1>1
    <3> QED
      BY <3>1, <3>2, <2>1
  <2> QED
    BY <2>2 DEF d
<1>8. Distance(r, s) = (s - r) % M
  BY DEF Distance
<1>9. Distance(r, s) = IF x >= 0 THEN x ELSE x + M
  BY <1>1, <1>5, <1>6, <1>7, <1>8
<1> QED
  BY <1>9 DEF r, s

-----------------------------------------------------------------------------
\* What the window says of a packet in reach, told by the packet numbers.
LEMMA Verdicts ==
  ASSUME ReplayInv, accepted # {}, NEW n \in Packets, InReach(n)
  PROVE  LET seq == n % Modulus
             status == WindowStatus(window, seq)
         IN  /\ Newest \in accepted /\ (\A m \in accepted : m <= Newest)
             /\ Newest \in Packets
             /\ n = Newest => status = "DUPLICATE"
             /\ n > Newest => /\ status = "OK"
                              /\ Distance(window.newest, seq) = n - Newest
                              /\ n - Newest < HALF
             /\ n < Newest /\ Newest - n >= WindowSize => status = "STALE"
             /\ n < Newest /\ Newest - n < WindowSize =>
                  /\ status = IF n \in accepted THEN "DUPLICATE" ELSE "OK"
                  /\ Distance(window.newest, seq) >= HALF
                  /\ Distance(seq, window.newest) = Newest - n
<1> DEFINE seq == n % Modulus
           N == Newest
           forward == Distance(window.newest, seq)
           age == Distance(seq, window.newest)
<1>1. /\ N \in accepted /\ (\A m \in accepted : m <= N)
      /\ N \in Packets /\ N \in Nat /\ n \in Nat
  <2>1. accepted \subseteq Packets
    BY DEF ReplayInv, TypeOK
  <2>2. N \in accepted /\ \A m \in accepted : m <= N
    BY <2>1, NewestFacts
  <2> HIDE DEF N
  <2> QED
    BY <2>1, <2>2, WidthFacts DEF Packets
<1>2. /\ window.initialized /\ window.newest = N % Modulus
      /\ window.seen = {N - m : m \in {m \in accepted : N - m < WindowSize}}
  BY DEF ReplayInv, WindowMirrorsAccepted
<1>3. n - N < HALF /\ N - n <= HALF
  BY DEF InReach
<1>4. accepted \subseteq Nat
  BY DEF ReplayInv, TypeOK, Packets
<1> HIDE DEF N
<1>5. forward = IF n - N >= 0 THEN n - N ELSE n - N + Modulus
  <2>1. n - N \in Int /\ -HALF <= n - N /\ n - N <= HALF
    BY <1>1, <1>3, WidthFacts
  <2> QED
    BY <1>1, <1>2, <2>1, DistanceOfPackets
<1>6. age = IF N - n >= 0 THEN N - n ELSE N - n + Modulus
  <2>1. N - n \in Int /\ -HALF <= N - n /\ N - n <= HALF
    BY <1>1, <1>3, WidthFacts
  <2> QED
    BY <1>1, <1>2, <2>1, DistanceOfPackets
<1>7. N - n < WindowSize => (N - n \in window.seen <=> n \in accepted)
  <2> SUFFICES ASSUME N - n < WindowSize
               PROVE  N - n \in window.seen <=> n \in accepted
    OBVIOUS
  <2>1. n \in accepted => N - n \in window.seen
    BY <1>2
  <2>2. ASSUME N - n \in window.seen PROVE n \in accepted
    <3>1. PICK m \in accepted : N - n = N - m
      BY <1>2, <2>2
    <3>2. m = n
      BY <1>1, <1>4, <3>1
    <3> QED
      BY <3>2
  <2> QED
    BY <2>1, <2>2
<1> HIDE DEF seq
<1>8. CASE n = N
  <2>1. forward = 0
    BY <1>1, <1>5, <1>8
  <2>2. WindowStatus(window, seq) = "DUPLICATE"
    BY <1>2, <2>1, WidthFacts DEF WindowStatus
  <2> QED
    BY <1>1, <1>8, <2>2 DEF N, seq
<1>9. CASE n > N
  <2>1. forward = n - N /\ forward \in 1 .. HALF - 1
    BY <1>1, <1>3, <1>5, <1>9, WidthFacts
  <2>2. forward # 0 /\ ~(forward >= HALF)
    BY <2>1, WidthFacts
  <2>3. WindowStatus(window, seq) = "OK"
    <3> HIDE DEF forward
    <3> QED
      BY <1>2, <2>1, <2>2 DEF WindowStatus, forward
  <2>4. ~(n = N) /\ ~(n < N)
    BY <1>1, <1>9
  <2> QED
    BY <1>1, <1>3, <2>1, <2>3, <2>4 DEF N, seq
<1>10. CASE n < N
  <2>1. forward = n - N + Modulus /\ age = N - n
    BY <1>1, <1>5, <1>6, <1>10
  <2>2. forward >= HALF /\ forward # 0 /\ forward \notin 1 .. HALF - 1
    BY <1>1, <1>3, <2>1, WidthFacts
  <2>3. ~(n = N) /\ ~(n > N)
    BY <1>1, <1>10
  <2> HIDE DEF forward, age
  <2>4. CASE N - n >= WindowSize
    <3>1. ~(N - n < WindowSize)
      BY <2>4, <1>1, WidthFacts
    <3>2. WindowStatus(window, seq) = "STALE"
      BY <1>2, <2>1, <2>2, <2>4, <3>1 DEF WindowStatus, forward, age
    <3> QED
      BY <1>1, <2>3, <3>1, <3>2 DEF N, seq
  <2>5. CASE N - n < WindowSize
    <3>1. ~(N - n >= WindowSize)
      BY <2>5, <1>1, WidthFacts
    <3>2. age < WindowSize /\ ~(age >= WindowSize) /\ (age \in window.seen <=> n \in accepted)
      BY <1>7, <2>1, <2>5, <3>1
    <3>3. WindowStatus(window, seq) = IF n \in accepted THEN "DUPLICATE" ELSE "OK"
      <4>1. CASE n \in accepted
        BY <1>2, <2>2, <3>2, <4>1 DEF WindowStatus, forward, age
      <4>2. CASE n \notin accepted
        BY <1>2, <2>2, <3>2, <4>2 DEF WindowStatus, forward, age
      <4> QED
        BY <4>1, <4>2
    <3> QED
      BY <1>1, <2>1, <2>2, <2>3, <3>1, <3>3 DEF N, seq, forward, age
  <2> QED
    BY <1>1, <2>4, <2>5, WidthFacts
<1> QED
  BY <1>1, <1>8, <1>9, <1>10

LEMMA InitReplay == Init => ReplayInv
<1> SUFFICES ASSUME Init PROVE ReplayInv
  OBVIOUS
<1>1. window \in Window /\ ~window.initialized
  BY WidthFacts DEF Init, Window, window_reset
<1> QED
  BY <1>1, WidthFacts DEF Init, ReplayInv, TypeOK, WindowMirrorsAccepted

\* A packet starts the window.
LEMMA FirstPacket ==
  ASSUME ReplayInv, accepted = {}, NEW n \in Packets, Accept(n)
  PROVE  ReplayInv' /\ verdict' = [packet |-> n, status |-> "OK"]
<1> DEFINE seq == n % Modulus
<1>1. seq \in Sequences /\ n \in Nat
  BY WidthFacts DEF Sequences, Packets
<1>2. ~window.initialized
  BY DEF ReplayInv
<1>3. WindowStatus(window, seq) = "OK"
  BY <1>2 DEF WindowStatus
<1>4. WindowAfter(window, seq) = [initialized |-> TRUE, newest |-> seq, seen |-> {0}]
  BY <1>2, <1>3 DEF WindowAfter
<1>5. /\ window' = [initialized |-> TRUE, newest |-> seq, seen |-> {0}]
      /\ accepted' = {n} /\ verdict' = [packet |-> n, status |-> "OK"]
  BY <1>3, <1>4 DEF Accept
<1>6. Newest' = n
  <2>1. \A m \in {n} : m <= n
    BY <1>1
  <2> QED
    BY <1>5, <2>1, NewestIs DEF Newest
<1>7. {n - m : m \in {m \in {n} : n - m < WindowSize}} = {0}
  BY <1>1, WidthFacts
<1> HIDE DEF seq
<1>8. window' \in Window
  BY <1>1, <1>5, WidthFacts DEF Window
<1>9. WindowMirrorsAccepted'
  BY <1>5, <1>6, <1>7 DEF WindowMirrorsAccepted, seq
<1> QED
  BY <1>5, <1>8, <1>9 DEF ReplayInv, TypeOK

\* A newer packet moves the window: every bit keeps its packet.
LEMMA NewerPacket ==
  ASSUME ReplayInv, accepted # {}, NEW n \in Packets, Accept(n), n > Newest
  PROVE  ReplayInv' /\ verdict' = [packet |-> n, status |-> "OK"]
<1> DEFINE seq == n % Modulus
           N == Newest
           forward == Distance(window.newest, seq)
<1>1. InReach(n)
  BY DEF Accept
<1>2. /\ N \in accepted /\ (\A m \in accepted : m <= N) /\ N \in Packets
      /\ WindowStatus(window, seq) = "OK"
      /\ forward = n - N /\ n - N < HALF
  BY <1>1, Verdicts
<1>3. seq \in Sequences /\ n \in Nat /\ N \in Nat /\ accepted \subseteq Nat
  BY <1>2, WidthFacts DEF Sequences, Packets, ReplayInv, TypeOK
<1>4. /\ window.initialized /\ window \in Window
      /\ window.seen = {N - m : m \in {m \in accepted : N - m < WindowSize}}
  BY DEF ReplayInv, TypeOK, WindowMirrorsAccepted
<1> DEFINE seen == Shifted(window.seen, forward)
<1>5. WindowAfter(window, seq) = [window EXCEPT !.newest = seq, !.seen = seen]
  <2> HIDE DEF seq
  <2> QED
    BY <1>2, <1>4 DEF WindowAfter
<1>6. /\ window' = [window EXCEPT !.newest = seq, !.seen = seen]
      /\ accepted' = accepted \cup {n} /\ verdict' = [packet |-> n, status |-> "OK"]
  BY <1>2, <1>5 DEF Accept
<1>7. Newest' = n
  <2>1. \A m \in accepted \cup {n} : m <= n
    BY <1>2, <1>3
  <2>2. accepted \cup {n} \subseteq Packets
    BY DEF ReplayInv, TypeOK
  <2> QED
    BY <1>6, <2>1, <2>2, NewestIs DEF Newest
<1>8. seen = {n - m : m \in {m \in accepted \cup {n} : n - m < WindowSize}}
  <2> DEFINE want == {n - m : m \in {m \in accepted \cup {n} : n - m < WindowSize}}
  <2>1. seen = {0} \cup {age + (n - N) : age \in {a \in window.seen : a + (n - N) < WindowSize}}
    BY <1>2 DEF Shifted
  <2> HIDE DEF seen, N, seq, forward
  <2>2. ASSUME NEW a \in seen PROVE a \in want
    <3>1. CASE a = 0
      <4>1. n \in accepted \cup {n} /\ n - n = 0 /\ n - n < WindowSize
        BY <1>3, WidthFacts
      <4> QED
        BY <3>1, <4>1
    <3>2. CASE a # 0
      <4>1. PICK b \in window.seen : b + (n - N) < WindowSize /\ a = b + (n - N)
        BY <2>1, <2>2, <3>2
      <4>2. PICK m \in accepted : b = N - m
        BY <1>4
      <4>3. a = n - m /\ n - m < WindowSize
        BY <4>1, <4>2, <1>3
      <4> QED
        BY <4>3
    <3> QED
      BY <3>1, <3>2
  <2>3. ASSUME NEW a \in want PROVE a \in seen
    <3>1. PICK m \in accepted \cup {n} : n - m < WindowSize /\ a = n - m
      OBVIOUS
    <3>2. CASE m = n
      BY <1>3, <2>1, <3>1, <3>2
    <3>3. CASE m \in accepted
      <4>1. N - m < WindowSize
        BY <1>3, <3>1, <3>3, WidthFacts DEF N
      <4>2. N - m \in window.seen
        BY <1>4, <3>3, <4>1
      <4>3. (N - m) + (n - N) = n - m
        BY <1>3, <3>3
      <4> QED
        BY <2>1, <3>1, <4>2, <4>3
    <3> QED
      BY <3>1, <3>2, <3>3
  <2> QED
    BY <2>2, <2>3
<1>9. seen \in SUBSET (0 .. WindowSize - 1)
  <2>1. \A m \in accepted \cup {n} : n - m < WindowSize => n - m \in 0 .. WindowSize - 1
    BY <1>2, <1>3, WidthFacts
  <2> QED
    BY <1>8, <2>1
<1> HIDE DEF seen, seq
<1>10. window' \in Window /\ window'.initialized /\ window'.newest = seq /\ window'.seen = seen
  BY <1>3, <1>4, <1>6, <1>9 DEF Window
<1>11. WindowMirrorsAccepted'
  BY <1>6, <1>7, <1>8, <1>10 DEF WindowMirrorsAccepted, seq
<1> QED
  BY <1>6, <1>10, <1>11 DEF ReplayInv, TypeOK

\* A late packet within the window is passed once: its bit is set.
LEMMA LatePacket ==
  ASSUME ReplayInv, accepted # {}, NEW n \in Packets, Accept(n), n < Newest,
         Newest - n < WindowSize, n \notin accepted
  PROVE  ReplayInv' /\ verdict' = [packet |-> n, status |-> "OK"]
<1> DEFINE seq == n % Modulus
           N == Newest
           forward == Distance(window.newest, seq)
           age == Distance(seq, window.newest)
<1>1. InReach(n)
  BY DEF Accept
<1>2. /\ N \in accepted /\ (\A m \in accepted : m <= N) /\ N \in Packets
      /\ WindowStatus(window, seq) = "OK"
      /\ forward >= HALF /\ age = N - n
  BY <1>1, Verdicts
<1>3. n \in Nat /\ N \in Nat /\ accepted \subseteq Nat
  BY <1>2, WidthFacts DEF Packets, ReplayInv, TypeOK
<1>4. /\ window.initialized /\ window \in Window /\ window.newest = N % Modulus
      /\ window.seen = {N - m : m \in {m \in accepted : N - m < WindowSize}}
  BY DEF ReplayInv, TypeOK, WindowMirrorsAccepted
<1> DEFINE seen == window.seen \cup {N - n}
<1>5. WindowAfter(window, seq) = [window EXCEPT !.seen = seen]
  <2>1. ~(forward < HALF)
    <3>1. forward \in Int
      <4>1. window.newest \in Int /\ seq \in Int /\ Modulus \in Nat /\ Modulus > 0
        BY <1>3, <1>4, WidthFacts
      <4> QED
        BY <4>1 DEF Distance
    <3> HIDE DEF forward
    <3> QED
      BY <1>2, <3>1, WidthFacts
  <2> HIDE DEF seq
  <2> QED
    BY <1>2, <1>4, <2>1 DEF WindowAfter
<1>6. /\ window' = [window EXCEPT !.seen = seen]
      /\ accepted' = accepted \cup {n} /\ verdict' = [packet |-> n, status |-> "OK"]
  BY <1>2, <1>5 DEF Accept
<1>7. Newest' = N
  <2>1. \A m \in accepted \cup {n} : m <= N
    BY <1>2, <1>3
  <2>2. accepted \cup {n} \subseteq Packets
    BY DEF ReplayInv, TypeOK
  <2>3. N \in accepted \cup {n}
    BY <1>2
  <2> HIDE DEF N
  <2> QED
    BY <1>6, <2>1, <2>2, <2>3, NewestIs DEF Newest
<1> HIDE DEF N
<1>8. seen = {N - m : m \in {m \in accepted \cup {n} : N - m < WindowSize}}
  BY <1>4 DEF N
<1>9. seen \in SUBSET (0 .. WindowSize - 1)
  <2>1. \A m \in accepted \cup {n} : N - m < WindowSize => N - m \in 0 .. WindowSize - 1
    BY <1>2, <1>3, WidthFacts DEF N
  <2> QED
    BY <1>8, <2>1
<1> HIDE DEF seen
<1>10. window' \in Window /\ window'.initialized /\ window'.newest = N % Modulus
       /\ window'.seen = seen
  BY <1>4, <1>6, <1>9 DEF Window
<1>11. WindowMirrorsAccepted'
  BY <1>6, <1>7, <1>8, <1>10 DEF WindowMirrorsAccepted
<1> QED
  BY <1>6, <1>10, <1>11 DEF ReplayInv, TypeOK

\* Any other packet is refused and changes nothing.
LEMMA RefusedPacket ==
  ASSUME ReplayInv, NEW n \in Packets, Accept(n),
         WindowStatus(window, n % Modulus) \in {"DUPLICATE", "STALE"}
  PROVE  /\ ReplayInv'
         /\ verdict' = [packet |-> n, status |-> WindowStatus(window, n % Modulus)]
<1>1. /\ window' = window /\ accepted' = accepted
      /\ verdict' = [packet |-> n, status |-> WindowStatus(window, n % Modulus)]
  BY DEF Accept, WindowAfter
<1>2. WindowMirrorsAccepted' /\ (window.initialized => accepted # {})'
  BY <1>1 DEF ReplayInv, WindowMirrorsAccepted, Newest
<1> QED
  BY <1>1, <1>2 DEF ReplayInv, TypeOK

\* The filter as a relation between a packet and its verdict.
Exact(n, status) ==
    /\ n \in accepted /\ Newest - n < WindowSize => status = "DUPLICATE"
    /\ n \in accepted => status # "OK"
    /\ n \notin accepted /\ accepted # {} /\ Newest - n < WindowSize => status = "OK"

LEMMA AcceptReplay ==
  ASSUME ReplayInv, NEW n \in Packets, Accept(n)
  PROVE  ReplayInv' /\ verdict'.packet = n /\ Exact(n, verdict'.status)
<1>1. CASE accepted = {}
  BY <1>1, FirstPacket DEF Exact
<1>2. CASE accepted # {}
  <2> DEFINE status == WindowStatus(window, n % Modulus)
  <2>1. InReach(n)
    BY DEF Accept
  <2>2. Newest \in accepted /\ Newest \in Nat /\ n \in Nat
        /\ \A m \in accepted : m <= Newest
    BY <1>2, <2>1, Verdicts, WidthFacts DEF Packets
  <2>3. CASE n > Newest
    <3>1. n \notin accepted
      BY <2>2, <2>3
    <3> QED
      BY <1>2, <2>3, <3>1, NewerPacket DEF Exact
  <2>4. CASE n = Newest
    <3>1. status = "DUPLICATE"
      BY <1>2, <2>1, <2>4, Verdicts
    <3> QED
      BY <2>2, <2>4, <3>1, RefusedPacket DEF Exact
  <2>5. CASE n < Newest /\ Newest - n >= WindowSize
    <3>1. status = "STALE" /\ ~(Newest - n < WindowSize)
      BY <1>2, <2>1, <2>2, <2>5, Verdicts, WidthFacts
    <3> QED
      BY <3>1, RefusedPacket DEF Exact
  <2>6. CASE n < Newest /\ Newest - n < WindowSize /\ n \in accepted
    <3>1. status = "DUPLICATE"
      BY <1>2, <2>1, <2>6, Verdicts
    <3> QED
      BY <2>6, <3>1, RefusedPacket DEF Exact
  <2>7. CASE n < Newest /\ Newest - n < WindowSize /\ n \notin accepted
    BY <1>2, <2>7, LatePacket DEF Exact
  <2>8. n > Newest \/ n = Newest \/ n < Newest
    BY <2>2
  <2>9. Newest - n >= WindowSize \/ Newest - n < WindowSize
    BY <2>2, WidthFacts
  <2> QED
    BY <2>3, <2>4, <2>5, <2>6, <2>7, <2>8, <2>9
<1> QED
  BY <1>1, <1>2

LEMMA NextReplay == ReplayInv /\ [Next]_vars => ReplayInv'
<1> SUFFICES ASSUME ReplayInv, [Next]_vars PROVE ReplayInv'
  OBVIOUS
<1>1. CASE Next
  BY <1>1, AcceptReplay DEF Next
<1>2. CASE UNCHANGED vars
  BY <1>2, ZenonT(30) DEF vars, ReplayInv, TypeOK, WindowMirrorsAccepted, Newest
<1> QED
  BY <1>1, <1>2

-----------------------------------------------------------------------------
\* The window is the set of accepted packets seen through the sequence
\* numbers: the shifts of canview_sequence_window_accept lose no bit and
\* invent none, and never leave the width of the window.
THEOREM WindowIsExact == Spec => [](TypeOK /\ WindowMirrorsAccepted)
<1>1. ReplayInv => TypeOK /\ WindowMirrorsAccepted
  BY DEF ReplayInv
<1> QED
  BY <1>1, InitReplay, NextReplay, PTL DEF Spec

\* No packet is passed twice, and none is refused that is new and not older
\* than the window, in whatever order packets arrive and however often the
\* sequence numbers wrap.
THEOREM ReplayFilterIsExact == Spec => FilterIsExact
<1>1. ReplayInv /\ [Next]_vars =>
        [LET n == verdict'.packet
         IN  /\ n \in accepted /\ Newest - n < WindowSize
                   => verdict'.status = "DUPLICATE"
             /\ n \in accepted => verdict'.status # "OK"
             /\ n \notin accepted /\ accepted # {} /\ Newest - n < WindowSize
                   => verdict'.status = "OK"]_vars
  <2> SUFFICES ASSUME ReplayInv, Next
               PROVE  Exact(verdict'.packet, verdict'.status)
    BY DEF Exact
  <2>1. PICK n \in Packets : Accept(n)
    BY DEF Next
  <2> QED
    BY <2>1, AcceptReplay
<1> QED
  BY <1>1, InitReplay, NextReplay, PTL DEF Spec, FilterIsExact
=============================================================================
