------------------------- MODULE MarkerLease_proofs -------------------------
(***************************************************************************)
(* That the loop never runs past what it was granted, whatever it reads    *)
(* while lease/ is renamed under it, and that a rotation which fails       *)
(* leaves a lease: for every number of keepers and requests, every lease   *)
(* and every clock.                                                        *)
(***************************************************************************)
EXTENDS MarkerLease, TLAPS

Stamps == 0..(MaxTime + Lease + 1)
Publishing == {"staging", "retired", "placed"}

-----------------------------------------------------------------------------
(* The packet *)

Zeros == <<0, <<0, 0>>>>

\* What a cell holds: a digit, or a digit and a pair of sums.
Cells == Nat \cup (Nat \X (Nat \X Nat))

\* The assumptions that need no multiplication.
LEMMA Constants ==
  /\ Lease \in Nat \ {0} /\ Interval \in Nat \ {0} /\ Slack \in Nat /\ Stall \in Nat \ {0}
  /\ Base \in Nat \ {0} /\ MaxTime \in Nat /\ MaxFailures \in Nat /\ None \notin Keepers
  /\ None \notin Requests /\ None \notin Stamps
  BY LeaseAssumption DEF Stamps

\* The digits of a stamp add up to it again.
LEMMA DigitsAdd ==
  ASSUME NEW s \in Nat
  PROVE  /\ s % Base \in Nat /\ s \div Base \in Nat
         /\ (s % Base) + Base * (s \div Base) = s
  BY Constants

\* The pair of sums tells both digits: a low digit goes with no other packet's rest.
LEMMA OwnRest ==
  ASSUME NEW p, p[1] \in Nat, NEW s \in Nat, p[2] = Packet(s)[2], Intact(p)
  PROVE  Expires(p) = s
<1> DEFINE l == s % Base
           h == s \div Base
<1>1. l \in Nat /\ h \in Nat /\ l + Base * h = s
  BY DigitsAdd
<1>2. p[2] = <<h, <<1 + l + h, 2 + 2 * l + h>>>>
  BY DEF Packet, Digits, Adler
<1> HIDE DEF l, h
<1>3. <<1 + l + h, 2 + 2 * l + h>> = <<1 + p[1] + h, 2 + 2 * p[1] + h>>
  BY <1>2 DEF Intact, Adler
<1>4. 1 + l + h = 1 + p[1] + h
  BY <1>3
<1>5. p[1] = l
  BY <1>1, <1>4
<1>6. Expires(p) = p[1] + Base * h
  BY <1>2 DEF Expires
<1> QED
  BY <1>1, <1>5, <1>6

\* No low digit makes the zeros of an absent directory a packet.
LEMMA ZerosRefused ==
  ASSUME NEW p, p[1] \in Nat, p[2] = Zeros
  PROVE  ~Intact(p)
<1>1. Adler(<<p[1], p[2][1]>>) = <<1 + p[1] + 0, 2 + 2 * p[1] + 0>>
  BY DEF Adler, Zeros
<1>2. <<0, 0>> # <<1 + p[1] + 0, 2 + 2 * p[1] + 0>>
  <2>1. 0 # 1 + p[1] + 0
    OBVIOUS
  <2> QED
    BY <2>1
<1> QED
  BY <1>1, <1>2 DEF Intact, Zeros

-----------------------------------------------------------------------------
(* The invariant *)

\* The rest of a packet that was in lease/, or nothing.
Seen(c) == c = Zeros \/ \E s \in 0..granted : c = Packet(s)[2]

\* What the first pass has read so far.
PassInv ==
    /\ first \in Seq(Cells)
    /\ Len(first) >= 1 => first[1] \in Nat
    /\ Len(first) = 2 => Seen(first[2])
    /\ pc = "again" => Len(first) = 2

\* No stamp in a directory is later than what was granted.
GrantInv ==
    /\ deadline <= granted
    /\ slot # None => slot <= granted
    /\ retired # None => retired <= granted

\* A publication holds the lock, and the lease that it has to bring back.
LockInv ==
    /\ \A k \in Keepers : kpc[k] \in Publishing => lock = k
    /\ lock = None /\ ~lost => slot # None
    /\ \A k \in Keepers :
        /\ kpc[k] = "staging" /\ ~lost => slot # None
        /\ kpc[k] = "retired" /\ ~lost => retired # None
        /\ kpc[k] = "placed" => slot # None

LeaseInv == TypeOK /\ PassInv /\ GrantInv /\ LockInv

\* What was granted once stays granted.
LEMMA SeenStays ==
  ASSUME granted \in Nat, granted' \in Nat, granted <= granted', NEW c, Seen(c)
  PROVE  Seen(c)'
  BY DEF Seen

\* A cell of lease/, or of its absence.
LEMMA CellSeen ==
  ASSUME TypeOK, GrantInv
  PROVE  Cell(1) \in Nat /\ Cell(2) \in Cells /\ Seen(Cell(2))
<1>1. CASE slot = None
  BY <1>1 DEF Cell, Seen, Zeros, Cells
<1>2. CASE slot # None
  <2>1. slot \in 0..granted /\ slot \in Nat
    BY <1>2, Constants DEF TypeOK, GrantInv
  <2>2. Cell(1) = slot % Base /\ Cell(2) = Packet(slot)[2]
    BY <1>2 DEF Cell, Packet, Digits
  <2>3. Packet(slot)[2] = <<slot \div Base, <<1 + (slot % Base) + (slot \div Base),
                                            2 + 2 * (slot % Base) + (slot \div Base)>>>>
    BY DEF Packet, Digits, Adler
  <2>4. Packet(slot)[2] \in Cells
    BY <2>1, <2>3, DigitsAdd DEF Cells
  <2> QED
    BY <2>1, <2>2, <2>4, DigitsAdd DEF Seen
<1> QED
  BY <1>1, <1>2

-----------------------------------------------------------------------------
(* The keepers *)

LEMMA StartKeeperInv == ASSUME LeaseInv, NEW k \in Keepers, StartKeeper(k) PROVE LeaseInv'
<1> USE Constants DEF Stamps, LeaseInv, StartKeeper, LoopKept, loop
<1>1. TypeOK'
  <2>1. /\ kpc' \in [Keepers -> {"off", "wait", "stamped", "staging", "retired", "placed", "dead"}]
        /\ since' \in [Keepers -> (-1)..MaxTime]
    BY SMTT(30) DEF TypeOK
  <2>2. stamp' \in [Keepers -> 0..(MaxTime + Lease + 1)]
    BY DEF TypeOK
  <2>3. due' \in [Keepers -> 0..(MaxTime + Interval + Slack)]
    BY SMTT(30) DEF TypeOK
  <2>4. /\ slot' \in (0..(MaxTime + Lease + 1)) \cup {None}
        /\ retired' \in (0..(MaxTime + Lease + 1)) \cup {None}
        /\ lock' \in Keepers \cup {None} /\ granted' \in 0..(MaxTime + Lease + 1)
        /\ failures' \in 0..MaxFailures /\ lost' \in BOOLEAN
        /\ granted <= granted'
    BY DEF TypeOK
  <2> QED
    BY <2>1, <2>2, <2>3, <2>4 DEF TypeOK
<1>2. PassInv'
  <2>1. UNCHANGED <<first, pc>> /\ granted <= granted'
    BY DEF TypeOK
  <2> QED
    BY <2>1, SeenStays DEF PassInv, TypeOK
<1>3. GrantInv'
  BY DEF GrantInv, TypeOK, LockInv, Publishing
<1>4. LockInv'
  BY DEF LockInv, Publishing, TypeOK
<1> QED
  BY <1>1, <1>2, <1>3, <1>4

\* A function that is changed at one place keeps its type.
LEMMA Put ==
  ASSUME NEW D, NEW S, NEW f \in [D -> S], NEW d \in D, NEW v \in S
  PROVE  [f EXCEPT ![d] = v] \in [D -> S]
  OBVIOUS

LEMMA WakeInv == ASSUME LeaseInv, NEW k \in Keepers, Wake(k) PROVE LeaseInv'
<1> USE Constants DEF Stamps, LeaseInv, Wake, Leaves, LoopKept, loop
<1>1. TypeOK'
  <2>1. /\ kpc' \in [Keepers -> {"off", "wait", "stamped", "staging", "retired", "placed", "dead"}]
        /\ since' \in [Keepers -> (-1)..MaxTime]
    <3>1. CASE stopped /\ Leaves(k, "off")
      BY <3>1, SMTT(30) DEF TypeOK
    <3>2. CASE ~stopped /\ kpc' = [kpc EXCEPT ![k] = "stamped"]
      BY <3>2 DEF TypeOK
    <3> QED
      BY <3>1, <3>2
  <2>2. stamp' \in [Keepers -> 0..(MaxTime + Lease + 1)]
    <3>1. CASE stopped /\ Leaves(k, "off")
      BY <3>1 DEF TypeOK
    <3>2. CASE ~stopped /\ kpc' = [kpc EXCEPT ![k] = "stamped"]
      <4>1. now + 1 + Lease \in 0..(MaxTime + Lease + 1)
        BY DEF TypeOK
      <4>2. stamp' = [stamp EXCEPT ![k] = now + 1 + Lease]
        BY <3>2
      <4>3. stamp \in [Keepers -> 0..(MaxTime + Lease + 1)] /\ k \in Keepers
        BY DEF TypeOK
      <4> QED
        BY ONLY <4>1, <4>2, <4>3, Put
    <3> QED
      BY <3>1, <3>2
  <2>3. due' \in [Keepers -> 0..(MaxTime + Interval + Slack)]
    <3>1. CASE stopped /\ Leaves(k, "off")
      BY <3>1 DEF TypeOK
    <3>2. CASE ~stopped /\ kpc' = [kpc EXCEPT ![k] = "stamped"]
      <4>1. now + Slack \in 0..(MaxTime + Interval + Slack)
        BY DEF TypeOK
      <4>2. due' = [due EXCEPT ![k] = now + Slack]
        BY <3>2
      <4>3. due \in [Keepers -> 0..(MaxTime + Interval + Slack)] /\ k \in Keepers
        BY DEF TypeOK
      <4> QED
        BY ONLY <4>1, <4>2, <4>3, Put
    <3> QED
      BY <3>1, <3>2
  <2>4. /\ slot' \in (0..(MaxTime + Lease + 1)) \cup {None}
        /\ retired' \in (0..(MaxTime + Lease + 1)) \cup {None}
        /\ lock' \in Keepers \cup {None} /\ granted' \in 0..(MaxTime + Lease + 1)
        /\ failures' \in 0..MaxFailures /\ lost' \in BOOLEAN
        /\ granted <= granted'
    <3>1. CASE stopped /\ Leaves(k, "off")
      BY <3>1 DEF TypeOK
    <3>2. CASE ~stopped /\ kpc' = [kpc EXCEPT ![k] = "stamped"]
      BY <3>2 DEF TypeOK
    <3> QED
      BY <3>1, <3>2
  <2> QED
    BY <2>1, <2>2, <2>3, <2>4 DEF TypeOK
<1>2. PassInv'
  <2>1. UNCHANGED <<first, pc>> /\ granted <= granted'
    BY DEF TypeOK
  <2> QED
    BY <2>1, SeenStays DEF PassInv, TypeOK
<1>3. GrantInv'
  BY DEF GrantInv, TypeOK, LockInv, Publishing
<1>4. LockInv'
  <2>1. /\ UNCHANGED <<lock, slot, retired, lost>>
        /\ kpc \in [Keepers -> {"off", "wait", "stamped", "staging", "retired", "placed", "dead"}]
        /\ \E step \in {"off", "stamped"} : kpc' = [kpc EXCEPT ![k] = step]
    BY DEF TypeOK
  <2>2. \A j \in Keepers :
            kpc'[j] \in {"off", "stamped"} \/ kpc'[j] = kpc[j]
    BY ONLY <2>1
  <2> QED
    BY ONLY LeaseInv, <2>1, <2>2 DEF LeaseInv, LockInv, Publishing
<1> QED
  BY <1>1, <1>2, <1>3, <1>4

LEMMA TakeLockInv == ASSUME LeaseInv, NEW k \in Keepers, TakeLock(k) PROVE LeaseInv'
<1> USE Constants DEF Stamps, LeaseInv, TakeLock, Waits, LoopKept, loop
<1>1. TypeOK'
  <2>1. /\ kpc' \in [Keepers -> {"off", "wait", "stamped", "staging", "retired", "placed", "dead"}]
        /\ since' \in [Keepers -> (-1)..MaxTime]
    <3>1. CASE lock = None /\ kpc' = [kpc EXCEPT ![k] = "staging"]
      BY <3>1 DEF TypeOK
    <3>2. CASE lock # None /\ Waits(k)
      BY <3>2 DEF TypeOK
    <3> QED
      BY <3>1, <3>2
  <2>2. stamp' \in [Keepers -> 0..(MaxTime + Lease + 1)]
    <3>1. CASE lock = None /\ kpc' = [kpc EXCEPT ![k] = "staging"]
      BY <3>1 DEF TypeOK
    <3>2. CASE lock # None /\ Waits(k)
      BY <3>2 DEF TypeOK
    <3> QED
      BY <3>1, <3>2
  <2>3. due' \in [Keepers -> 0..(MaxTime + Interval + Slack)]
    <3>1. CASE lock = None /\ kpc' = [kpc EXCEPT ![k] = "staging"]
      BY <3>1 DEF TypeOK
    <3>2. CASE lock # None /\ Waits(k)
      BY <3>2, SMTT(30) DEF TypeOK
    <3> QED
      BY <3>1, <3>2
  <2>4. /\ slot' \in (0..(MaxTime + Lease + 1)) \cup {None}
        /\ retired' \in (0..(MaxTime + Lease + 1)) \cup {None}
        /\ lock' \in Keepers \cup {None} /\ granted' \in 0..(MaxTime + Lease + 1)
        /\ failures' \in 0..MaxFailures /\ lost' \in BOOLEAN
        /\ granted <= granted'
    <3>1. CASE lock = None /\ kpc' = [kpc EXCEPT ![k] = "staging"]
      BY <3>1 DEF TypeOK
    <3>2. CASE lock # None /\ Waits(k)
      BY <3>2 DEF TypeOK
    <3> QED
      BY <3>1, <3>2
  <2> QED
    BY <2>1, <2>2, <2>3, <2>4 DEF TypeOK
<1>2. PassInv'
  <2>1. UNCHANGED <<first, pc>> /\ granted <= granted'
    BY DEF TypeOK
  <2> QED
    BY <2>1, SeenStays DEF PassInv, TypeOK
<1>3. GrantInv'
  BY DEF GrantInv, TypeOK, LockInv, Publishing
<1>4. LockInv'
  BY DEF LockInv, Publishing, TypeOK
<1> QED
  BY <1>1, <1>2, <1>3, <1>4

LEMMA RetireInv == ASSUME LeaseInv, NEW k \in Keepers, Retire(k) PROVE LeaseInv'
<1> USE Constants DEF Stamps, LeaseInv, Retire, LoopKept, loop
<1>1. TypeOK'
  <2>1. /\ kpc' \in [Keepers -> {"off", "wait", "stamped", "staging", "retired", "placed", "dead"}]
        /\ since' \in [Keepers -> (-1)..MaxTime]
    BY DEF TypeOK
  <2>2. stamp' \in [Keepers -> 0..(MaxTime + Lease + 1)]
    BY DEF TypeOK
  <2>3. due' \in [Keepers -> 0..(MaxTime + Interval + Slack)]
    BY DEF TypeOK
  <2>4. /\ slot' \in (0..(MaxTime + Lease + 1)) \cup {None}
        /\ retired' \in (0..(MaxTime + Lease + 1)) \cup {None}
        /\ lock' \in Keepers \cup {None} /\ granted' \in 0..(MaxTime + Lease + 1)
        /\ failures' \in 0..MaxFailures /\ lost' \in BOOLEAN
        /\ granted <= granted'
    BY DEF TypeOK
  <2> QED
    BY <2>1, <2>2, <2>3, <2>4 DEF TypeOK
<1>2. PassInv'
  <2>1. UNCHANGED <<first, pc>> /\ granted <= granted'
    BY DEF TypeOK
  <2> QED
    BY <2>1, SeenStays DEF PassInv, TypeOK
<1>3. GrantInv'
  BY DEF GrantInv, TypeOK, LockInv, Publishing
<1>4. LockInv'
  BY DEF LockInv, Publishing, TypeOK
<1> QED
  BY <1>1, <1>2, <1>3, <1>4

LEMMA PlaceInv == ASSUME LeaseInv, NEW k \in Keepers, Place(k) PROVE LeaseInv'
<1> USE Constants DEF Stamps, LeaseInv, Place, Larger, LoopKept, loop
<1>1. TypeOK'
  <2>1. /\ kpc' \in [Keepers -> {"off", "wait", "stamped", "staging", "retired", "placed", "dead"}]
        /\ since' \in [Keepers -> (-1)..MaxTime]
    BY DEF TypeOK
  <2>2. stamp' \in [Keepers -> 0..(MaxTime + Lease + 1)]
    BY DEF TypeOK
  <2>3. due' \in [Keepers -> 0..(MaxTime + Interval + Slack)]
    BY DEF TypeOK
  <2>4. /\ slot' \in (0..(MaxTime + Lease + 1)) \cup {None}
        /\ retired' \in (0..(MaxTime + Lease + 1)) \cup {None}
        /\ lock' \in Keepers \cup {None} /\ granted' \in 0..(MaxTime + Lease + 1)
        /\ failures' \in 0..MaxFailures /\ lost' \in BOOLEAN
        /\ granted <= granted'
    BY SMTT(30) DEF TypeOK
  <2> QED
    BY <2>1, <2>2, <2>3, <2>4 DEF TypeOK
<1>2. PassInv'
  <2>1. UNCHANGED <<first, pc>> /\ granted <= granted'
    BY DEF TypeOK
  <2> QED
    BY <2>1, SeenStays DEF PassInv, TypeOK
<1>3. GrantInv'
  BY SMTT(30) DEF GrantInv, TypeOK, LockInv, Publishing
<1>4. LockInv'
  BY SMTT(30) DEF LockInv, Publishing, TypeOK
<1> QED
  BY <1>1, <1>2, <1>3, <1>4

LEMMA FailInv == ASSUME LeaseInv, NEW k \in Keepers, Fail(k) PROVE LeaseInv'
<1> USE Constants DEF Stamps, LeaseInv, Fail, Waits, Restored, LoopKept, loop
<1>1. TypeOK'
  <2>1. /\ kpc' \in [Keepers -> {"off", "wait", "stamped", "staging", "retired", "placed", "dead"}]
        /\ since' \in [Keepers -> (-1)..MaxTime]
    BY DEF TypeOK
  <2>2. stamp' \in [Keepers -> 0..(MaxTime + Lease + 1)]
    BY DEF TypeOK
  <2>3. due' \in [Keepers -> 0..(MaxTime + Interval + Slack)]
    BY DEF TypeOK
  <2>4. slot' \in {slot, retired} /\ failures' = failures + 1 /\ failures < MaxFailures
        /\ lost' \in {lost, TRUE} /\ lock' = None /\ retired' = None /\ granted' = granted
    OBVIOUS
  <2>5. /\ slot' \in (0..(MaxTime + Lease + 1)) \cup {None}
        /\ retired' \in (0..(MaxTime + Lease + 1)) \cup {None}
        /\ lock' \in Keepers \cup {None} /\ granted' \in 0..(MaxTime + Lease + 1)
    BY <2>4 DEF TypeOK
  <2>6. failures' \in 0..MaxFailures /\ granted <= granted'
    BY <2>4 DEF TypeOK
  <2>7. lost' \in BOOLEAN
    <3>1. lost \in BOOLEAN
      BY DEF TypeOK
    <3> QED
      BY <2>4, <3>1
  <2> QED
    BY <2>1, <2>2, <2>3, <2>5, <2>6, <2>7 DEF TypeOK
<1>2. PassInv'
  <2>1. UNCHANGED <<first, pc>> /\ granted <= granted'
    BY DEF TypeOK
  <2> QED
    BY <2>1, SeenStays DEF PassInv, TypeOK
<1>3. GrantInv'
  BY DEF GrantInv, TypeOK, LockInv, Publishing
<1>4. LockInv'
  BY SMTT(30) DEF LockInv, Publishing, TypeOK
<1> QED
  BY <1>1, <1>2, <1>3, <1>4

LEMMA FinishInv == ASSUME LeaseInv, NEW k \in Keepers, Finish(k) PROVE LeaseInv'
<1> USE Constants DEF Stamps, LeaseInv, Finish, Waits, LoopKept, loop
<1>1. TypeOK'
  <2>1. /\ kpc' \in [Keepers -> {"off", "wait", "stamped", "staging", "retired", "placed", "dead"}]
        /\ since' \in [Keepers -> (-1)..MaxTime]
    BY DEF TypeOK
  <2>2. stamp' \in [Keepers -> 0..(MaxTime + Lease + 1)]
    BY DEF TypeOK
  <2>3. due' \in [Keepers -> 0..(MaxTime + Interval + Slack)]
    BY DEF TypeOK
  <2>4. /\ slot' \in (0..(MaxTime + Lease + 1)) \cup {None}
        /\ retired' \in (0..(MaxTime + Lease + 1)) \cup {None}
        /\ lock' \in Keepers \cup {None} /\ granted' \in 0..(MaxTime + Lease + 1)
        /\ failures' \in 0..MaxFailures /\ lost' \in BOOLEAN
        /\ granted <= granted'
    BY DEF TypeOK
  <2> QED
    BY <2>1, <2>2, <2>3, <2>4 DEF TypeOK
<1>2. PassInv'
  <2>1. UNCHANGED <<first, pc>> /\ granted <= granted'
    BY DEF TypeOK
  <2> QED
    BY <2>1, SeenStays DEF PassInv, TypeOK
<1>3. GrantInv'
  BY DEF GrantInv, TypeOK, LockInv, Publishing
<1>4. LockInv'
  BY DEF LockInv, Publishing, TypeOK
<1> QED
  BY <1>1, <1>2, <1>3, <1>4

LEMMA StopKeeperInv == ASSUME LeaseInv, NEW k \in Keepers, StopKeeper(k) PROVE LeaseInv'
<1> USE Constants DEF Stamps, LeaseInv, StopKeeper, Leaves, LoopKept, loop
<1>1. TypeOK'
  <2>1. /\ kpc' \in [Keepers -> {"off", "wait", "stamped", "staging", "retired", "placed", "dead"}]
        /\ since' \in [Keepers -> (-1)..MaxTime]
    BY DEF TypeOK
  <2>2. stamp' \in [Keepers -> 0..(MaxTime + Lease + 1)]
    BY DEF TypeOK
  <2>3. due' \in [Keepers -> 0..(MaxTime + Interval + Slack)]
    BY DEF TypeOK
  <2>4. /\ slot' \in (0..(MaxTime + Lease + 1)) \cup {None}
        /\ retired' \in (0..(MaxTime + Lease + 1)) \cup {None}
        /\ lock' \in Keepers \cup {None} /\ granted' \in 0..(MaxTime + Lease + 1)
        /\ failures' \in 0..MaxFailures /\ lost' \in BOOLEAN
        /\ granted <= granted'
    BY DEF TypeOK
  <2> QED
    BY <2>1, <2>2, <2>3, <2>4 DEF TypeOK
<1>2. PassInv'
  <2>1. UNCHANGED <<first, pc>> /\ granted <= granted'
    BY DEF TypeOK
  <2> QED
    BY <2>1, SeenStays DEF PassInv, TypeOK
<1>3. GrantInv'
  BY DEF GrantInv, TypeOK, LockInv, Publishing
<1>4. LockInv'
  BY DEF LockInv, Publishing, TypeOK
<1> QED
  BY <1>1, <1>2, <1>3, <1>4

LEMMA CrashInv == ASSUME LeaseInv, NEW k \in Keepers, Crash(k) PROVE LeaseInv'
<1> USE Constants DEF Stamps, LeaseInv, Crash, Leaves, LoopKept, loop
<1>1. TypeOK'
  <2>1. /\ kpc' \in [Keepers -> {"off", "wait", "stamped", "staging", "retired", "placed", "dead"}]
        /\ since' \in [Keepers -> (-1)..MaxTime]
    BY DEF TypeOK
  <2>2. stamp' \in [Keepers -> 0..(MaxTime + Lease + 1)]
    BY DEF TypeOK
  <2>3. due' \in [Keepers -> 0..(MaxTime + Interval + Slack)]
    BY DEF TypeOK
  <2>4. /\ slot' \in (0..(MaxTime + Lease + 1)) \cup {None}
        /\ retired' \in (0..(MaxTime + Lease + 1)) \cup {None}
        /\ lock' \in Keepers \cup {None} /\ granted' \in 0..(MaxTime + Lease + 1)
        /\ failures' \in 0..MaxFailures /\ lost' \in BOOLEAN
        /\ granted <= granted'
    BY DEF TypeOK
  <2> QED
    BY <2>1, <2>2, <2>3, <2>4 DEF TypeOK
<1>2. PassInv'
  <2>1. UNCHANGED <<first, pc>> /\ granted <= granted'
    BY DEF TypeOK
  <2> QED
    BY <2>1, SeenStays DEF PassInv, TypeOK
<1>3. GrantInv'
  BY DEF GrantInv, TypeOK, LockInv, Publishing
<1>4. LockInv'
  BY DEF LockInv, Publishing, TypeOK
<1> QED
  BY <1>1, <1>2, <1>3, <1>4

-----------------------------------------------------------------------------
(* The loop, the inbox and the clock *)

LEMMA PollInv == ASSUME LeaseInv, Poll PROVE LeaseInv'
<1> USE Constants DEF Stamps, LeaseInv, Poll, FilesKept, host
<1>1. TypeOK'
  BY SMTT(30) DEF TypeOK, GrantInv
<1>2. PassInv'
  BY DEF PassInv, Seen, TypeOK
<1>3. GrantInv'
  BY DEF GrantInv, TypeOK
<1>4. LockInv'
  BY DEF LockInv
<1> QED
  BY <1>1, <1>2, <1>3, <1>4

LEMMA ReadSecondInv == ASSUME LeaseInv, ReadSecond PROVE LeaseInv'
<1> USE Constants DEF Stamps, LeaseInv, ReadSecond, FilesKept, host
<1>1. TypeOK'
  BY SMTT(30) DEF TypeOK, GrantInv
<1>2. PassInv'
  BY DEF PassInv, Seen, TypeOK
<1>3. GrantInv'
  BY DEF GrantInv, TypeOK
<1>4. LockInv'
  BY DEF LockInv
<1> QED
  BY <1>1, <1>2, <1>3, <1>4

LEMMA DecideInv == ASSUME LeaseInv, Decide PROVE LeaseInv'
<1> USE Constants DEF Stamps, LeaseInv, Decide, FilesKept, host
<1>1. TypeOK'
  BY SMTT(30) DEF TypeOK, GrantInv
<1>2. PassInv'
  BY DEF PassInv, Seen, TypeOK
<1>3. GrantInv'
  BY DEF GrantInv, TypeOK
<1>4. LockInv'
  BY DEF LockInv
<1> QED
  BY <1>1, <1>2, <1>3, <1>4

LEMMA ServeInv == ASSUME LeaseInv, Serve PROVE LeaseInv'
<1> USE Constants DEF Stamps, LeaseInv, Serve, Renews, Larger, FilesKept, host
<1>1. TypeOK'
  BY SMTT(30) DEF TypeOK, GrantInv
<1>2. PassInv'
  BY DEF PassInv, Seen, TypeOK
<1>3. GrantInv'
  BY DEF GrantInv, TypeOK
<1>4. LockInv'
  BY DEF LockInv
<1> QED
  BY <1>1, <1>2, <1>3, <1>4

LEMMA CheckReadyInv == ASSUME LeaseInv, CheckReady PROVE LeaseInv'
<1> USE DEF LeaseInv, CheckReady, FilesKept, host
<1>2. TypeOK'
  BY DEF TypeOK
<1>3. PassInv'
  BY DEF PassInv, Seen
<1>4. GrantInv' /\ LockInv'
  BY DEF GrantInv, LockInv
<1> QED
  BY <1>2, <1>3, <1>4

LEMMA ReadFirstInv == ASSUME LeaseInv, ReadFirst PROVE LeaseInv'
<1> USE DEF LeaseInv, ReadFirst, FilesKept, host
<1>1. /\ UNCHANGED <<pc, granted, slot>> /\ pc = "read"
      /\ first' = Append(first, Cell(Len(first) + 1)) /\ Len(first) < 2
      /\ Cell(1) \in Nat /\ Cell(2) \in Cells /\ Seen(Cell(2))
  BY CellSeen
<1>2. /\ first' \in Seq(Cells) /\ Len(first') = Len(first) + 1
      /\ Len(first) = 0 => first'[1] = Cell(1)
      /\ Len(first) = 1 => first'[1] = first[1] /\ first'[2] = Cell(2)
  BY <1>1 DEF PassInv, Cells
<1>3. Len(first') <= 2
  BY <1>1, <1>2 DEF PassInv
<1>4. PassInv'
  BY <1>1, <1>2 DEF PassInv, Seen
<1>5. TypeOK'
  BY <1>3 DEF TypeOK
<1>6. GrantInv' /\ LockInv'
  BY DEF GrantInv, LockInv
<1> QED
  BY <1>4, <1>5, <1>6

\* What passes the checksum is a stamp that was in lease/.
LEMMA AdoptInv == ASSUME LeaseInv, Adopt PROVE LeaseInv'
<1> USE Constants DEF Stamps, LeaseInv, Adopt, FilesKept, host
<1>1. first[1] \in Nat /\ Seen(first[2])
  BY DEF PassInv
<1>2. Intact(first) => Expires(first) \in 0..granted
  <2> SUFFICES ASSUME Intact(first) PROVE Expires(first) \in 0..granted
    OBVIOUS
  <2>1. first[2] # Zeros
    BY <1>1, ZerosRefused
  <2>2. PICK s \in 0..granted : first[2] = Packet(s)[2]
    BY <1>1, <2>1 DEF Seen
  <2>3. s \in Nat /\ granted \in Nat
    BY DEF TypeOK
  <2> QED
    BY <1>1, <2>2, <2>3, OwnRest
<1>3. deadline' \in 0..granted
  BY <1>2 DEF Accepted, Larger, GrantInv, TypeOK
<1>4. TypeOK'
  BY <1>3, SMTT(30) DEF TypeOK
<1>5. PassInv'
  BY DEF PassInv, Seen
<1>6. GrantInv' /\ LockInv'
  BY <1>3 DEF GrantInv, LockInv, TypeOK
<1> QED
  BY <1>4, <1>5, <1>6

LEMMA OthersInv ==
  ASSUME LeaseInv,
         \/ \E i \in Requests : Publish(i)
         \/ Clear \/ Tick \/ UNCHANGED vars
  PROVE  LeaseInv'
<1> USE Constants DEF Stamps, LeaseInv, Publish, Clear, Tick, vars, host, loop
<1>1. TypeOK'
  <2>1. CASE Tick
    BY <2>1, SMTT(30) DEF TypeOK
  <2>2. CASE ~Tick
    BY <2>2 DEF TypeOK
  <2> QED
    BY <2>1, <2>2
<1>2. PassInv'
  BY DEF PassInv, Seen
<1>3. GrantInv' /\ LockInv'
  BY DEF GrantInv, LockInv
<1> QED
  BY <1>1, <1>2, <1>3

LEMMA InitInv == ASSUME Init PROVE LeaseInv
<1> USE Constants
<1>1. TypeOK
  <2>1. /\ first = <<>> /\ since = [k \in Keepers |-> -1]
        /\ kpc = [k \in Keepers |-> "off"] /\ stamp = [k \in Keepers |-> 0]
        /\ due = [k \in Keepers |-> 0]
    BY DEF Init
  <2>2. /\ Len(first) <= 2 /\ since \in [Keepers -> (-1)..MaxTime]
        /\ kpc \in [Keepers -> {"off", "wait", "stamped", "staging", "retired", "placed", "dead"}]
        /\ stamp \in [Keepers -> 0..(MaxTime + Lease + 1)]
        /\ due \in [Keepers -> 0..(MaxTime + Interval + Slack)]
    <3>1. Len(first) <= 2
      BY <2>1
    <3>2. since \in [Keepers -> (-1)..MaxTime]
      BY <2>1
    <3>3. kpc \in [Keepers -> {"off", "wait", "stamped", "staging", "retired", "placed", "dead"}]
      BY <2>1
    <3>4. 0 \in 0..(MaxTime + Lease + 1) /\ 0 \in 0..(MaxTime + Interval + Slack)
      OBVIOUS
    <3>5. stamp \in [Keepers -> 0..(MaxTime + Lease + 1)]
      BY <2>1, <3>4
    <3>6. due \in [Keepers -> 0..(MaxTime + Interval + Slack)]
      BY <2>1, <3>4
    <3> QED
      BY <3>1, <3>2, <3>3, <3>5, <3>6
  <2>3. /\ now \in 0..MaxTime /\ slot \in 0..(MaxTime + Lease + 1) /\ at \in (-1)..MaxTime
        /\ deadline \in 0..(MaxTime + Lease + 1) /\ granted \in 0..(MaxTime + Lease + 1)
        /\ failures \in 0..MaxFailures
    BY DEF Init
  <2>4. /\ lock = None /\ inbox = None /\ retired = None /\ pc = "top"
        /\ again = 0 /\ renewed = {}
    BY DEF Init
  <2>5. stopped \in BOOLEAN /\ lost \in BOOLEAN
    BY DEF Init
  <2> QED
    BY <2>2, <2>3, <2>4, <2>5 DEF TypeOK
<1>2. PassInv
  BY DEF PassInv, Init
<1>3. GrantInv /\ LockInv
  BY DEF GrantInv, LockInv, Publishing, Init, Stamps
<1> QED
  BY <1>1, <1>2, <1>3 DEF LeaseInv

\* The invariant is inductive, whoever dies, fails or is slow.
THEOREM LeaseInvariant == Spec => []LeaseInv
<1>1. Init => LeaseInv
  BY InitInv
<1>2. LeaseInv /\ [Next]_vars => LeaseInv'
  <2> SUFFICES ASSUME LeaseInv, [Next]_vars PROVE LeaseInv'
    OBVIOUS
  <2>1. CASE \E k \in Keepers :
                StartKeeper(k) \/ Wake(k) \/ TakeLock(k) \/ Retire(k) \/ Place(k)
                \/ Fail(k) \/ Finish(k) \/ StopKeeper(k) \/ Crash(k)
    BY <2>1, StartKeeperInv, WakeInv, TakeLockInv, RetireInv, PlaceInv, FailInv, FinishInv,
       StopKeeperInv, CrashInv
  <2>2. CASE Poll \/ ReadFirst \/ CheckReady \/ ReadSecond \/ Adopt \/ Decide \/ Serve
    BY <2>2, PollInv, ReadFirstInv, CheckReadyInv, ReadSecondInv, AdoptInv, DecideInv, ServeInv
  <2>3. CASE \/ \E i \in Requests : Publish(i)
             \/ Clear \/ Tick \/ UNCHANGED vars
    BY <2>3, OthersInv
  <2> QED
    BY <2>1, <2>2, <2>3 DEF Next
<1> QED
  BY <1>1, <1>2, PTL DEF Spec

\* Every variable stays in its range; the deadline does, because it is never later than
\* what was granted.
THEOREM TypeCorrect == Spec => []TypeOK
<1>1. LeaseInv => TypeOK
  BY DEF LeaseInv
<1> QED
  BY <1>1, LeaseInvariant, PTL

\* The loop never runs past what it was granted, and a publication that fails leaves
\* the earlier lease.
THEOREM HonestLease == Spec => []LeaseIsHonest
<1>1. LeaseInv => LeaseIsHonest
  BY DEF LeaseInv, GrantInv, LockInv, LeaseIsHonest, NeverPastGrant, FailureKeepsLease
<1> QED
  BY <1>1, LeaseInvariant, PTL

-----------------------------------------------------------------------------
(* A server that lives *)

\* Who never came does nothing, and the lock is held by a publication or was left by one.
HostInv ==
    /\ \A j \in Keepers : since[j] = -1 => kpc[j] = "off"
    /\ lock # None => kpc[lock] \in Publishing \cup {"dead"}
    /\ lost => failures > 0

\* Neither the loop nor a keeper is late by more than it may be.
ClockInv ==
    /\ at <= now /\ (pc # "ended" => now <= at + Stall)
    /\ \A j \in Keepers : Living(j) => now <= due[j]
    /\ pc \in {"top", "serve"} => first = <<>> /\ again = 0

\* The one server that was ever there lives, and no renewal has failed.
Alone(k) ==
    /\ Living(k) /\ failures = 0
    /\ \A other \in Keepers \ {k} : since[other] = -1

\* What the first pass of the present poll has read is still there.
ReadsSlot ==
    /\ Len(first) >= 1 => first[1] = Cell(1)
    /\ Len(first) = 2 => first[2] = Cell(2)

\* The keeper waits since it finished at due - Interval: its stamp is adopted by the
\* first poll that begins later, and until then the earlier one, or the age of the
\* server, is enough.
Settled(k) ==
    LET finished == due[k] - Interval
    IN /\ slot # None /\ finished <= now
       /\ slot \in (finished - Slack + 1 + Lease)..(finished + 1 + Lease)
       /\ pc # "ended" =>
           /\ deadline >= slot \/ at <= finished + Stall
           /\ \/ deadline >= finished - 2 * Slack - Interval + 1 + Lease
              \/ finished <= since[k] + Slack
           /\ at > finished =>
                 IF pc \in {"read", "again"} THEN ReadsSlot ELSE deadline >= slot

\* It publishes since due - Slack: the stamp before it was adopted.
Rotating(k) ==
    /\ stamp[k] = due[k] - Slack + 1 + Lease /\ due[k] - Slack <= now
    /\ kpc[k] = "placed" => slot = stamp[k]
    /\ pc # "ended" =>
        \/ deadline >= due[k] - 2 * Slack - Interval + 1 + Lease
        \/ due[k] <= since[k] + Slack

RoundInv(k) ==
    Alone(k) =>
        /\ 0 <= since[k] /\ since[k] <= now
        /\ kpc[k] = "wait" => due[k] = since[k] \/ Settled(k)
        /\ kpc[k] \in {"stamped"} \cup Publishing => Rotating(k)
        /\ pc = "ended" => at - since[k] < Lease

LiveInv == LeaseInv /\ HostInv /\ ClockInv /\ \A k \in Keepers : RoundInv(k)

KeeperStep(k) ==
    \/ StartKeeper(k) \/ Wake(k) \/ TakeLock(k) \/ Retire(k) \/ Place(k)
    \/ Fail(k) \/ Finish(k) \/ StopKeeper(k) \/ Crash(k)

\* What a keeper's step leaves alone, and what it does to those who are not there.
LEMMA KeeperSteps ==
  ASSUME LiveInv, NEW k \in Keepers, KeeperStep(k)
  PROVE  /\ LoopKept /\ HostInv' /\ since'[k] # -1
         /\ \A j \in Keepers \ {k} : since'[j] = since[j] /\ kpc'[j] = kpc[j] /\ due'[j] = due[j]
<1> USE Constants DEF LiveInv, LeaseInv
<1>1. /\ since'[k] # -1 /\ LoopKept
      /\ \A j \in Keepers \ {k} : since'[j] = since[j] /\ kpc'[j] = kpc[j] /\ due'[j] = due[j]
  <2>1. CASE StartKeeper(k)
    BY <2>1 DEF StartKeeper, TypeOK
  <2>2. CASE Wake(k)
    BY <2>2, SMTT(30) DEF Wake, Leaves, HostInv, TypeOK
  <2>3. CASE TakeLock(k)
    BY <2>3 DEF TakeLock, Waits, HostInv, TypeOK
  <2>4. CASE Retire(k) \/ Place(k)
    BY <2>4 DEF Retire, Place, HostInv, TypeOK
  <2>5. CASE Fail(k) \/ Finish(k)
    BY <2>5 DEF Fail, Finish, Waits, HostInv, TypeOK
  <2>6. CASE StopKeeper(k) \/ Crash(k)
    BY <2>6, SMTT(30) DEF StopKeeper, Crash, Leaves, HostInv, TypeOK
  <2> QED
    BY <2>1, <2>2, <2>3, <2>4, <2>5, <2>6 DEF KeeperStep
<1>2. HostInv'
  <2>1. \A j \in Keepers : since'[j] = -1 => kpc'[j] = "off"
    BY <1>1 DEF HostInv
  <2>2. lock' # None => kpc'[lock'] \in Publishing \cup {"dead"}
    <3>1. CASE StartKeeper(k)
      BY <3>1 DEF StartKeeper, TypeOK, HostInv, Publishing
    <3>2. CASE Wake(k)
      BY <3>2 DEF Wake, Leaves, TypeOK, HostInv, Publishing
    <3>3. CASE TakeLock(k)
      BY <3>3 DEF TakeLock, Waits, TypeOK, HostInv, Publishing
    <3>4. CASE Retire(k) \/ Place(k)
      BY <3>4 DEF Retire, Place, TypeOK, HostInv, Publishing
    <3>5. CASE Fail(k) \/ Finish(k)
      BY <3>5 DEF Fail, Finish, TypeOK, HostInv, Publishing
    <3>6. CASE StopKeeper(k) \/ Crash(k)
      BY <3>6, SMTT(30) DEF StopKeeper, Crash, Leaves, TypeOK, HostInv, Publishing
    <3> QED
      BY <3>1, <3>2, <3>3, <3>4, <3>5, <3>6 DEF KeeperStep
  <2>3. lost' => failures' > 0
    <3>1. CASE Fail(k)
      BY <3>1 DEF Fail, TypeOK
    <3>2. CASE ~Fail(k)
      <4>1. UNCHANGED <<failures, lost>>
        BY <3>2 DEF KeeperStep, StartKeeper, Wake, TakeLock, Retire, Place, Finish, StopKeeper,
                    Crash
      <4> QED
        BY <4>1 DEF HostInv
    <3> QED
      BY <3>1, <3>2
  <2> QED
    BY <2>1, <2>2, <2>3 DEF HostInv
<1> QED
  BY <1>1, <1>2

\* While another keeper acts, nobody is alone.
LEMMA OthersAct ==
  ASSUME LiveInv, NEW j \in Keepers, NEW k \in Keepers, j # k, KeeperStep(j)
  PROVE  RoundInv(k)'
  BY KeeperSteps DEF RoundInv, Alone

\* The server arrives.
LEMMA StartRound == ASSUME LiveInv, NEW k \in Keepers, StartKeeper(k) PROVE RoundInv(k)'
<1> USE Constants DEF LiveInv, LeaseInv, StartKeeper, LoopKept, loop
<1>1. since'[k] = now /\ due'[k] = now /\ kpc'[k] = "wait" /\ now' = now /\ now \in Nat
  BY DEF TypeOK
<1>2. at' \in Int /\ at' <= now
  BY DEF TypeOK, ClockInv
<1> QED
  BY <1>1, <1>2 DEF RoundInv, Publishing

\* The wait is over: the stamp of the last round has been adopted.
LEMMA WakeRound == ASSUME LiveInv, NEW k \in Keepers, Wake(k) PROVE RoundInv(k)'
<1> USE Constants DEF LiveInv, LeaseInv
<1> SUFFICES ASSUME Alone(k)' PROVE RoundInv(k)'
  BY DEF RoundInv
<1>1. /\ kpc[k] = "wait" /\ due[k] <= now /\ kpc'[k] = "stamped"
      /\ stamp'[k] = now + 1 + Lease /\ due'[k] = now + Slack
      /\ UNCHANGED <<now, since, failures, slot, pc, at, deadline>>
  BY DEF Wake, Leaves, LoopKept, loop, Alone, Living, TypeOK
<1>2. Alone(k) /\ now = due[k]
  <2>1. Alone(k)
    BY <1>1 DEF Alone, Living
  <2>2. now <= due[k] /\ due[k] \in Int /\ now \in Int
    BY <2>1 DEF Alone, ClockInv, TypeOK
  <2> QED
    BY <1>1, <2>1, <2>2
<1>3. /\ now \in Int /\ since[k] \in Int /\ due[k] \in Int /\ at \in Int /\ deadline \in Int
      /\ slot # None => slot \in Int
  BY DEF TypeOK
<1>4. /\ 0 <= since[k] /\ since[k] <= now /\ (pc = "ended" => at - since[k] < Lease)
      /\ due[k] = since[k] \/ Settled(k)
  BY <1>1, <1>2 DEF RoundInv
<1>5. /\ at <= now /\ (pc # "ended" => now <= at + Stall)
  BY DEF ClockInv
<1>6. pc # "ended" /\ due[k] # since[k] =>
          deadline >= due'[k] - 2 * Slack - Interval + 1 + Lease
  BY <1>1, <1>2, <1>3, <1>4, <1>5, TimingAssumption DEF Settled
<1>7. due[k] = since[k] => due'[k] <= since[k] + Slack
  BY <1>1, <1>2, <1>3
<1>8. Rotating(k)'
  BY <1>1, <1>3, <1>6, <1>7 DEF Rotating
<1> QED
  BY <1>1, <1>4, <1>8 DEF RoundInv

\* Nobody else holds the lock; a round goes on to its last rename.
LEMMA PublishRound ==
  ASSUME LiveInv, NEW k \in Keepers, TakeLock(k) \/ Retire(k) \/ Place(k)
  PROVE  RoundInv(k)'
<1> USE Constants DEF LiveInv, LeaseInv
<1> SUFFICES ASSUME Alone(k)' PROVE RoundInv(k)'
  BY DEF RoundInv
<1>1. UNCHANGED <<now, since, failures, pc, at, deadline>>
  BY DEF TakeLock, Retire, Place, LoopKept, loop
<1>2. Alone(k)
  BY <1>1 DEF TakeLock, Retire, Place, Alone, Living
<1>3. kpc[k] \in {"stamped", "staging", "retired"} /\ Rotating(k)
  BY <1>2 DEF TakeLock, Retire, Place, RoundInv, Publishing
<1>4. CASE TakeLock(k)
  <2>1. lock = None
    <3> SUFFICES ASSUME lock # None PROVE FALSE
      OBVIOUS
    <3>1. lock # k /\ lock \in Keepers
      BY <1>4 DEF TakeLock, HostInv, Publishing, TypeOK
    <3> QED
      BY <1>2, <3>1 DEF HostInv, Alone, Publishing
  <2>2. kpc'[k] = "staging" /\ UNCHANGED <<stamp, due>>
    BY <1>4, <2>1 DEF TakeLock, TypeOK
  <2> QED
    BY <1>1, <1>2, <1>3, <2>2 DEF RoundInv, Rotating
<1>5. CASE Retire(k) \/ Place(k)
  <2>1. /\ UNCHANGED <<stamp, due>> /\ kpc'[k] \in {"retired", "placed"}
        /\ kpc'[k] = "placed" => slot' = stamp[k]
    BY <1>5 DEF Retire, Place, TypeOK
  <2> QED
    BY <1>1, <1>2, <1>3, <2>1 DEF RoundInv, Rotating
<1> QED
  BY <1>4, <1>5

\* The round is over: its stamp is there for a whole interval.
LEMMA FinishRound == ASSUME LiveInv, NEW k \in Keepers, Finish(k) PROVE RoundInv(k)'
<1> USE Constants DEF LiveInv, LeaseInv
<1> SUFFICES ASSUME Alone(k)' PROVE RoundInv(k)'
  BY DEF RoundInv
<1>1. /\ kpc[k] = "placed" /\ kpc'[k] = "wait" /\ due'[k] = now + Interval
      /\ UNCHANGED <<now, since, failures, slot, pc, at, deadline>>
  BY DEF Finish, Waits, LoopKept, loop, TypeOK
<1>2. Alone(k)
  BY <1>1 DEF Alone, Living
<1>3. /\ now \in Int /\ since[k] \in Int /\ due[k] \in Int /\ at \in Int /\ deadline \in Int
      /\ stamp[k] \in Int /\ stamp[k] # None
  BY DEF TypeOK, Stamps
<1>4. Rotating(k) /\ 0 <= since[k] /\ since[k] <= now /\ (pc = "ended" => at - since[k] < Lease)
  BY <1>1, <1>2 DEF RoundInv, Publishing
<1>5. at <= now /\ now <= due[k]
  BY <1>2 DEF ClockInv, Alone
<1>6. slot = stamp[k] /\ stamp[k] = due[k] - Slack + 1 + Lease /\ due[k] - Slack <= now
  BY <1>1, <1>4 DEF Rotating
<1>7. /\ slot' # None /\ due'[k] - Interval = now
      /\ slot' \in (now - Slack + 1 + Lease)..(now + 1 + Lease)
  BY <1>1, <1>3, <1>5, <1>6
<1>8. pc # "ended" =>
          \/ deadline >= now - 2 * Slack - Interval + 1 + Lease
          \/ now <= since[k] + Slack
  BY <1>3, <1>4, <1>5 DEF Rotating
<1>9. Settled(k)'
  BY <1>1, <1>3, <1>5, <1>7, <1>8 DEF Settled
<1> QED
  BY <1>1, <1>4, <1>9 DEF RoundInv, Publishing

LEMMA KeeperRounds ==
  ASSUME LiveInv, NEW j \in Keepers, KeeperStep(j)
  PROVE  HostInv' /\ ClockInv' /\ \A k \in Keepers : RoundInv(k)'
<1>1. HostInv'
  BY KeeperSteps
<1>2. ClockInv'
  <2>1. UNCHANGED <<now, loop>>
    BY KeeperSteps DEF LoopKept
  <2>2. Living(j)' => now <= due'[j]
    <3> USE Constants DEF LiveInv, LeaseInv, TypeOK, ClockInv, Living
    <3>1. CASE StartKeeper(j)
      BY <3>1 DEF StartKeeper
    <3>2. CASE Wake(j)
      <4>1. kpc'[j] = "off" \/ due'[j] = now + Slack
        BY <3>2 DEF Wake, Leaves
      <4> QED
        BY <4>1
    <3>3. CASE TakeLock(j)
      <4>1. kpc[j] = "stamped" /\ (due' = due \/ due' = [due EXCEPT ![j] = now + Interval])
        BY <3>3 DEF TakeLock, Waits
      <4>2. CASE due' = due
        BY <4>1, <4>2
      <4>3. CASE due' = [due EXCEPT ![j] = now + Interval]
        BY <4>3
      <4> QED
        BY <4>1, <4>2, <4>3
    <3>4. CASE Retire(j) \/ Place(j)
      BY <3>4 DEF Retire, Place
    <3>5. CASE Fail(j) \/ Finish(j) \/ StopKeeper(j) \/ Crash(j)
      BY <3>5, SMTT(30) DEF Fail, Finish, StopKeeper, Crash, Waits, Leaves
    <3> QED
      BY <3>1, <3>2, <3>3, <3>4, <3>5 DEF KeeperStep
  <2> QED
    BY <2>1, <2>2, KeeperSteps DEF LiveInv, ClockInv, Living, loop
<1>3. RoundInv(j)'
  <2>1. CASE Fail(j)
    BY <2>1, Constants DEF Fail, RoundInv, Alone, LiveInv, LeaseInv, TypeOK
  <2>2. CASE StopKeeper(j) \/ Crash(j)
    BY <2>2 DEF StopKeeper, Crash, Leaves, RoundInv, Alone, Living, LiveInv, LeaseInv, TypeOK
  <2> QED
    BY <2>1, <2>2, StartRound, WakeRound, PublishRound, FinishRound DEF KeeperStep
<1> QED
  BY <1>1, <1>2, <1>3, OthersAct

LoopStep == Poll \/ ReadFirst \/ CheckReady \/ ReadSecond \/ Adopt \/ Decide \/ Serve

\* What a step of the loop leaves alone.
LEMMA LoopSteps ==
  ASSUME LiveInv, LoopStep
  PROVE  /\ UNCHANGED <<now, host>> /\ pc # "ended" /\ deadline <= deadline'
         /\ (~Poll => at' = at) /\ (Poll => at' = now)
         /\ HostInv' /\ ClockInv'
<1> USE Constants DEF LiveInv, LeaseInv
<1>1. UNCHANGED <<now, host>>
  BY DEF LoopStep, Poll, ReadFirst, CheckReady, ReadSecond, Adopt, Decide, Serve, FilesKept
<1>2. pc # "ended"
  BY DEF LoopStep, Poll, ReadFirst, CheckReady, ReadSecond, Adopt, Decide, Serve
<1>3. (~Poll => at' = at) /\ (Poll => at' = now)
  BY DEF LoopStep, Poll, ReadFirst, CheckReady, ReadSecond, Adopt, Decide, Serve
<1>4. deadline <= deadline'
  <2>1. CASE Poll \/ ReadFirst \/ CheckReady \/ ReadSecond \/ Decide
    <3>1. deadline' = deadline
      BY <2>1 DEF Poll, ReadFirst, CheckReady, ReadSecond, Decide
    <3> QED
      BY <3>1 DEF TypeOK
  <2>2. CASE Adopt
    <3>1. CASE Accepted /\ deadline < Expires(first)
      <4>1. deadline' = Expires(first)
        BY <2>2, <3>1 DEF Adopt, Larger
      <4>2. deadline < deadline'
        BY <3>1, <4>1
      <4>3. deadline \in Int /\ deadline' \in Int
        BY <2>2, AdoptInv DEF TypeOK
      <4> QED
        BY <4>2, <4>3
    <3>2. CASE ~(Accepted /\ deadline < Expires(first))
      <4>1. deadline' = deadline /\ deadline \in Int
        BY <2>2, <3>2 DEF Adopt, Larger, TypeOK
      <4> QED
        BY <4>1
    <3> QED
      BY <3>1, <3>2
  <2>3. CASE Serve
    BY <2>3 DEF Serve, Larger, TypeOK
  <2> QED
    BY <2>1, <2>2, <2>3 DEF LoopStep
<1>5. HostInv'
  BY <1>1 DEF HostInv, host
<1>6. ClockInv'
  <2>1. at' <= now' /\ (pc' # "ended" => now' <= at' + Stall)
    BY <1>1, <1>2, <1>3 DEF ClockInv, TypeOK
  <2>2. pc' \in {"top", "serve"} => first' = <<>> /\ again' = 0
    BY DEF LoopStep, Poll, ReadFirst, CheckReady, ReadSecond, Adopt, Decide, Serve, ClockInv
  <2>3. \A j \in Keepers : Living(j)' => now' <= due'[j]
    BY <1>1 DEF ClockInv, Living, host
  <2> QED
    BY <2>1, <2>2, <2>3 DEF ClockInv
<1> QED
  BY <1>1, <1>2, <1>3, <1>4, <1>5, <1>6

\* A publication under way does not depend on the loop.
LEMMA RotatingStays ==
  ASSUME LiveInv, LoopStep, NEW k \in Keepers, Rotating(k)
  PROVE  Rotating(k)'
<1>1. /\ UNCHANGED <<now, slot, stamp, due, since, kpc>> /\ pc # "ended"
      /\ deadline <= deadline'
  BY LoopSteps DEF host
<1>2. /\ deadline \in Int /\ deadline' \in Int /\ due[k] \in Int
  <2>1. LeaseInv'
    BY PollInv, ReadFirstInv, CheckReadyInv, ReadSecondInv, AdoptInv, DecideInv, ServeInv
    DEF LoopStep, LiveInv
  <2> QED
    BY <2>1, Constants DEF LiveInv, LeaseInv, TypeOK
<1> QED
  BY <1>1, <1>2, Constants DEF Rotating

\* Reading one more cell keeps what was read before it.
LEMMA OneMore ==
  ASSUME NEW s \in Seq(Cells), NEW c \in Cells
  PROVE  /\ Len(Append(s, c)) = Len(s) + 1 /\ Append(s, c)[Len(s) + 1] = c
         /\ \A i \in 1..Len(s) : Append(s, c)[i] = s[i]
  OBVIOUS

\* The packet of a round that is over, read by a poll that began after it, is read whole.
LEMMA WholePass ==
  ASSUME LiveInv, ReadsSlot, ReadFirst \/ CheckReady \/ ReadSecond, slot # None
  PROVE  ReadsSlot' /\ pc' \in {"read", "again"}
<1> USE DEF LiveInv, LeaseInv, FilesKept
<1>1. Cell(1)' = Cell(1) /\ Cell(2)' = Cell(2)
  BY DEF ReadFirst, CheckReady, ReadSecond, host, Cell
<1>2. first \in Seq(Cells) /\ again \in 0..2
  BY DEF PassInv, TypeOK
<1>3. CASE ReadFirst
  <2>1. /\ Len(first) < 2 /\ first' = Append(first, Cell(Len(first) + 1))
        /\ pc' = "read"
    BY <1>3 DEF ReadFirst
  <2>2. Cell(Len(first) + 1) \in Cells /\ Len(first) \in Nat
    <3>1. Cell(1) \in Cells /\ Cell(2) \in Cells
      BY CellSeen DEF Cells
    <3> QED
      BY <1>2, <2>1, <3>1
  <2>3. /\ Len(first') = Len(first) + 1 /\ first'[Len(first) + 1] = Cell(Len(first) + 1)
        /\ \A i \in 1..Len(first) : first'[i] = first[i]
    BY <1>2, <2>1, <2>2, OneMore
  <2>4. CASE Len(first) = 0
    BY <1>1, <2>1, <2>3, <2>4 DEF ReadsSlot
  <2>5. CASE Len(first) = 1
    <3>1. first'[1] = Cell(1) /\ first'[2] = Cell(2)
      BY <2>3, <2>5 DEF ReadsSlot
    <3> QED
      BY <1>1, <2>1, <2>3, <2>5, <3>1 DEF ReadsSlot
  <2> QED
    <3> DEFINE n == Len(first)
    <3>1. n \in Nat /\ n < 2
      BY <2>1, <2>2
    <3> HIDE DEF n
    <3>2. n = 0 \/ n = 1
      BY <3>1
    <3> QED
      BY <2>4, <2>5, <3>2 DEF n
<1>4. CASE CheckReady
  BY <1>1, <1>4 DEF CheckReady, ReadsSlot
<1>5. CASE ReadSecond
  <2>1. pc = "again" /\ Len(first) = 2 /\ again \in {0, 1} /\ first' = first
    BY <1>2, <1>5 DEF ReadSecond, PassInv
  <2>2. Unchanged(again + 1)
    BY <2>1 DEF Unchanged, ReadsSlot
  <2>3. pc' = "again"
    BY <1>5, <2>1, <2>2 DEF ReadSecond
  <2> QED
    BY <1>1, <2>1, <2>3 DEF ReadsSlot
<1> QED
  BY <1>3, <1>4, <1>5

\* A packet that was read whole is adopted.
LEMMA WholeAdopted ==
  ASSUME LiveInv, ReadsSlot, Adopt, slot # None, slot >= at, slot <= at + Lease + 2
  PROVE  deadline' >= slot
<1>1. slot \in Nat /\ deadline \in Int
  BY Constants DEF LiveInv, LeaseInv, TypeOK
<1>2. first[1] = Cell(1) /\ first[2] = Cell(2)
  BY SMTT(30) DEF Adopt, LiveInv, LeaseInv, PassInv, ReadsSlot
<1>3. first[1] = slot % Base /\ first[2] = <<slot \div Base, Adler(Digits(slot))>>
  BY <1>2 DEF Cell, Packet, Digits
<1>4. Expires(first) = slot
  BY <1>1, <1>3, DigitsAdd DEF Expires
<1>5. Intact(first)
  BY <1>3 DEF Intact, Digits
<1>6. Accepted
  BY <1>4, <1>5 DEF Accepted
<1> QED
  BY <1>1, <1>4, <1>6 DEF Adopt, Larger

\* A round that is over stays within reach of the loop.
LEMMA SettledStays ==
  ASSUME LiveInv, LoopStep, NEW k \in Keepers, Alone(k), Settled(k)
  PROVE  Settled(k)'
<1> USE Constants, TimingAssumption
<1> DEFINE finished == due[k] - Interval
<1>1. /\ UNCHANGED <<now, slot, due, since>> /\ pc # "ended"
      /\ deadline <= deadline' /\ (~Poll => at' = at) /\ (Poll => at' = now)
  BY LoopSteps DEF host
<1>2. LeaseInv'
  BY PollInv, ReadFirstInv, CheckReadyInv, ReadSecondInv, AdoptInv, DecideInv, ServeInv
  DEF LoopStep, LiveInv
<1>3. /\ now \in Int /\ at \in Int /\ at' \in Int /\ deadline \in Int /\ deadline' \in Int
      /\ since[k] \in Int /\ finished \in Int /\ slot \in Int
  <2>1. /\ now \in Int /\ at \in Int /\ deadline \in Int /\ since[k] \in Int /\ due[k] \in Int
        /\ slot \in Int
    BY DEF LiveInv, LeaseInv, TypeOK, Settled
  <2>2. at' \in Int /\ deadline' \in Int
    BY <1>2 DEF LeaseInv, TypeOK
  <2> QED
    BY <2>1, <2>2
<1>4. /\ slot # None /\ finished <= now
      /\ slot \in (finished - Slack + 1 + Lease)..(finished + 1 + Lease)
      /\ deadline >= slot \/ at <= finished + Stall
      /\ \/ deadline >= finished - 2 * Slack - Interval + 1 + Lease
         \/ finished <= since[k] + Slack
      /\ at > finished =>
            IF pc \in {"read", "again"} THEN ReadsSlot ELSE deadline >= slot
  BY <1>1 DEF Settled
<1>5. at <= now /\ now <= at + Stall /\ now <= finished + Interval
  <2>1. now <= due[k] /\ due[k] \in Int
    BY DEF LiveInv, LeaseInv, TypeOK, ClockInv, Alone
  <2>2. now <= finished + Interval
    BY <1>3, <2>1
  <2> QED
    BY <1>1, <2>2 DEF LiveInv, ClockInv
<1>6. deadline' >= slot \/ at' <= finished + Stall
  <2>1. CASE Poll
    <3>1. at <= finished \/ deadline >= slot
      BY <1>3, <1>4, <2>1 DEF Poll
    <3> QED
      BY <1>1, <1>3, <1>5, <2>1, <3>1
  <2>2. CASE ~Poll
    BY <1>1, <1>3, <1>4, <2>2
  <2> QED
    BY <2>1, <2>2
<1>7. \/ deadline' >= finished - 2 * Slack - Interval + 1 + Lease
      \/ finished <= since[k] + Slack
  BY <1>1, <1>3, <1>4
<1>8. ASSUME pc' # "ended", at' > finished
      PROVE  IF pc' \in {"read", "again"} THEN ReadsSlot' ELSE deadline' >= slot
  <2>1. CASE Poll
    <3>1. CASE now = at
      <4>1. pc' = "decide" /\ pc = "top" /\ at > finished
        BY <1>1, <1>8, <2>1, <3>1 DEF Poll
      <4>2. deadline >= slot
        BY <1>4, <4>1
      <4> QED
        BY <1>1, <1>3, <4>1, <4>2
    <3>2. CASE now # at
      <4>1. first = <<>> /\ first' = first /\ pc' = "read"
        BY <1>4, <2>1, <3>2 DEF Poll, LiveInv, ClockInv
      <4>2. ReadsSlot'
        <5>1. Len(first') = 0
          BY <4>1
        <5> QED
          BY <5>1 DEF ReadsSlot
      <4> QED
        BY <4>1, <4>2
    <3> QED
      BY <3>1, <3>2
  <2>2. CASE ReadFirst \/ CheckReady \/ ReadSecond
    <3>1. at > finished /\ pc \in {"read", "again"}
      BY <1>1, <1>8, <2>2 DEF ReadFirst, CheckReady, ReadSecond, Poll
    <3>2. ReadsSlot
      BY <1>4, <3>1
    <3> QED
      BY <1>4, <2>2, <3>2, WholePass
  <2>3. CASE Adopt
    <3>1. at > finished /\ pc = "again" /\ pc' = "decide"
      BY <1>1, <1>8, <2>3 DEF Adopt, Poll
    <3>2. ReadsSlot
      BY <1>4, <3>1
    <3>3. slot >= at /\ slot <= at + Lease + 2
      BY <1>3, <1>4, <1>5, <3>1
    <3> QED
      BY <1>4, <2>3, <3>1, <3>2, <3>3, WholeAdopted
  <2>4. CASE Decide \/ Serve
    <3>1. at > finished /\ pc \notin {"read", "again"} /\ pc' \notin {"read", "again"}
      BY <1>1, <1>8, <2>4 DEF Decide, Serve, Poll
    <3>2. deadline >= slot
      BY <1>4, <3>1
    <3> QED
      BY <1>1, <1>3, <3>1, <3>2
  <2> QED
    BY <2>1, <2>2, <2>3, <2>4 DEF LoopStep
<1> QED
  BY <1>1, <1>3, <1>4, <1>6, <1>7, <1>8 DEF Settled

\* The loop ends under no server that has been there for a lease.
LEMMA LoopRound ==
  ASSUME LiveInv, LoopStep, NEW k \in Keepers
  PROVE  RoundInv(k)'
<1> USE Constants, TimingAssumption
<1> SUFFICES ASSUME Alone(k)' PROVE RoundInv(k)'
  BY DEF RoundInv
<1>1. UNCHANGED <<now, slot, kpc, due, since, failures>> /\ pc # "ended" /\ (~Poll => at' = at)
  BY LoopSteps DEF host
<1>2. Alone(k)
  BY <1>1 DEF Alone, Living
<1>3. /\ 0 <= since[k] /\ since[k] <= now
      /\ kpc[k] = "wait" => due[k] = since[k] \/ Settled(k)
      /\ kpc[k] \in {"stamped"} \cup Publishing => Rotating(k)
  BY <1>2 DEF LiveInv, RoundInv
<1>4. /\ now \in Int /\ at \in Int /\ deadline \in Int /\ since[k] \in Int /\ due[k] \in Int
      /\ slot # None => slot \in Int
  BY DEF LiveInv, LeaseInv, TypeOK
<1>5. at <= now /\ now <= due[k]
  BY <1>2 DEF LiveInv, ClockInv, Alone
<1>6. ASSUME pc' = "ended" PROVE at' - since'[k] < Lease
  <2>1. Decide /\ at' = at /\ since' = since /\ at >= deadline /\ pc = "decide"
    <3>1. Decide
      BY <1>1, <1>6 DEF LoopStep, Poll, ReadFirst, CheckReady, ReadSecond, Adopt, Serve
    <3>2. at' = at /\ pc = "decide" /\ ~(at < deadline)
      BY <1>6, <3>1 DEF Decide
    <3> QED
      BY <1>1, <1>4, <3>1, <3>2
  <2>2. CASE kpc[k] = "wait" /\ due[k] = since[k]
    BY <1>4, <1>5, <2>1, <2>2
  <2>3. CASE kpc[k] = "wait" /\ Settled(k)
    <3>1. /\ slot # None /\ slot >= due[k] - Interval - Slack + 1 + Lease
          /\ \/ deadline >= due[k] - Interval - 2 * Slack - Interval + 1 + Lease
             \/ due[k] - Interval <= since[k] + Slack
          /\ at > due[k] - Interval => deadline >= slot
      BY <1>4, <2>1, <2>3 DEF Settled
    <3> QED
      BY <1>4, <1>5, <2>1, <3>1
  <2>4. CASE kpc[k] \in {"stamped"} \cup Publishing
    <3>1. \/ deadline >= due[k] - 2 * Slack - Interval + 1 + Lease
          \/ due[k] <= since[k] + Slack
      BY <1>1, <1>3, <2>4 DEF Rotating
    <3> QED
      BY <1>4, <1>5, <2>1, <3>1
  <2>5. kpc[k] = "wait" \/ kpc[k] \in {"stamped"} \cup Publishing
    BY <1>2 DEF Alone, Living, Publishing, LiveInv, LeaseInv, TypeOK
  <2> QED
    BY <1>3, <2>2, <2>3, <2>4, <2>5
<1> QED
  BY <1>1, <1>2, <1>3, <1>6, SettledStays, RotatingStays DEF RoundInv

\* Nothing else moves but the clock, which waits for the keepers and the loop.
LEMMA OthersLive ==
  ASSUME LiveInv,
         \/ \E i \in Requests : Publish(i)
         \/ Clear \/ Tick \/ UNCHANGED vars
  PROVE  HostInv' /\ ClockInv' /\ \A k \in Keepers : RoundInv(k)'
<1> USE Constants
<1>1. UNCHANGED <<host, loop>> /\ now \in Int /\ now' \in Int /\ now <= now'
  BY DEF Publish, Clear, Tick, vars, LiveInv, LeaseInv, TypeOK
<1>2. HostInv'
  BY <1>1 DEF HostInv, host, LiveInv
<1>3. ClockInv'
  <2>1. CASE Tick
    <3>1. at \in Int /\ \A j \in Keepers : due[j] \in Int
      BY DEF LiveInv, LeaseInv, TypeOK
    <3>2. now' = now + 1 /\ (pc # "ended" => now - at < Stall)
          /\ \A j \in Keepers : Living(j) => due[j] > now
      BY <2>1 DEF Tick
    <3> QED
      BY <1>1, <3>1, <3>2 DEF LiveInv, ClockInv, host, loop, Living
  <2>2. CASE ~Tick
    <3>1. now' = now
      BY <2>2 DEF Publish, Clear, vars
    <3> QED
      BY <1>1, <3>1 DEF LiveInv, ClockInv, host, loop, Living
  <2> QED
    BY <2>1, <2>2
<1>4. ASSUME NEW k \in Keepers, Alone(k)' PROVE RoundInv(k)'
  <2>1. /\ UNCHANGED <<slot, kpc, stamp, due, since, failures, pc, at, first, deadline>>
    BY <1>1 DEF host, loop
  <2>2. Alone(k)
    BY <1>4, <2>1 DEF Alone, Living
  <2>3. /\ 0 <= since[k] /\ since[k] <= now /\ (pc = "ended" => at - since[k] < Lease)
        /\ kpc[k] = "wait" => due[k] = since[k] \/ Settled(k)
        /\ kpc[k] \in {"stamped"} \cup Publishing => Rotating(k)
    BY <2>2 DEF LiveInv, RoundInv
  <2>4. since[k] \in Int /\ due[k] \in Int
    BY DEF LiveInv, LeaseInv, TypeOK
  <2>5. Settled(k) => Settled(k)'
    BY <1>1, <2>1, <2>4 DEF Settled, ReadsSlot, Cell
  <2>6. Rotating(k) => Rotating(k)'
    BY <1>1, <2>1, <2>4 DEF Rotating
  <2> QED
    BY <1>1, <2>1, <2>3, <2>4, <2>5, <2>6 DEF RoundInv
<1> QED
  BY <1>2, <1>3, <1>4 DEF RoundInv

LEMMA InitLive == ASSUME Init PROVE LiveInv
<1> USE Constants
<1>1. \A j \in Keepers : since[j] = -1 /\ kpc[j] = "off"
  BY DEF Init
<1>2. lock = None /\ lost = FALSE /\ now = 0 /\ at = -1 /\ first = <<>> /\ again = 0
  BY DEF Init
<1>3. HostInv
  BY <1>1, <1>2 DEF HostInv
<1>4. ClockInv
  BY <1>1, <1>2 DEF ClockInv, Living
<1>5. \A k \in Keepers : RoundInv(k)
  BY <1>1 DEF RoundInv, Alone, Living
<1> QED
  BY <1>3, <1>4, <1>5, InitInv DEF LiveInv

LEMMA NextLive == ASSUME LiveInv, [Next]_vars PROVE LiveInv'
<1>1. CASE \E j \in Keepers : KeeperStep(j)
  <2>1. LeaseInv'
    BY <1>1, StartKeeperInv, WakeInv, TakeLockInv, RetireInv, PlaceInv, FailInv, FinishInv,
       StopKeeperInv, CrashInv DEF KeeperStep, LiveInv
  <2> QED
    BY <1>1, <2>1, KeeperRounds DEF LiveInv
<1>2. CASE LoopStep
  <2>1. LeaseInv'
    BY <1>2, PollInv, ReadFirstInv, CheckReadyInv, ReadSecondInv, AdoptInv, DecideInv, ServeInv
    DEF LoopStep, LiveInv
  <2> QED
    BY <1>2, <2>1, LoopSteps, LoopRound DEF LiveInv
<1>3. CASE \/ \E i \in Requests : Publish(i)
           \/ Clear \/ Tick \/ UNCHANGED vars
  <2>1. LeaseInv'
    BY <1>3, OthersInv DEF LiveInv
  <2> QED
    BY <1>3, <2>1, OthersLive DEF LiveInv
<1> QED
  BY <1>1, <1>2, <1>3 DEF Next, KeeperStep, LoopStep

\* The loop does not end under a server that has been there for a whole lease, when no
\* other server ever came and no renewal failed: every rotation is over well before the
\* lease it replaces, and the first poll that begins after it reads the new packet whole.
THEOREM LiveServerIsKept == Spec => []LiveServerKeepsLoop
<1>1. LiveInv => LiveServerKeepsLoop
  <2> SUFFICES ASSUME LiveInv PROVE LiveServerKeepsLoop
    OBVIOUS
  <2>1. failures \in Nat
    BY Constants DEF LiveInv, LeaseInv, TypeOK
  <2>2. ASSUME NEW k \in Keepers, Alone(k), pc = "ended" PROVE at - since[k] < Lease
    BY <2>2 DEF LiveInv, RoundInv
  <2> QED
    BY <2>1, <2>2 DEF LiveServerKeepsLoop, Alone
<1>2. Init => LiveInv
  BY InitLive
<1>3. LiveInv /\ [Next]_vars => LiveInv'
  BY NextLive
<1> QED
  BY <1>1, <1>2, <1>3, PTL DEF Spec
=============================================================================
