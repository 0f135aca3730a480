---------------------------- MODULE MarkerLease ----------------------------
(***************************************************************************)
(* The lease that keeps the Lua loop inside Resolve running while an MCP   *)
(* server lives.  Lease keepers on the host (MarkerLeaseKeeper, one per    *)
(* server) rotate the directory lease/, one at a time under                *)
(* lease-publish.lock; the loop (ResolveLuaMarkerReader.lua) can only test *)
(* whether a file exists, so it reads the packet piece by piece while the  *)
(* directory may be renamed under it, and ends when its deadline passes.   *)
(*                                                                         *)
(* Time is a discrete clock.  A packet is two cells, the low digit of the  *)
(* stamp, and its high digit with the Adler-32 pair; a cell of an absent   *)
(* directory reads as zeros.  The eight bytes of the code, each of eight   *)
(* files, are torn in the same way as these cells.                         *)
(***************************************************************************)
EXTENDS Integers, Sequences, FiniteSets

CONSTANTS
    Keepers,        \* lease keepers of MCP servers
    Requests,       \* ids of requests in the inbox
    None,           \* nobody, no packet
    Lease,          \* lease_seconds
    Interval,       \* between two renewals: min(30, lease_seconds / 3)
    Slack,          \* longest time between the stamp of a renewal and its end
    Stall,          \* longest time the loop spends between two looks at its clock
    Base,           \* values of a digit
    MaxTime,        \* bound on the clock
    MaxFailures     \* bound on the publications that fail

ASSUME LeaseAssumption ==
    /\ Lease \in Nat \ {0} /\ Interval \in Nat \ {0} /\ Interval <= Lease
    /\ Slack \in Nat /\ Stall \in Nat \ {0}
    /\ Base \in Nat \ {0} /\ MaxTime + Lease + 1 < Base * Base
    /\ MaxTime \in Nat /\ MaxFailures \in Nat
    /\ None \notin Keepers \cup Requests \cup 0..(MaxTime + Lease + 1)

\* A publication, and the time between two looks of the loop at its clock, are short
\* against the interval.
ASSUME TimingAssumption == 2 * Stall < Interval /\ Interval + 2 * Slack <= Lease

VARIABLES
    now,
    \* files
    slot,           \* the stamp in lease/, None while the directory is absent
    lock,           \* the keeper whose lease-publish.lock exists
    inbox,          \* the id of the request in inbox/
    stopped,        \* stopped.json
    \* the keepers
    kpc, stamp, due,
    since,          \* when a keeper was entered, -1 before
    retired,        \* the stamp in the lock holder's .lease-retired- directory
    \* the loop
    pc,
    at,             \* its last look at the clock, -1 before the first
    first,          \* the cells of the first pass
    again,          \* how many cells the second pass found unchanged
    deadline, renewed,
    \* history
    granted,        \* the latest instant anybody granted the loop
    failures,       \* publications that failed
    lost            \* a publication failed and could not restore the slot

host    == <<slot, lock, kpc, stamp, due, since, retired, failures, lost>>
loop    == <<pc, at, first, again, deadline, renewed, stopped>>
vars    == <<now, host, loop, inbox, granted>>

Larger(a, b) == IF a < b THEN b ELSE a

-----------------------------------------------------------------------------
(* The packet. *)

Digits(s) == <<s % Base, s \div Base>>

\* zlib.adler32 and the reader's adler(): the running sums of the digits.
Adler(d) == <<1 + d[1] + d[2], 2 + 2 * d[1] + d[2]>>

Packet(s) == <<Digits(s)[1], <<Digits(s)[2], Adler(Digits(s))>>>>

\* What the loop finds where cell i of the packet would be.
Cell(i) == IF slot = None THEN <<0, <<0, <<0, 0>>>>>>[i] ELSE Packet(slot)[i]

Expires(p) == p[1] + Base * p[2][1]
Intact(p) == p[2][2] = Adler(<<p[1], p[2][1]>>)

-----------------------------------------------------------------------------

TypeOK ==
    /\ now \in 0..MaxTime
    /\ slot \in (0..(MaxTime + Lease + 1)) \cup {None}
    /\ lock \in Keepers \cup {None}
    /\ inbox \in Requests \cup {None}
    /\ stopped \in BOOLEAN
    /\ kpc \in [Keepers -> {"off", "wait", "stamped", "staging", "retired",
                            "placed", "dead"}]
    /\ stamp \in [Keepers -> 0..(MaxTime + Lease + 1)]
    /\ due \in [Keepers -> 0..(MaxTime + Interval + Slack)]
    /\ since \in [Keepers -> (-1)..MaxTime]
    /\ retired \in (0..(MaxTime + Lease + 1)) \cup {None}
    /\ pc \in {"top", "read", "again", "decide", "serve", "ended"}
    /\ at \in (-1)..MaxTime
    /\ Len(first) <= 2 /\ again \in 0..2
    /\ deadline \in 0..(MaxTime + Lease + 1)
    /\ renewed \subseteq Requests
    /\ granted \in 0..(MaxTime + Lease + 1)
    /\ failures \in 0..MaxFailures /\ lost \in BOOLEAN

\* prepare_marker published a first lease and the loop has just started.
Init ==
    /\ now = 0
    /\ slot = Lease + 1 /\ lock = None /\ inbox = None /\ stopped = FALSE
    /\ kpc = [k \in Keepers |-> "off"] /\ stamp = [k \in Keepers |-> 0]
    /\ due = [k \in Keepers |-> 0] /\ since = [k \in Keepers |-> -1]
    /\ retired = None
    /\ pc = "top" /\ at = -1 /\ first = <<>> /\ again = 0
    /\ deadline = Lease /\ renewed = {}
    /\ granted = Lease + 1 /\ failures = 0 /\ lost = FALSE

-----------------------------------------------------------------------------
(* The keepers: MarkerLeaseKeeper and publish_lease. *)

Living(k) == kpc[k] \notin {"off", "dead"}

\* Seeded fault in Waits: the interval counts from the stamp.
WaitsFromStamp(k) ==
    /\ kpc' = [kpc EXCEPT ![k] = "wait"]
    /\ due' = [due EXCEPT ![k] = stamp[k] + Interval]
    /\ stamp' = [stamp EXCEPT ![k] = 0]

Waits(k) ==
    /\ kpc' = [kpc EXCEPT ![k] = "wait"]
    /\ due' = [due EXCEPT ![k] = now + Interval]
    /\ stamp' = [stamp EXCEPT ![k] = 0]

Leaves(k, how) ==
    /\ kpc' = [kpc EXCEPT ![k] = how]
    /\ due' = [due EXCEPT ![k] = 0]
    /\ stamp' = [stamp EXCEPT ![k] = 0]
    /\ since' = [since EXCEPT ![k] = 0]

LoopKept == UNCHANGED <<now, loop, inbox>>

\* A server enters its keeper, whose first renewal is due at once.
StartKeeper(k) ==
    /\ since[k] = -1 /\ since' = [since EXCEPT ![k] = now]
    /\ kpc' = [kpc EXCEPT ![k] = "wait"] /\ due' = [due EXCEPT ![k] = now]
    /\ UNCHANGED <<slot, lock, stamp, retired, failures, lost, granted>> /\ LoopKept

\* The wait is over: the keeper ends when the loop has stopped, else it takes
\* the time, rounded up, before it asks for the lock.
Wake(k) ==
    /\ kpc[k] = "wait" /\ due[k] <= now
    /\ \/ stopped /\ Leaves(k, "off")
       \/ /\ ~stopped /\ kpc' = [kpc EXCEPT ![k] = "stamped"] /\ UNCHANGED since
          /\ stamp' = [stamp EXCEPT ![k] = now + 1 + Lease]
          /\ due' = [due EXCEPT ![k] = now + Slack]
    /\ UNCHANGED <<slot, lock, retired, failures, lost, granted>> /\ LoopKept

\* open("x"); a lock that exists makes renew() return without a word.
TakeLock(k) ==
    /\ kpc[k] = "stamped"
    /\ \/ /\ lock = None /\ lock' = k
          /\ kpc' = [kpc EXCEPT ![k] = "staging"] /\ UNCHANGED <<stamp, due>>
       \/ lock # None /\ Waits(k) /\ UNCHANGED lock
    /\ UNCHANGED <<slot, since, retired, failures, lost, granted>> /\ LoopKept

\* The packet is staged in a private directory; lease/ is renamed away.
Retire(k) ==
    /\ kpc[k] = "staging" /\ kpc' = [kpc EXCEPT ![k] = "retired"]
    /\ retired' = slot /\ slot' = None
    /\ UNCHANGED <<lock, stamp, due, since, failures, lost, granted>> /\ LoopKept

\* The staged directory becomes lease/.
Place(k) ==
    /\ kpc[k] = "retired" /\ kpc' = [kpc EXCEPT ![k] = "placed"]
    /\ slot' = stamp[k] /\ granted' = Larger(granted, stamp[k])
    /\ UNCHANGED <<lock, stamp, due, since, retired, failures, lost>> /\ LoopKept

\* What a failed publication leaves in lease/: before the first rename all is
\* as it was; after it, the retired directory is renamed back.
Restored(k) == IF kpc[k] = "staging" THEN slot ELSE retired

\* Staging or a rename fails: the finally clauses remove the stage and the lock.
\* The rename that should bring the retired directory back may fail as well.
Fail(k) ==
    /\ kpc[k] \in {"staging", "retired"} /\ failures < MaxFailures
    /\ failures' = failures + 1 /\ lock' = None /\ retired' = None /\ Waits(k)
    /\ \/ slot' = Restored(k) /\ UNCHANGED lost
       \/ kpc[k] = "retired" /\ UNCHANGED slot /\ lost' = TRUE
    /\ UNCHANGED <<since, granted>> /\ LoopKept

\* Seeded fault in Finish: the lock is not removed.
FinishKeepsLock(k) ==
    /\ kpc[k] = "placed" /\ retired' = None /\ Waits(k)
    /\ UNCHANGED <<slot, lock, since, failures, lost, granted>> /\ LoopKept

\* The retired directory and the lock are removed.
Finish(k) ==
    /\ kpc[k] = "placed" /\ lock' = None /\ retired' = None /\ Waits(k)
    /\ UNCHANGED <<slot, since, failures, lost, granted>> /\ LoopKept

\* The server leaves its keeper, or dies while the keeper holds nothing.
StopKeeper(k) ==
    /\ kpc[k] \in {"wait", "stamped"} /\ Leaves(k, "off")
    /\ UNCHANGED <<slot, lock, retired, failures, lost, granted>> /\ LoopKept

\* The process of the server dies in a publication: its lock stays.
Crash(k) ==
    /\ kpc[k] \in {"staging", "retired", "placed"} /\ Leaves(k, "dead")
    /\ UNCHANGED <<slot, lock, retired, failures, lost, granted>> /\ LoopKept

-----------------------------------------------------------------------------
(* The loop: is_alive() with poll_lease(), then read_request(). *)

FilesKept == UNCHANGED <<now, host, inbox, granted>>

\* is_alive() looks at the clock; the packet is read at most once per second,
\* and only while ready.marker is there.
Poll ==
    /\ pc = "top" /\ at' = now
    /\ pc' = IF now = at \/ slot = None THEN "decide" ELSE "read"
    /\ UNCHANGED <<first, again, deadline, renewed, stopped>> /\ FilesKept

\* The first pass over the packet; then ready.marker must still be there.
ReadFirst ==
    /\ pc = "read" /\ Len(first) < 2
    /\ first' = Append(first, Cell(Len(first) + 1))
    /\ UNCHANGED <<pc, at, again, deadline, renewed, stopped>> /\ FilesKept

CheckReady ==
    /\ pc = "read" /\ Len(first) = 2
    /\ pc' = IF slot = None THEN "decide" ELSE "again"
    /\ UNCHANGED <<at, first, again, deadline, renewed, stopped>> /\ FilesKept

\* The second pass must find every cell as it was.
Unchanged(i) == Cell(i) = first[i]

ReadSecond ==
    /\ pc = "again" /\ again < 2
    /\ IF Unchanged(again + 1) THEN again' = again + 1 /\ UNCHANGED pc
       ELSE pc' = "decide" /\ UNCHANGED again
    /\ UNCHANGED <<at, first, deadline, renewed, stopped>> /\ FilesKept

\* Then the packet counts when its checksum is right and its stamp is near.
Accepted ==
    /\ Intact(first)
    /\ Expires(first) >= at /\ Expires(first) <= at + Lease + 2

Adopt ==
    /\ pc = "again" /\ again = 2 /\ pc' = "decide"
    /\ deadline' = IF Accepted THEN Larger(deadline, Expires(first)) ELSE deadline
    /\ UNCHANGED <<at, first, again, renewed, stopped>> /\ FilesKept

\* now < deadline: one more iteration, or the loop writes stopped.json and ends.
Decide ==
    /\ pc = "decide"
    /\ pc' = IF at < deadline THEN "serve" ELSE "ended"
    /\ stopped' = (at >= deadline)
    /\ first' = <<>> /\ again' = 0
    /\ UNCHANGED <<at, deadline, renewed>> /\ FilesKept

\* Seeded fault in Renews: every sight of a request renews.
RenewsAgain(i) == i # None

Renews(i) == i # None /\ i \notin renewed

\* read_request(): a valid request renews the deadline the first time it is
\* seen.  Carrying it out may take as long as the clock is allowed to run.
Serve ==
    /\ pc = "serve" /\ pc' = "top"
    /\ IF Renews(inbox)
       THEN /\ renewed' = renewed \cup {inbox}
            /\ deadline' = Larger(deadline, now + Lease)
       ELSE UNCHANGED <<renewed, deadline>>
    /\ granted' = IF inbox \in Requests \ renewed
                  THEN Larger(granted, now + Lease) ELSE granted
    /\ UNCHANGED <<now, host, inbox, at, first, again, stopped>>

-----------------------------------------------------------------------------
(* The inbox and the clock. *)

\* A client publishes a request, or clears it after its answer or a timeout.
Publish(i) ==
    /\ inbox = None /\ i \notin renewed /\ inbox' = i
    /\ UNCHANGED <<now, host, loop, granted>>

Clear ==
    /\ inbox # None /\ inbox' = None
    /\ UNCHANGED <<now, host, loop, granted>>

\* Time does not pass a living keeper's due time nor the loop's next look at
\* the clock: keepers and loop are slow by Slack and Stall at most.
Tick ==
    /\ now < MaxTime
    /\ \A k \in Keepers : Living(k) => due[k] > now
    /\ pc # "ended" => now - at < Stall
    /\ now' = now + 1
    /\ UNCHANGED <<host, loop, inbox, granted>>

Next ==
    \/ \E k \in Keepers :
          \/ StartKeeper(k) \/ Wake(k) \/ TakeLock(k) \/ Retire(k) \/ Place(k)
          \/ Fail(k) \/ Finish(k) \/ StopKeeper(k) \/ Crash(k)
    \/ Poll \/ ReadFirst \/ CheckReady \/ ReadSecond \/ Adopt \/ Decide \/ Serve
    \/ \E i \in Requests : Publish(i)
    \/ Clear \/ Tick

Spec == Init /\ [][Next]_vars

-----------------------------------------------------------------------------
(* Properties *)

\* The loop never runs past the latest instant anybody granted it: its start or
\* the first sight of a request plus the lease, or a stamp that was in lease/.
\* A packet torn by a rotation, and an old request left in the inbox, grant
\* nothing, so the loop ends within a lease once its servers are gone.
NeverPastGrant == deadline <= granted

\* A publication that fails while it rotates leaves the earlier lease in place,
\* unless the rename back failed too: without a dead server the loop finds a
\* lease whenever nobody holds the lock.
FailureKeepsLease == (lock = None /\ ~lost) => slot # None

\* The lease that the loop reads is there, and grants no more than was granted.
LeaseIsHonest == NeverPastGrant /\ FailureKeepsLease

\* The loop does not end under a server that has been there for a whole lease,
\* unless a renewal failed: no rotation that collides with a poll ends it.  Two
\* servers whose rotations meet one poll each, second by second, could; and so
\* does a server that died with the lock, which the others take for busy.
LiveServerKeepsLoop ==
    pc = "ended" =>
        \A k \in Keepers :
            \/ ~Living(k) \/ at - since[k] < Lease
            \/ failures > 0
            \/ \E other \in Keepers \ {k} : since[other] # -1
=============================================================================
