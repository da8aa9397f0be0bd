---------------------------- MODULE SystemProofs ----------------------------
(***************************************************************************)
(* Hot plugging and drive sessions for every set of disks, numbers and     *)
(* letters, every number of sessions and every order of events: no request *)
(* reaches a system disk, and one that misses the planned or the chosen    *)
(* disk does so only because that disk has been unplugged.                 *)
(*                                                                         *)
(* The argument is about sightings: whatever the program remembers of a    *)
(* number was right when it was read, stays right while the disk is not    *)
(* unplugged, and stays right for ever at the number of a system disk.     *)
(*                                                                         *)
(* What results claim is true only if the native library never returns 0   *)
(* for a refused request: the two theorems about claims assume             *)
(* ~StaleLastError, the others hold without it.                            *)
(***************************************************************************)
EXTENDS System, TLAPS

-----------------------------------------------------------------------------
(* The inductive invariant.                                                *)

\* What a remembered number still says about the present.
Known(x) ==
  /\ x.stint <= unplugged[x.device]
  /\ Settled(x) => attached[x.number] = x.device
  /\ attached[x.number] \in SystemDisks => x.device = attached[x.number]

KnownSnapshot(s) == \A n \in ListedNumbers(s) : Known(Sighting(s, n))

SystemDisksStay == \A d \in SystemDisks : \E n \in Numbers : attached[n] = d

Memory ==
  /\ KnownSnapshot(cache) /\ KnownSnapshot(review) /\ KnownSnapshot(drives)
  /\ \A x \in picks \cup request : Known(x)
  /\ \A p \in plans : Known(p.sight) /\ Known(p.pick)

\* A number is picked, requested and planned once.
OnePerNumber ==
  /\ \A x, y \in picks : x.number = y.number => x = y
  /\ \A x, y \in request : x.number = y.number => x = y
  /\ \A p, q \in plans : p.sight.number = q.sight.number => p = q
  /\ \A p \in plans : p.pick.number = p.sight.number

\* A request is sent only for a plan that is not blocked.
Requesting ==
  /\ pc \in {"native", "winapi"} => ~dry /\ \A p \in plans : Current(p) => ~Blocked(p)
  /\ pc # "winapi" => hits = {}

\* Disk d was reached for plan p: it is the right one, or that one was unplugged.
Excused(x, d) == d = x.device \/ x.stint < unplugged[x.device]
Meant(p, d) == Excused(p.sight, d) /\ Excused(p.pick, d)

Reaching ==
  /\ \A p \in plans : Current(p) => \A d \in hits : Meant(p, d)
  /\ \A a \in results : \A d \in a.hits : Meant(a.plan, d)

\* What a result claims of a disk that has not been unplugged, unless codes of
\* refused requests get lost.
Claiming ==
  \A a \in results :
    ~StaleLastError /\ a.result.assurance_achieved \in ErasureClaims
      => a.plan.sight.stint < unplugged[a.plan.sight.device]
           \/ data[a.plan.sight.device] = "erased"

IInv == /\ TypeOK /\ SystemDisksStay /\ Memory /\ OnePerNumber /\ Requesting
        /\ Reaching /\ Claiming /\ SystemDisksSurvive

-----------------------------------------------------------------------------
(* Facts about the policy.                                                 *)

\* A plan that may send a request is not for a system disk.
LEMMA UnblockedIsNoSystemDisk ==
  ASSUME NEW p \in Plans, ~dry, ~Blocked(p)
  PROVE  p.sight.device \notin SystemDisks
<1>1. p.sight.device \in Devices /\ PlanOf(p).executable
  BY DEF Plans, Sightings, Blocked
<1>2. DriveExecutable(Facts[p.sight.device])
  BY <1>1 DEF PlanOf, CreateDrivePlan
<1> QED
  BY <1>2 DEF DriveExecutable, SystemDisks

\* A plan carries a level of the enumeration.
LEMMA PlannedLevel ==
  ASSUME NEW p \in Plans
  PROVE  PlanOf(p).assurance_target \in AssuranceLevel
BY DEF PlanOf, CreateDrivePlan, DriveAssurance, AssuranceLevel

\* A plan that claims erasure is for a disk that erases when it accepts.
LEMMA ClaimedDiskIsTrustworthy ==
  ASSUME NEW p \in Plans, PlanOf(p).assurance_target \in ErasureClaims
  PROVE  TrustworthyPath(Facts[p.sight.device])
<1>1. DriveAssurance(Facts[p.sight.device]) \in ErasureClaims
  BY DEF PlanOf, CreateDrivePlan
<1>2. \/ NvmeSsd(Facts[p.sight.device]) \/ AtaSsd(Facts[p.sight.device])
      \/ Hdd(Facts[p.sight.device])
  BY <1>1 DEF DriveAssurance, ErasureClaims
<1> QED
  BY <1>2 DEF TrustworthyPath

-----------------------------------------------------------------------------
(* Facts about sightings.                                                  *)

LEMMA SightingType ==
  ASSUME NEW s \in Snapshots, NEW n \in ListedNumbers(s)
  PROVE  /\ Sighting(s, n) \in Sightings
         /\ Sighting(s, n).number = n
         /\ Sighting(s, n).device = s.disk[n]
<1>1. n \in Numbers /\ s.disk[n] \in Devices /\ s.unplugged \in [Devices -> 0..MaxUnplugs]
  BY DEF ListedNumbers, Snapshots, Slots
<1>2. s.unplugged[s.disk[n]] \in 0..MaxUnplugs
  BY <1>1
<1> QED
  BY <1>1, <1>2 DEF Sighting, Sightings

\* A collection tells the truth.
LEMMA CollectedIsKnown ==
  ASSUME TypeOK, NEW s \in {Collected, Volumes, NoSnapshot}
  PROVE  s \in Snapshots /\ KnownSnapshot(s)
<1>1. Collected \in Snapshots
  BY DEF TypeOK, Collected, Snapshots
<1>2. Volumes \in Snapshots
  BY <1>1 DEF Volumes, Snapshots, Slots
<1>3. NoSnapshot \in Snapshots
  BY BoundsAssumption DEF NoSnapshot, Snapshots, Slots
<1>4. CASE s = Collected
  <2> SUFFICES ASSUME NEW n \in ListedNumbers(s) PROVE Known(Sighting(s, n))
    BY <1>1, <1>4 DEF KnownSnapshot
  <2>1. s.disk = attached /\ s.unplugged = unplugged
    BY <1>4 DEF Collected
  <2>2. /\ Sighting(s, n).number = n /\ Sighting(s, n).device = attached[n]
        /\ Sighting(s, n).stint = unplugged[attached[n]]
    BY <2>1 DEF Sighting
  <2>3. attached[n] \in Devices
    BY <2>1 DEF ListedNumbers, TypeOK, Slots
  <2>4. unplugged[attached[n]] \in Nat
    BY <2>3, BoundsAssumption DEF TypeOK
  <2> QED
    BY <2>2, <2>4 DEF Known
<1>5. CASE s \in {Volumes, NoSnapshot}
  <2>1. s.disk = [n \in Numbers |-> None]
    BY <1>5, <1>1 DEF Volumes, NoSnapshot, Snapshots
  <2>2. ListedNumbers(s) = {}
    BY <2>1 DEF ListedNumbers
  <2> QED
    BY <1>2, <1>3, <1>5, <2>2 DEF KnownSnapshot
<1> QED
  BY <1>4, <1>5

\* What hot plugging leaves true: what is known stays known.
LEMMA KnownStaysKnown ==
  ASSUME TypeOK, SystemDisksStay, HotPlug \/ UNCHANGED disks,
         NEW x \in Sightings, Known(x)
  PROVE  Known(x)'
<1> USE NoneAssumption, BoundsAssumption
<1>x. x.number \in Numbers /\ x.device \in Devices /\ x.stint \in Nat
  BY DEF Sightings
<1>t. /\ attached \in [Numbers -> Slots] /\ unplugged \in [Devices -> 0..MaxUnplugs]
      /\ SystemDisks \subseteq Devices /\ unplugged[x.device] \in Nat
  BY <1>x DEF TypeOK, SystemDisks
<1>1. CASE UNCHANGED disks
  BY <1>1 DEF disks, Known, Settled
<1>2. ASSUME NEW n \in Numbers, Unplug(n) PROVE Known(x)'
  <2>1. /\ attached[n] \in Devices \ SystemDisks
        /\ attached' = [attached EXCEPT ![n] = None]
        /\ unplugged' = [unplugged EXCEPT ![attached[n]] = @ + 1]
    BY <1>2 DEF Unplug
  <2>2. CASE x.device = attached[n]
    <3>1. unplugged'[x.device] = unplugged[x.device] + 1
      BY <1>t, <1>x, <2>1, <2>2
    <3>2. x.stint < unplugged'[x.device]
      BY <1>t, <1>x, <3>1 DEF Known
    <3>3. attached'[x.number] = attached[x.number] \/ attached'[x.number] = None
      BY <1>t, <1>x, <2>1
    <3> QED
      BY <1>t, <1>x, <3>2, <3>3, <3>1 DEF Known, Settled
  <2>3. CASE x.device # attached[n]
    <3>1. unplugged'[x.device] = unplugged[x.device]
      BY <1>t, <1>x, <2>1, <2>3
    <3>2. attached'[x.number] = IF x.number = n THEN None ELSE attached[x.number]
      BY <1>t, <1>x, <2>1
    <3> QED
      BY <1>t, <1>x, <2>3, <3>1, <3>2 DEF Known, Settled
  <2> QED
    BY <2>2, <2>3
<1>3. ASSUME NEW n \in Numbers, NEW d \in Devices, Plug(d, n) PROVE Known(x)'
  <2>1. /\ \A m \in Numbers : attached[m] # d
        /\ attached[n] = None /\ attached' = [attached EXCEPT ![n] = d]
        /\ unplugged' = unplugged
    BY <1>3 DEF Plug
  <2>2. d \notin SystemDisks
    BY <2>1 DEF SystemDisksStay
  <2>3. attached'[x.number] = IF x.number = n THEN d ELSE attached[x.number]
    BY <1>t, <1>x, <2>1
  <2> QED
    BY <1>t, <1>x, <2>1, <2>2, <2>3 DEF Known, Settled
<1> QED
  BY <1>1, <1>2, <1>3 DEF HotPlug

\* A snapshot stays known with its numbers, an excuse stays an excuse.
LEMMA MemoryStays ==
  ASSUME TypeOK, SystemDisksStay, HotPlug \/ UNCHANGED disks
  PROVE  /\ \A s \in Snapshots : KnownSnapshot(s) => KnownSnapshot(s)'
         /\ \A x \in Sightings, d \in Devices : Excused(x, d) => Excused(x, d)'
<1>1. ASSUME NEW s \in Snapshots, KnownSnapshot(s) PROVE KnownSnapshot(s)'
  <2> SUFFICES ASSUME NEW n \in ListedNumbers(s) PROVE Known(Sighting(s, n))'
    BY DEF KnownSnapshot, ListedNumbers, Sighting
  <2>1. Sighting(s, n) \in Sightings /\ Known(Sighting(s, n))
    BY <1>1, SightingType DEF KnownSnapshot
  <2>2. \A x \in Sightings : Known(x) => Known(x)'
    BY KnownStaysKnown
  <2> QED
    BY <2>1, <2>2
<1>2. ASSUME NEW x \in Sightings, NEW d \in Devices, Excused(x, d) PROVE Excused(x, d)'
  <2>1. x.device \in Devices /\ x.stint \in Nat /\ unplugged[x.device] \in Nat
    BY BoundsAssumption DEF Sightings, TypeOK
  <2>2. unplugged'[x.device] \in {unplugged[x.device], unplugged[x.device] + 1}
    <3>1. CASE UNCHANGED disks
      BY <3>1 DEF disks
    <3>2. CASE HotPlug
      BY <3>2, <2>1 DEF HotPlug, Plug, Unplug, TypeOK
    <3> QED
      BY <3>1, <3>2
  <2> QED
    BY <1>2, <2>1, <2>2 DEF Excused
<1> QED
  BY <1>1, <1>2

-----------------------------------------------------------------------------
(* IInv is inductive.                                                      *)

LEMMA InitEstablishesIInv == Init => IInv
<1> SUFFICES ASSUME Init PROVE IInv
  OBVIOUS
<1>1. TypeOK
  <2>1. NoSnapshot \in Snapshots
    BY BoundsAssumption DEF NoSnapshot, Snapshots, Slots
  <2>2. /\ attached \in [Numbers -> Slots] /\ unplugged \in [Devices -> 0..MaxUnplugs]
        /\ data \in [Devices -> DataState] /\ sessions \in 0..MaxSessions
    BY BoundsAssumption DEF Init, DataState
  <2> QED
    BY <2>1, <2>2 DEF Init, TypeOK
<1>2. KnownSnapshot(NoSnapshot)
  BY <1>1, CollectedIsKnown
<1> QED
  BY <1>1, <1>2
  DEF Init, IInv, SystemDisksStay, Memory, OnePerNumber, Requesting, Reaching, Claiming,
      SystemDisksSurvive, SystemDisks

\* Hot plugging disturbs only what is remembered.
LEMMA HotPlugPreservesIInv == IInv /\ HotPlug => IInv'
<1> SUFFICES ASSUME IInv, HotPlug PROVE IInv'
  OBVIOUS
<1>u. UNCHANGED <<data, cache, review, drives, selected, picks, pc, dry, request, plans,
                  hits, results, sessions>>
  BY DEF HotPlug, Plug, Unplug, window, session
<1>t. TypeOK /\ SystemDisksStay
  BY DEF IInv
<1>k. /\ \A s \in Snapshots : KnownSnapshot(s) => KnownSnapshot(s)'
      /\ \A x \in Sightings, d \in Devices : Excused(x, d) => Excused(x, d)'
  BY <1>t, MemoryStays
<1>x. \A x \in Sightings : Known(x) => Known(x)'
  BY <1>t, KnownStaysKnown
<1>p. \A p \in Plans : p.sight \in Sightings /\ p.pick \in Sightings
  BY DEF Plans
<1>1. /\ attached' \in [Numbers -> Slots] /\ unplugged' \in [Devices -> 0..MaxUnplugs]
      /\ \A d \in SystemDisks, n \in Numbers : attached[n] = d => attached'[n] = d
      /\ \A d \in Devices : unplugged'[d] \in {unplugged[d], unplugged[d] + 1}
  <2>1. ASSUME NEW n \in Numbers, Unplug(n)
        PROVE  /\ attached' \in [Numbers -> Slots] /\ unplugged' \in [Devices -> 0..MaxUnplugs]
               /\ \A d \in SystemDisks, m \in Numbers : attached[m] = d => attached'[m] = d
               /\ \A d \in Devices : unplugged'[d] \in {unplugged[d], unplugged[d] + 1}
    BY <2>1, <1>t, BoundsAssumption DEF Unplug, TypeOK, Slots, SystemDisks
  <2>2. ASSUME NEW n \in Numbers, NEW e \in Devices, Plug(e, n)
        PROVE  /\ attached' \in [Numbers -> Slots] /\ unplugged' \in [Devices -> 0..MaxUnplugs]
               /\ \A d \in SystemDisks, m \in Numbers : attached[m] = d => attached'[m] = d
               /\ \A d \in Devices : unplugged'[d] \in {unplugged[d], unplugged[d] + 1}
    BY <2>2, <1>t, NoneAssumption DEF Plug, TypeOK, Slots, SystemDisks
  <2> QED
    BY <2>1, <2>2 DEF HotPlug
<1>2. TypeOK'
  BY <1>u, <1>1, <1>t DEF TypeOK
<1>3. SystemDisksStay'
  BY <1>1, <1>t DEF SystemDisksStay
<1>4. Memory'
  <2>1. KnownSnapshot(cache)' /\ KnownSnapshot(review)' /\ KnownSnapshot(drives)'
    BY <1>u, <1>k, <1>t DEF IInv, Memory, TypeOK, KnownSnapshot, Known, Settled, Sighting, ListedNumbers
  <2>2. \A x \in picks \cup request : Known(x)'
    BY <1>x, <1>t DEF IInv, Memory, TypeOK
  <2>3. \A p \in plans : Known(p.sight)' /\ Known(p.pick)'
    BY <1>x, <1>p, <1>t DEF IInv, Memory, TypeOK
  <2> QED
    BY <1>u, <2>1, <2>2, <2>3 DEF Memory, Known, Settled
<1>5. OnePerNumber'
  BY <1>u DEF IInv, OnePerNumber
<1>6. Requesting'
  BY <1>u DEF IInv, Requesting, Current, Blocked, PlanOf
<1>m. \A p \in Plans, d \in Devices : Meant(p, d) => Meant(p, d)'
  BY <1>k, <1>p DEF Meant, Excused
<1>7. Reaching'
  <2>1. \A p \in plans : Current(p) => \A d \in hits : Meant(p, d)'
    BY <1>m, <1>t DEF IInv, Reaching, TypeOK
  <2>2. \A a \in results : \A d \in a.hits : Meant(a.plan, d)'
    BY <1>m, <1>t DEF IInv, Reaching, TypeOK, Answers
  <2> QED
    BY <1>u, <2>1, <2>2 DEF Reaching, Current, Meant, Excused
<1>8. Claiming'
  <2> SUFFICES ASSUME NEW a \in results, ~StaleLastError,
                      a.result.assurance_achieved \in ErasureClaims,
                      data[a.plan.sight.device] # "erased"
               PROVE  a.plan.sight.stint < unplugged'[a.plan.sight.device]
    BY <1>u DEF Claiming
  <2>1. a.plan.sight.device \in Devices /\ a.plan.sight.stint \in Nat
    BY <1>t, BoundsAssumption DEF TypeOK, Answers, Plans, Sightings
  <2>2. a.plan.sight.stint < unplugged[a.plan.sight.device]
    BY DEF IInv, Claiming
  <2> QED
    BY <2>1, <2>2, <1>1, <1>t, BoundsAssumption DEF TypeOK
<1>9. SystemDisksSurvive'
  BY <1>u DEF IInv, SystemDisksSurvive
<1> QED
  BY <1>2, <1>3, <1>4, <1>5, <1>6, <1>7, <1>8, <1>9 DEF IInv

\* The reviews and the clicks leave the disks and the session's plans alone.
LEMMA ReviewPreservesIInv == IInv /\ (Review \/ User) => IInv'
<1> SUFFICES ASSUME IInv, Review \/ User PROVE IInv'
  OBVIOUS
<1>t. TypeOK /\ SystemDisksStay /\ Memory /\ OnePerNumber
  BY DEF IInv
<1>d. UNCHANGED <<disks, data, plans, hits>>
  BY DEF Review, User, ReviewCollects, ReviewReturns, CacheExpires, ToggleDrive, StartExecution,
         window, session
<1>k. /\ \A s \in Snapshots : KnownSnapshot(s) => KnownSnapshot(s)'
      /\ \A x \in Sightings : Known(x) => Known(x)'
  BY <1>d, <1>t, MemoryStays, KnownStaysKnown
<1>c. \A s \in {Collected, Volumes, NoSnapshot} : s \in Snapshots /\ KnownSnapshot(s)
  BY <1>t, CollectedIsKnown
<1>e. \A s \in Snapshots, b \in BOOLEAN :
        /\ [s EXCEPT !.from_cache = b] \in Snapshots
        /\ KnownSnapshot(s) => KnownSnapshot([s EXCEPT !.from_cache = b])
        /\ ListedNumbers([s EXCEPT !.from_cache = b]) = ListedNumbers(s)
  BY DEF Snapshots, KnownSnapshot, Sighting, ListedNumbers
<1>1. /\ cache' \in Snapshots /\ review' \in Snapshots /\ drives' \in Snapshots
      /\ KnownSnapshot(cache') /\ KnownSnapshot(review') /\ KnownSnapshot(drives')
  <2>1. CASE ReviewCollects
    BY <2>1, <1>c, <1>e, <1>t DEF ReviewCollects, window, TypeOK, Memory
  <2>2. CASE ReviewReturns
    BY <2>2, <1>c, <1>e, <1>t DEF ReviewReturns, SetDrives, window, TypeOK, Memory
  <2>3. CASE CacheExpires
    BY <2>3, <1>c, <1>t DEF CacheExpires, window, TypeOK, Memory
  <2>4. CASE User
    BY <2>4, <1>t DEF User, ToggleDrive, StartExecution, window, TypeOK, Memory
  <2> QED
    BY <2>1, <2>2, <2>3, <2>4 DEF Review
<1>2. /\ selected' \subseteq Numbers /\ picks' \subseteq Sightings
      /\ \A x \in picks' : Known(x)
      /\ \A x, y \in picks' : x.number = y.number => x = y
  <2>1. CASE Review
    BY <2>1, <1>t DEF Review, ReviewCollects, ReviewReturns, CacheExpires, SetDrives, window,
                      TypeOK, Memory, OnePerNumber
  <2>2. CASE \E b \in BOOLEAN : StartExecution(b)
    BY <2>2, <1>t DEF StartExecution, window, TypeOK, Memory, OnePerNumber
  <2>3. ASSUME NEW n \in Numbers, ToggleDrive(n)
        PROVE  /\ selected' \subseteq Numbers /\ picks' \subseteq Sightings
               /\ \A x \in picks' : Known(x)
               /\ \A x, y \in picks' : x.number = y.number => x = y
    <3>1. /\ Sighting(drives, n) \in Sightings /\ Sighting(drives, n).number = n
          /\ Known(Sighting(drives, n))
      BY <2>3, <1>t, SightingType DEF ToggleDrive, TypeOK, Memory, KnownSnapshot
    <3>2. picks' \subseteq {p \in picks : p.number # n} \cup {Sighting(drives, n)}
      BY <2>3 DEF ToggleDrive
    <3> QED
      BY <2>3, <3>1, <3>2, <1>t DEF ToggleDrive, TypeOK, Memory, OnePerNumber
  <2> QED
    BY <2>1, <2>2, <2>3 DEF User
<1>3. /\ request' \in {request, picks}
      /\ results' \in {results, {}}
      /\ \/ pc' = pc /\ dry' = dry /\ sessions' = sessions
         \/ pc = "idle" /\ pc' = "preflight" /\ dry' \in BOOLEAN /\ sessions' \in 0..MaxSessions
  <2>1. CASE Review \/ \E n \in Numbers : ToggleDrive(n)
    BY <2>1 DEF Review, ReviewCollects, ReviewReturns, CacheExpires, ToggleDrive, session
  <2>2. ASSUME NEW b \in BOOLEAN, StartExecution(b)
        PROVE  /\ request' = picks /\ results' = {} /\ pc = "idle" /\ pc' = "preflight"
               /\ dry' \in BOOLEAN /\ sessions' \in 0..MaxSessions
    BY <2>2, <1>t, BoundsAssumption DEF StartExecution, TypeOK
  <2> QED
    BY <2>1, <2>2 DEF User
<1>4. TypeOK'
  BY <1>d, <1>1, <1>2, <1>3, <1>t DEF TypeOK, disks
<1>5. SystemDisksStay' /\ SystemDisksSurvive'
  BY <1>d DEF IInv, SystemDisksStay, SystemDisksSurvive, disks
<1>6. Memory'
  <2>1. \A x \in picks' \cup request' : Known(x)'
    BY <1>k, <1>2, <1>3, <1>t DEF Memory, TypeOK
  <2>2. \A p \in plans' : Known(p.sight)' /\ Known(p.pick)'
    BY <1>d, <1>k, <1>t DEF Memory, TypeOK, Plans
  <2>3. KnownSnapshot(cache)' /\ KnownSnapshot(review)' /\ KnownSnapshot(drives)'
    BY <1>d, <1>1 DEF KnownSnapshot, Known, Settled, Sighting, ListedNumbers, disks
  <2> QED
    BY <2>1, <2>2, <2>3 DEF Memory, Known, Settled
<1>7. OnePerNumber'
  BY <1>d, <1>2, <1>3, <1>t DEF OnePerNumber
<1>8. Requesting'
  BY <1>d, <1>3 DEF IInv, Requesting, Current, Blocked, PlanOf
<1>9. Reaching' /\ Claiming'
  BY <1>d, <1>3 DEF IInv, Reaching, Claiming, Meant, Excused, Current, disks
<1> QED
  BY <1>4, <1>5, <1>6, <1>7, <1>8, <1>9 DEF IInv

-----------------------------------------------------------------------------
(* The session's steps.                                                    *)

\* What the current plan's request reaches is what was meant, and no system disk.
LEMMA ReachedIsMeant ==
  ASSUME IInv, NEW p \in plans, Reached(p) # None
  PROVE  Reached(p) \in Devices /\ Meant(p, Reached(p))
<1>1. /\ p.sight \in Sightings /\ p.pick \in Sightings /\ p.pick.number = p.sight.number
      /\ Known(p.sight) /\ Known(p.pick)
  BY DEF IInv, TypeOK, Plans, Memory, OnePerNumber
<1>2. /\ p.sight.number \in Numbers /\ p.sight.device \in Devices /\ p.pick.device \in Devices
      /\ p.sight.stint \in Nat /\ p.pick.stint \in Nat
  BY <1>1, BoundsAssumption DEF Sightings
<1>3. unplugged[p.sight.device] \in Nat /\ unplugged[p.pick.device] \in Nat
  BY <1>2, BoundsAssumption DEF IInv, TypeOK
<1>4. Reached(p) \in Devices
  BY <1>2 DEF IInv, TypeOK, Slots, Reached
<1> QED
  BY <1>1, <1>2, <1>3, <1>4 DEF Known, Settled, Meant, Excused, Reached

\* One plan is current.
LEMMA OneCurrent ==
  ASSUME IInv, NEW p \in plans, NEW q \in plans, Current(p), Current(q)
  PROVE  p = q
<1>1. p.sight.number \in Nat /\ q.sight.number \in Nat
  BY NumbersAssumption DEF IInv, TypeOK, Plans, Sightings
<1>2. p.sight.number = q.sight.number
  BY <1>1 DEF Current
<1> QED
  BY <1>2 DEF IInv, OnePerNumber

\* A request changes the reached disk's data, and never undoes an erasure.
LEMMA RequestLeavesSystemDisks ==
  ASSUME IInv, NEW p \in plans, Current(p), pc \in {"native", "winapi"}, Reached(p) # None,
         NEW v \in Accepted(Reached(p)) \cup Refused(Reached(p)),
         data' = [data EXCEPT ![Reached(p)] = v]
  PROVE  /\ data' \in [Devices -> DataState]
         /\ \A d \in SystemDisks : data'[d] = "intact"
         /\ \A d \in Devices : data[d] = "erased" => data'[d] = "erased"
         /\ data'[Reached(p)] = v
<1>1. Reached(p) \in Devices /\ data \in [Devices -> DataState]
  BY ReachedIsMeant DEF IInv, TypeOK
<1>2. v \in DataState /\ (data[Reached(p)] = "erased" => v = "erased")
  BY <1>1 DEF Accepted, Refused, DataState
<1>3. Reached(p) \notin SystemDisks
  <2>1. p.sight.device \notin SystemDisks
    BY UnblockedIsNoSystemDisk DEF IInv, Requesting, TypeOK
  <2> QED
    BY <2>1 DEF IInv, Memory, Known, Reached
<1> QED
  BY <1>1, <1>2, <1>3 DEF IInv, SystemDisksSurvive, SystemDisks

\* The plans of the session's own preflight are for what the snapshot lists.
LEMMA BuildPreflightPreservesIInv == IInv /\ BuildPreflight => IInv'
<1> SUFFICES ASSUME IInv, BuildPreflight PROVE IInv'
  OBVIOUS
<1>t. TypeOK /\ SystemDisksStay /\ Memory /\ OnePerNumber
  BY DEF IInv
<1>u. UNCHANGED <<attached, unplugged, data, review, drives, selected, picks, dry, request,
                  hits, results, sessions>>
  BY DEF BuildPreflight, disks, window
<1>p. pc = "preflight" /\ pc' = "plans"
  BY DEF BuildPreflight
<1>1. PICK s \in Snapshots :
        /\ KnownSnapshot(s)
        /\ cache' = s
        /\ plans' = {PlanFor(s, x) : x \in {y \in request : y.number \in ListedNumbers(s)}}
  BY <1>t, CollectedIsKnown DEF BuildPreflight, TypeOK, Memory
<1>2. ASSUME NEW x \in request, x.number \in ListedNumbers(s)
      PROVE  /\ PlanFor(s, x) \in Plans
             /\ PlanFor(s, x).pick = x
             /\ PlanFor(s, x).sight.number = x.number
             /\ Known(PlanFor(s, x).sight) /\ Known(PlanFor(s, x).pick)
  BY <1>1, <1>2, <1>t, SightingType DEF PlanFor, Plans, TypeOK, Memory, KnownSnapshot
<1>3. /\ plans' \subseteq Plans
      /\ \A p \in plans' : /\ Known(p.sight) /\ Known(p.pick)
                          /\ p.pick.number = p.sight.number
                          /\ p.pick \in request /\ p = PlanFor(s, p.pick)
  BY <1>1, <1>2
<1>4. TypeOK'
  BY <1>1, <1>3, <1>p, <1>t, <1>u DEF TypeOK
<1>5. Memory'
  <2>1. KnownSnapshot(cache)' /\ KnownSnapshot(review)' /\ KnownSnapshot(drives)'
    BY <1>1, <1>t, <1>u DEF Memory, KnownSnapshot, Known, Settled, Sighting, ListedNumbers
  <2>2. \A p \in plans' : Known(p.sight)' /\ Known(p.pick)'
    BY <1>3, <1>u DEF Known, Settled
  <2>3. \A x \in picks' \cup request' : Known(x)'
    BY <1>t, <1>u DEF Memory, Known, Settled
  <2> QED
    BY <2>1, <2>2, <2>3 DEF Memory
<1>6. OnePerNumber'
  BY <1>3, <1>t, <1>u DEF OnePerNumber
<1>7. hits = {}
  BY <1>p DEF IInv, Requesting
<1> QED
  BY <1>4, <1>5, <1>6, <1>7, <1>p, <1>u
  DEF IInv, SystemDisksStay, SystemDisksSurvive, Requesting, Reaching, Claiming, Meant, Excused

\* A plan gets its result: what every answer has in common.
LEMMA AnswerPreservesIInv ==
  ASSUME IInv, NEW p \in plans, Current(p), NEW reached \in SUBSET Devices,
         NEW r \in ExecutionResult, Answer(p, reached, r),
         \A d \in reached : Meant(p, d),
         data' \in [Devices -> DataState],
         \A d \in SystemDisks : data'[d] = "intact",
         \A d \in Devices : data[d] = "erased" => data'[d] = "erased",
         ~StaleLastError /\ r.assurance_achieved \in ErasureClaims
           => p.sight.stint < unplugged[p.sight.device] \/ data'[p.sight.device] = "erased"
  PROVE  IInv'
<1>u. /\ UNCHANGED <<attached, unplugged, cache, review, drives, selected, picks, dry, request,
                     sessions>>
      /\ results' = results \cup {[plan |-> p, hits |-> reached, result |-> r]}
      /\ plans' = plans \ {p} /\ hits' = {} /\ pc' = "plans"
  BY DEF Answer, disks, window
<1>t. TypeOK /\ Memory /\ OnePerNumber
  BY DEF IInv
<1>1. TypeOK'
  BY <1>u, <1>t DEF TypeOK, Answers
<1>2. Memory'
  BY <1>u, <1>t DEF Memory, KnownSnapshot, Known, Settled, Sighting, ListedNumbers
<1>3. OnePerNumber'
  BY <1>u, <1>t DEF OnePerNumber
<1>4. Reaching'
  BY <1>u DEF IInv, Reaching, Meant, Excused
<1>5. Claiming'
  <2> SUFFICES ASSUME NEW a \in results', ~StaleLastError, a.result.assurance_achieved \in ErasureClaims
               PROVE  a.plan.sight.stint < unplugged[a.plan.sight.device]
                        \/ data'[a.plan.sight.device] = "erased"
    BY <1>u DEF Claiming
  <2>1. CASE a \in results
    <3>1. a.plan.sight.device \in Devices
      BY <2>1, <1>t DEF TypeOK, Answers, Plans, Sightings
    <3> QED
      BY <2>1, <3>1 DEF IInv, Claiming
  <2>2. CASE a = [plan |-> p, hits |-> reached, result |-> r]
    BY <2>2
  <2> QED
    BY <2>1, <2>2, <1>u
<1>6. SystemDisksStay' /\ Requesting' /\ SystemDisksSurvive'
  BY <1>u DEF IInv, SystemDisksStay, Requesting, SystemDisksSurvive
<1> QED
  BY <1>1, <1>2, <1>3, <1>4, <1>5, <1>6 DEF IInv

LEMMA EnginePreservesIInv ==
  ASSUME IInv, NEW p \in plans, Engine(p)
  PROVE  IInv'
<1>t. TypeOK /\ Memory /\ OnePerNumber /\ p \in Plans
  BY DEF IInv, TypeOK
<1>l. /\ Failure \in ExecutionResult /\ Failure.assurance_achieved \notin ErasureClaims
      /\ DryRunResult \in ExecutionResult /\ DryRunResult.assurance_achieved \notin ErasureClaims
  BY DEF Failure, DryRunResult, ExecutionResult, AssuranceLevel, ErasureClaims
<1>h. hits \subseteq Devices /\ (Current(p) => \A d \in hits : Meant(p, d))
  BY <1>t DEF IInv, TypeOK, Reaching
<1>r. Reached(p) # None => Reached(p) \in Devices /\ Meant(p, Reached(p))
  BY ReachedIsMeant
<1>i. UNCHANGED data => /\ data' \in [Devices -> DataState]
                        /\ \A d \in SystemDisks : data'[d] = "intact"
                        /\ \A d \in Devices : data[d] = "erased" => data'[d] = "erased"
  BY DEF IInv, TypeOK, SystemDisksSurvive
<1>1. CASE AnswerWithoutRequest(p)
  <2>1. PICK r \in {DryRunResult, Failure} : Answer(p, {}, r) /\ Current(p) /\ UNCHANGED data
    BY <1>1 DEF AnswerWithoutRequest
  <2> QED
    BY <2>1, <1>l, <1>i, AnswerPreservesIInv
<1>2. CASE BeginRequest(p)
  <2>1. /\ UNCHANGED <<attached, unplugged, data, cache, review, drives, selected, picks, dry,
                       request, plans, hits, results, sessions>>
        /\ pc = "plans" /\ pc' = "native" /\ ~dry /\ ~Blocked(p) /\ Current(p)
    BY <1>2 DEF BeginRequest, disks, window
  <2>2. \A q \in plans : Current(q) => ~Blocked(q)
    BY <2>1, OneCurrent
  <2>3. TypeOK' /\ Memory' /\ OnePerNumber'
    BY <2>1, <1>t DEF TypeOK, Memory, OnePerNumber, KnownSnapshot, Known, Settled, Sighting,
                      ListedNumbers
  <2>4. Requesting'
    BY <2>1, <2>2 DEF IInv, Requesting, Current, Blocked, PlanOf
  <2> QED
    BY <2>1, <2>3, <2>4
    DEF IInv, SystemDisksStay, Reaching, Claiming, SystemDisksSurvive, Current, Meant, Excused
<1>3. CASE RequestAccepted(p)
  <2>1. PICK v \in Accepted(Reached(p)) :
          /\ data' = [data EXCEPT ![Reached(p)] = v]
          /\ pc \in {"native", "winapi"} /\ Current(p) /\ Reached(p) # None
          /\ Answer(p, hits \cup {Reached(p)}, Claimed(p))
    BY <1>3 DEF RequestAccepted
  <2>2. /\ data' \in [Devices -> DataState]
        /\ \A d \in SystemDisks : data'[d] = "intact"
        /\ \A d \in Devices : data[d] = "erased" => data'[d] = "erased"
        /\ data'[Reached(p)] = v
    BY <2>1, RequestLeavesSystemDisks
  <2>3. Claimed(p) \in ExecutionResult
    BY <1>t, PlannedLevel DEF Claimed, ExecutionResult
  <2>4. ASSUME Claimed(p).assurance_achieved \in ErasureClaims
        PROVE  p.sight.stint < unplugged[p.sight.device] \/ data'[p.sight.device] = "erased"
    <3>1. TrustworthyPath(Facts[p.sight.device])
      BY <2>4, <1>t, ClaimedDiskIsTrustworthy DEF Claimed
    <3>2. CASE Reached(p) = p.sight.device
      BY <2>1, <2>2, <3>1, <3>2 DEF Accepted
    <3>3. CASE Reached(p) # p.sight.device
      BY <1>r, <2>1, <3>3 DEF Meant, Excused
    <3> QED
      BY <3>2, <3>3
  <2> QED
    BY <2>1, <2>2, <2>3, <2>4, <1>h, <1>r, AnswerPreservesIInv
<1>4. CASE NativeFails(p) \/ NativeUnreached(p)
  <2>1. PICK reached \in SUBSET Devices, code \in {0, 1} :
          /\ pc = "native" /\ Current(p) /\ \A d \in reached : Meant(p, d)
          /\ \/ /\ Reached(p) # None
                /\ \E v \in Refused(Reached(p)) : data' = [data EXCEPT ![Reached(p)] = v]
             \/ UNCHANGED data
          /\ code = 0 => StaleLastError /\ Answer(p, reached, Claimed(p))
          /\ code = 1 => TryDirectly(reached)
    <3>1. CASE NativeFails(p)
      <4> DEFINE R == hits \cup {Reached(p)}
      <4>1. R \in SUBSET Devices /\ \A d \in R : Meant(p, d)
        BY <3>1, <1>h, <1>r DEF NativeFails
      <4>2. PICK code \in RefusalCodes :
              IF code = 0 THEN Answer(p, R, Claimed(p)) ELSE TryDirectly(R)
        BY <3>1 DEF NativeFails
      <4>3. code \in {0, 1} /\ (code = 0 => StaleLastError)
        BY <4>2 DEF RefusalCodes
      <4>4. /\ pc = "native" /\ Current(p) /\ Reached(p) # None
            /\ \E v \in Refused(Reached(p)) : data' = [data EXCEPT ![Reached(p)] = v]
        BY <3>1 DEF NativeFails
      <4>5. /\ code = 0 => StaleLastError /\ Answer(p, R, Claimed(p))
            /\ code = 1 => TryDirectly(R)
        BY <4>2, <4>3
      <4> HIDE DEF R
      <4> QED
        BY <4>1, <4>3, <4>4, <4>5
    <3>2. CASE NativeUnreached(p)
      BY <3>2, <1>h DEF NativeUnreached
    <3> QED
      BY <1>4, <3>1, <3>2
  <2>2. /\ data' \in [Devices -> DataState]
        /\ \A d \in SystemDisks : data'[d] = "intact"
        /\ \A d \in Devices : data[d] = "erased" => data'[d] = "erased"
    BY <2>1, <1>i, RequestLeavesSystemDisks
  <2>3. CASE code = 0
    <3>1. Claimed(p) \in ExecutionResult
      BY <1>t, PlannedLevel DEF Claimed, ExecutionResult
    <3> QED
      BY <2>1, <2>2, <2>3, <3>1, AnswerPreservesIInv
  <2>4. CASE code = 1
    <3>1. /\ UNCHANGED <<attached, unplugged, cache, review, drives, selected, picks, dry,
                         request, plans, results, sessions>>
          /\ pc' = "winapi" /\ hits' = reached
      BY <2>1, <2>4 DEF TryDirectly, disks, window
    <3>2. TypeOK' /\ Memory' /\ OnePerNumber'
      BY <2>2, <3>1, <1>t DEF TypeOK, Memory, OnePerNumber, KnownSnapshot, Known, Settled,
                              Sighting, ListedNumbers
    <3>3. Requesting'
      BY <2>1, <3>1 DEF IInv, Requesting, Current, Blocked, PlanOf
    <3>4. Reaching'
      <4>1. \A q \in plans : Current(q) => \A d \in hits' : Meant(q, d)
        BY <2>1, <3>1, OneCurrent
      <4> QED
        BY <3>1, <4>1 DEF IInv, Reaching, Current, Meant, Excused
    <3>5. Claiming'
      <4>1. \A a \in results : a.plan.sight.device \in Devices
        BY <1>t DEF TypeOK, Answers, Plans, Sightings
      <4> QED
        BY <2>2, <3>1, <4>1 DEF IInv, Claiming
    <3> QED
      BY <2>2, <3>1, <3>2, <3>3, <3>4, <3>5 DEF IInv, SystemDisksStay, SystemDisksSurvive
  <2> QED
    BY <2>3, <2>4
<1>5. CASE WinApiFails(p)
  <2>1. /\ pc = "winapi" /\ Current(p)
        /\ \/ /\ Reached(p) # None /\ Answer(p, hits \cup {Reached(p)}, Failure)
              /\ \E v \in Refused(Reached(p)) : data' = [data EXCEPT ![Reached(p)] = v]
           \/ UNCHANGED data /\ Answer(p, hits, Failure)
    BY <1>5 DEF WinApiFails
  <2>2. /\ data' \in [Devices -> DataState]
        /\ \A d \in SystemDisks : data'[d] = "intact"
        /\ \A d \in Devices : data[d] = "erased" => data'[d] = "erased"
    BY <2>1, <1>i, RequestLeavesSystemDisks
  <2>3. PICK reached \in SUBSET Devices :
          Answer(p, reached, Failure) /\ \A d \in reached : Meant(p, d)
    BY <2>1, <1>h, <1>r
  <2> QED
    BY <2>1, <2>2, <2>3, <1>l, AnswerPreservesIInv
<1> QED
  BY <1>1, <1>2, <1>3, <1>4, <1>5 DEF Engine

LEMMA FinishPreservesIInv == IInv /\ Finish => IInv'
<1> SUFFICES ASSUME IInv, Finish PROVE IInv'
  OBVIOUS
<1>t. TypeOK /\ Memory /\ OnePerNumber
  BY DEF IInv
<1>u. /\ UNCHANGED <<attached, unplugged, data, review, drives, selected, picks, dry, request,
                     plans, hits, results, sessions>>
      /\ pc = "plans" /\ pc' = "idle" /\ cache' \in {NoSnapshot, cache}
  BY DEF Finish, disks, window
<1>1. cache' \in Snapshots /\ KnownSnapshot(cache')
  BY <1>u, <1>t, CollectedIsKnown DEF TypeOK, Memory
<1>2. TypeOK' /\ OnePerNumber'
  BY <1>u, <1>1, <1>t DEF TypeOK, OnePerNumber
<1>3. Memory'
  <2>1. KnownSnapshot(cache)' /\ KnownSnapshot(review)' /\ KnownSnapshot(drives)'
    BY <1>1, <1>t, <1>u DEF Memory, KnownSnapshot, Known, Settled, Sighting, ListedNumbers
  <2> QED
    BY <2>1, <1>t, <1>u DEF Memory, Known, Settled
<1> QED
  BY <1>u, <1>2, <1>3
  DEF IInv, SystemDisksStay, Requesting, Reaching, Claiming, SystemDisksSurvive, Current, Meant,
      Excused, Blocked, PlanOf

LEMMA StepPreservesIInv == IInv /\ [Next]_vars => IInv'
<1> SUFFICES ASSUME IInv, [Next]_vars PROVE IInv'
  OBVIOUS
<1>1. CASE HotPlug
  BY <1>1, HotPlugPreservesIInv
<1>2. CASE Review \/ User
  BY <1>2, ReviewPreservesIInv
<1>3. CASE Session
  BY <1>3, BuildPreflightPreservesIInv, EnginePreservesIInv, FinishPreservesIInv DEF Session
<1>4. CASE UNCHANGED vars
  <2>u. UNCHANGED <<attached, unplugged, data, cache, review, drives, selected, picks, pc, dry,
                    request, plans, hits, results, sessions>>
    BY <1>4 DEF vars, disks, window, session
  <2>1. TypeOK' /\ SystemDisksStay' /\ SystemDisksSurvive' /\ OnePerNumber'
    BY <2>u DEF IInv, TypeOK, SystemDisksStay, SystemDisksSurvive, OnePerNumber
  <2>2. Memory'
    BY <2>u DEF IInv, Memory, KnownSnapshot, Known, Settled, Sighting, ListedNumbers
  <2>3. Requesting'
    BY <2>u DEF IInv, Requesting, Current, Blocked, PlanOf
  <2>4. Reaching' /\ Claiming'
    BY <2>u DEF IInv, Reaching, Claiming, Current, Meant, Excused
  <2> QED
    BY <2>1, <2>2, <2>3, <2>4 DEF IInv
<1> QED
  BY <1>1, <1>2, <1>3, <1>4 DEF Next

-----------------------------------------------------------------------------
(* What follows for the program.                                           *)

\* The inductive invariant holds throughout.
THEOREM SpecKeepsIInv == Spec => []IInv
BY InitEstablishesIInv, StepPreservesIInv, PTL DEF Spec

\* Every variable keeps its type; a claim always carries a level that
\* models.py defines.
THEOREM TypeCorrect == Spec => []TypeOK
<1>1. IInv => TypeOK
  BY DEF IInv
<1> QED
  BY <1>1, SpecKeepsIInv, PTL

\* drive_sanitize.py opens whatever disk has the plan's number, and yet no
\* request ever reaches a system or boot disk.
THEOREM SystemDisksAreSafe == Spec => []SystemDisksSurvive
<1>1. IInv => SystemDisksSurvive
  BY DEF IInv
<1> QED
  BY <1>1, SpecKeepsIInv, PTL

\* In an answer, what was reached is the planned and the chosen disk, unless
\* that one has been unplugged.
LEMMA AnswersAreMeant ==
  ASSUME IInv, NEW a \in results, NEW d \in a.hits
  PROVE  /\ d = a.plan.sight.device \/ ~Settled(a.plan.sight)
         /\ d = a.plan.pick.device \/ ~Settled(a.plan.pick)
<1>1. a.plan.sight \in Sightings /\ a.plan.pick \in Sightings
  BY DEF IInv, TypeOK, Answers, Plans
<1>2. Meant(a.plan, d)
  BY DEF IInv, Reaching
<1>3. a.plan.sight.stint \in Nat /\ a.plan.pick.stint \in Nat
  BY <1>1, BoundsAssumption DEF Sightings
<1> QED
  BY <1>2, <1>3 DEF Meant, Excused, Settled

\* A request misses the disk of its plan only after that one was unplugged.
THEOREM PlannedDiskIsReached == Spec => []RequestsReachThePlannedDisk
<1>1. IInv => RequestsReachThePlannedDisk
  BY AnswersAreMeant DEF RequestsReachThePlannedDisk
<1> QED
  BY <1>1, SpecKeepsIInv, PTL

\* A request misses the disk the user saw only after that one was unplugged,
\* although the window keeps the selection by number.
THEOREM ChosenDiskIsReached == Spec => []RequestsReachTheChosenDisk
<1>1. IInv => RequestsReachTheChosenDisk
  BY AnswersAreMeant DEF RequestsReachTheChosenDisk
<1> QED
  BY <1>1, SpecKeepsIInv, PTL

\* What the report claims of a disk that kept its number is true, if the code of
\* a refused native request is not lost (lower.cpp:154-157).
THEOREM ClaimsAreTrue ==
  ASSUME ~StaleLastError
  PROVE  Spec => []ClaimsHoldForSettledDisks
<1>1. IInv => ClaimsHoldForSettledDisks
  <2> SUFFICES ASSUME IInv, NEW a \in results, Settled(a.plan.sight),
                      a.result.assurance_achieved \in ErasureClaims
               PROVE  data[a.plan.sight.device] = "erased"
    BY DEF ClaimsHoldForSettledDisks
  <2>1. a.plan.sight.stint \in Nat
    BY BoundsAssumption DEF IInv, TypeOK, Answers, Plans, Sightings
  <2> QED
    BY <2>1 DEF IInv, Claiming, Settled
<1> QED
  BY <1>1, SpecKeepsIInv, PTL

\* ARCHITECTURE.md:25, which a violation run refutes, is true as far as nobody
\* unplugs a disk and no refused native request returns 0: bare numbers are safe
\* then, although disks may be plugged in at any time, snapshots are old and
\* requests late.
THEOREM ReportsAreTrueWithoutUnplugging ==
  ASSUME ~StaleLastError, MaxUnplugs = 0
  PROVE  Spec => []ReportedDiskIsErased
<1>1. IInv => ReportedDiskIsErased
  <2> SUFFICES ASSUME IInv, NEW a \in results, a.result.assurance_achieved \in ErasureClaims
               PROVE  data[a.plan.sight.device] = "erased"
    BY DEF ReportedDiskIsErased
  <2>1. a.plan.sight \in Sightings
    BY DEF IInv, TypeOK, Answers, Plans
  <2>2. a.plan.sight.stint \in 0..0 /\ unplugged[a.plan.sight.device] \in 0..0
    BY <2>1 DEF Sightings, IInv, TypeOK
  <2> QED
    BY <2>2 DEF IInv, Claiming
<1> QED
  BY <1>1, SpecKeepsIInv, PTL
=============================================================================
