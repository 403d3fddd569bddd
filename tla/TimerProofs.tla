----------------------------- MODULE TimerProofs -----------------------------
(***************************************************************************)
(* Proofs about Timer, for any slab, wheel, clock and delays.              *)
(*                                                                         *)
(* That an unlink leaves the lists sound needs that they have no cycles,   *)
(* and that a scan misses nothing needs an order of each list.  Both come  *)
(* from a ranking of the entries, which insert extends at the front and    *)
(* unlink leaves as it is.                                                 *)
(***************************************************************************)
EXTENDS Timer, NaturalsInduction, WellFoundedInduction, TLAPS

\* The slot in whose list entry k is.
SlotOf(k) == SlotFor(entries[k].tick)

\* r numbers the entries in the order of their lists: along next it increases,
\* and nothing of a list lies between an entry and its next.
Ranked(r) ==
    /\ \A k \in Used :
         /\ wheel[SlotOf(k)].head # Empty /\ r[wheel[SlotOf(k)].head] <= r[k]
         /\ entries[k].next # Empty => r[k] < r[entries[k].next]
    /\ \A j, k \in Used : SlotOf(j) = SlotOf(k) =>
         /\ r[j] = r[k] => j = k
         /\ r[j] < r[k] => entries[j].next # Empty /\ r[entries[j].next] <= r[k]

\* The scan has still to come to entry k.
Ahead(k, r) == nxt # Empty /\ r[nxt] <= r[k]

\* Nothing but same-tick entries is behind the wheel, and what is due at the
\* wheel's tick is still ahead of the scan.
ScanInv(r) ==
    \A k \in Used \ sameTick :
        /\ entries[k].tick >= tick
        /\ entries[k].tick = tick => Ahead(k, r)

\* poll_to has been called and will go on with the list it is in.
MidList == lpc = "callback" \/ (lpc = "scan" /\ tick <= target)

\* next_tick of a slot is at most the tick of each of its entries, but for those
\* that a scan which recomputes it has still to come to.
CountInv(r) ==
    \A k \in Used :
        \/ wheel[SlotOf(k)].nextTick <= entries[k].tick
        \/ MidList /\ SlotOf(k) = SlotFor(tick) /\ Ahead(k, r)

\* The lists can be ranked so.
ListInv == \E r \in [Key -> Int] : Ranked(r) /\ ScanInv(r) /\ CountInv(r)

\* poll_to stops past its target.
TargetInv == lpc = "schedule" => tick > target

\* A wakeup thread that no unpark waits for sleeps no longer than wakeup_state says.
ParkInv ==
    ~unparked => /\ wpc \in {"check", "parked"} => sleepUntil <= wakeupState
                 /\ wpc = "fire" => TickMax <= wakeupState

\* Outside the timer the wakeup is armed for every entry.
ArmedInv ==
    lpc = "idle" /\ wpc # "dead" =>
        \A k \in Used \ sameTick :
            wakeupState <= entries[k].tick \/ wpc = "fire" \/ (ready /\ queued)

\* As long as no timeout was set at tick 0, nothing the wakeup thread reads is
\* TERMINATE_THREAD before the timer is dropped.
LifeInv ==
    ~zeroTick /\ lpc # "gone" =>
        /\ wakeupState # 0 /\ sleepUntil # 0 /\ wpc # "dead"
        /\ \A s \in Slot : wheel[s].nextTick # 0
        /\ \A k \in Used : entries[k].tick # 0

\* The inductive invariant, LifeInv apart.
IInv == TypeOK /\ WheelLinked /\ ListInv /\ TargetInv /\ ParkInv /\ ArmedInv

-----------------------------------------------------------------------------
(* Numbers.                                                                *)

\* A tick has a slot.
LEMMA SlotType == \A t \in Nat : SlotFor(t) \in Slot
<1>1. \A t \in Nat, n \in Nat \ {0} : t % n \in 0..(n - 1)
  OBVIOUS
<1>2. QED
  BY <1>1, TimerAssumption DEF SlotFor, Slot

\* A duration has a tick.
LEMMA TickType == \A d \in Nat : DurationToTick(d) \in Nat
<1>1. \A d \in Nat, n \in Nat \ {0} : d \div n \in Nat
  OBVIOUS
<1>2. TickMs \div 2 \in Nat
  BY <1>1, TimerAssumption
<1>3. \A d \in Nat : d + TickMs \div 2 \in Nat
  BY <1>2
<1>4. QED
  BY <1>1, <1>3, TimerAssumption DEF DurationToTick

\* < on the naturals, as a relation.
Less == {p \in Nat \X Nat : p[1] < p[2]}

\* It is well founded.
LEMMA LessWellFounded == IsWellFoundedOn(Less, Nat)
<1>1. OpToRel(<, Nat) = Less
  BY Zenon DEF OpToRel, Less
<1>2. QED
  BY <1>1, NatLessThanWellFounded, Zenon

\* A set of naturals has a minimum.
LEMMA NatMinimum ==
    ASSUME NEW S, S \subseteq Nat, S # {}
    PROVE  \E x \in S : \A y \in S : x <= y
<1>1. \E x \in S : \A y \in S : ~(<<y, x>> \in Less)
  BY WFMin, LessWellFounded, Zenon
<1>2. \A x, y \in Nat : <<y, x>> \in Less <=> y < x
  BY DEF Less
<1>3. \A x, y \in Nat : ~(y < x) => x <= y
  OBVIOUS
<1>4. QED
  BY <1>1, <1>2, <1>3

\* next_tick answers the next_tick of a slot: the wheel's tick, or the least.
LEMMA NextTickLeast ==
    ASSUME TypeOK
    PROVE  /\ NextTick \in Nat
           /\ NextTick = tick \/ \A s \in Slot : NextTick <= wheel[s].nextTick
           /\ \E s \in Slot : NextTick = wheel[s].nextTick
<1> DEFINE S == {wheel[s].nextTick : s \in Slot}
           Least(m) == \A s \in Slot : m <= wheel[s].nextTick
<1>1. tick \in Nat /\ \A s \in Slot : wheel[s].nextTick \in Nat
  BY DEF TypeOK
<1>2. 0 \in Slot
  BY TimerAssumption DEF Slot
<1>3. S \subseteq Nat /\ S # {}
  BY <1>1, <1>2
<1>4. \E m \in S : \A y \in S : m <= y
  BY <1>3, NatMinimum
<1>5. \E m \in S : Least(m)
  BY <1>4
<1> DEFINE m == CHOOSE m \in S : Least(m)
<1>6. m \in S /\ Least(m)
  BY <1>5
<1>7. \/ NextTick = tick /\ nxt # Empty /\ wheel[SlotFor(entries[nxt].tick)].nextTick = tick
      \/ NextTick = m
  BY DEF NextTick
<1>8. nxt # Empty => SlotFor(entries[nxt].tick) \in Slot
  BY SlotType DEF TypeOK
<1> HIDE DEF m
<1>9. QED
  BY <1>1, <1>3, <1>6, <1>7, <1>8

-----------------------------------------------------------------------------
(* The lists.                                                              *)

\* What a state with typed variables says of a key.
LEMMA EntryTypes ==
    ASSUME TypeOK
    PROVE  /\ Empty \notin Key /\ Used \subseteq Key
           /\ \A k \in Key : /\ entries[k].tick \in Nat /\ SlotOf(k) \in Slot
                             /\ entries[k].prev \in Key \cup {Empty}
                             /\ entries[k].next \in Key \cup {Empty}
                             /\ entries[k].used \in BOOLEAN
           /\ \A s \in Slot : wheel[s].nextTick \in Nat /\ wheel[s].head \in Key \cup {Empty}
           /\ tick \in Nat /\ SlotFor(tick) \in Slot /\ nxt \in Key \cup {Empty}
BY TimerAssumption, SlotType DEF TypeOK, Used, SlotOf

\* The slots a scan has come to have the heads of the wheel.
LEMMA ScannedHeads ==
    ASSUME TypeOK
    PROVE  /\ ScannedWheel \in [Slot -> [nextTick : Nat, head : Key \cup {Empty}]]
           /\ \A s \in Slot : ScannedWheel[s].head = wheel[s].head
           /\ \A s \in Slot : \/ ScannedWheel[s].nextTick = wheel[s].nextTick
                              \/ s = SlotFor(tick) /\ nxt = wheel[s].head
BY EntryTypes, TimerAssumption DEF TypeOK, ScannedWheel

\* unlink and entries.remove take entry k out of its list: whoever pointed to it
\* points to what it pointed to.
LEMMA Unlinks ==
    ASSUME TypeOK, WheelLinked, NEW r \in [Key -> Int], Ranked(r),
           NEW w \in [Slot -> [nextTick : Nat, head : Key \cup {Empty}]],
           \A s \in Slot : w[s].head = wheel[s].head,
           NEW k \in Used, Remove(k, w)
    PROVE  /\ Used' = Used \ {k}
           /\ \A j \in Used' :
                /\ entries'[j].tick = entries[j].tick
                /\ entries'[j].next =
                     IF entries[j].next = k THEN entries[k].next ELSE entries[j].next
                /\ entries'[j].prev =
                     IF entries[j].prev = k THEN entries[k].prev ELSE entries[j].prev
           /\ \A s \in Slot :
                /\ wheel'[s].nextTick = w[s].nextTick
                /\ wheel'[s].head =
                     IF wheel[s].head = k THEN entries[k].next ELSE wheel[s].head
           /\ nxt' = IF nxt = k THEN entries[k].next ELSE nxt
           /\ entries' \in [Key -> [tick : Nat, prev : Key \cup {Empty},
                                    next : Key \cup {Empty}, used : BOOLEAN]]
           /\ wheel' \in [Slot -> [nextTick : Nat, head : Key \cup {Empty}]]
           /\ sameTick' = sameTick \ {k}
<1> DEFINE p == entries[k].prev
           n == entries[k].next
<1>1. /\ k \in Key /\ k # Empty /\ Empty \notin Key
      /\ p \in Key \cup {Empty} /\ n \in Key \cup {Empty} /\ SlotOf(k) \in Slot
  BY EntryTypes
<1>2. n # Empty => n \in Used /\ entries[n].prev = k /\ r[k] < r[n] /\ SlotOf(n) = SlotOf(k)
  BY DEF WheelLinked, Ranked, SlotOf
<1>3. p # Empty => p \in Used /\ entries[p].next = k /\ r[p] < r[k] /\ SlotOf(p) = SlotOf(k)
  BY <1>1 DEF WheelLinked, Ranked, SlotOf
<1>4. p # k /\ n # k /\ (p = n => p = Empty)
  BY <1>1, <1>2, <1>3, EntryTypes
<1>5. \A j \in Used : (entries[j].next = k <=> j = p) /\ (entries[j].prev = k <=> j = n)
  BY <1>1, <1>2, <1>3, EntryTypes DEF WheelLinked
<1>6. \A s \in Slot : wheel[s].head = k <=> p = Empty /\ s = SlotOf(k)
  BY <1>1 DEF WheelLinked, SlotOf
<1>7. /\ entries'[k] = Vacant
      /\ p # Empty => entries'[p] = [entries[p] EXCEPT !.next = n]
      /\ n # Empty => entries'[n] = [entries[n] EXCEPT !.prev = p]
      /\ \A j \in Key \ {k, p, n} : entries'[j] = entries[j]
      /\ DOMAIN entries' = Key
  BY <1>1, <1>2, <1>3, <1>4, EntryTypes DEF Remove
<1>8. entries' \in [Key -> [tick : Nat, prev : Key \cup {Empty},
                            next : Key \cup {Empty}, used : BOOLEAN]]
  BY <1>1 DEF Remove, TypeOK, Vacant
<1>9. \A j \in Key : entries[j] \in [tick : Nat, prev : Key \cup {Empty},
                                     next : Key \cup {Empty}, used : BOOLEAN]
  BY DEF TypeOK
<1>10. \A j \in Key \ {k} :
         /\ entries'[j].tick = entries[j].tick /\ entries'[j].used = entries[j].used
         /\ entries'[j].next = IF j = p THEN n ELSE entries[j].next
         /\ entries'[j].prev = IF j = n THEN p ELSE entries[j].prev
  BY <1>1, <1>4, <1>7, <1>9
<1>11. Used' = Used \ {k}
  BY <1>1, <1>7, <1>10 DEF Used, Vacant
<1>12. \A s \in Slot :
         /\ wheel'[s].nextTick = w[s].nextTick
         /\ wheel'[s].head = IF wheel[s].head = k THEN n ELSE wheel[s].head
  BY <1>1, <1>6 DEF Remove, SlotOf
<1>13. wheel' \in [Slot -> [nextTick : Nat, head : Key \cup {Empty}]]
  BY <1>1 DEF Remove, SlotOf
<1>14. \A j \in Used' :
         /\ entries'[j].tick = entries[j].tick
         /\ entries'[j].next = IF entries[j].next = k THEN n ELSE entries[j].next
         /\ entries'[j].prev = IF entries[j].prev = k THEN p ELSE entries[j].prev
  BY <1>5, <1>10, <1>11, EntryTypes
<1>15. nxt' = (IF nxt = k THEN n ELSE nxt) /\ sameTick' = sameTick \ {k}
  BY DEF Remove
<1>16. QED
  BY <1>8, <1>11, <1>12, <1>13, <1>14, <1>15

\* After that the lists are linked, and ranked as before.
LEMMA RemoveKeeps ==
    ASSUME TypeOK, WheelLinked, NEW r \in [Key -> Int], Ranked(r),
           NEW w \in [Slot -> [nextTick : Nat, head : Key \cup {Empty}]],
           \A s \in Slot : w[s].head = wheel[s].head,
           NEW k \in Used, Remove(k, w), tick' = tick
    PROVE  WheelLinked' /\ Ranked(r)'
<1> DEFINE p == entries[k].prev
           n == entries[k].next
<1>1. /\ Used' = Used \ {k}
      /\ \A j \in Used' :
           /\ entries'[j].tick = entries[j].tick
           /\ entries'[j].next = IF entries[j].next = k THEN n ELSE entries[j].next
           /\ entries'[j].prev = IF entries[j].prev = k THEN p ELSE entries[j].prev
      /\ \A s \in Slot : wheel'[s].head = IF wheel[s].head = k THEN n ELSE wheel[s].head
      /\ nxt' = IF nxt = k THEN n ELSE nxt
  BY Unlinks
<1>2. \A j \in Used : j \in Key /\ j # Empty /\ SlotOf(j) \in Slot
  BY EntryTypes
<1>3. \A j \in Used' : SlotOf(j)' = SlotOf(j)
  BY <1>1 DEF SlotOf
<1>4. /\ n # Empty => n \in Used' /\ entries[n].prev = k /\ SlotOf(n) = SlotOf(k) /\ r[k] < r[n]
      /\ p # Empty => p \in Used' /\ entries[p].next = k /\ SlotOf(p) = SlotOf(k) /\ r[p] < r[k]
      /\ p = Empty => wheel[SlotOf(k)].head = k
  BY <1>1, <1>2, EntryTypes DEF WheelLinked, Ranked, SlotOf
<1>5. \A j \in Used :
        /\ entries[j].prev = Empty => wheel[SlotOf(j)].head = j
        /\ entries[j].prev # Empty =>
             entries[j].prev \in Used /\ entries[entries[j].prev].next = j
        /\ entries[j].next # Empty =>
             /\ entries[j].next \in Used /\ entries[entries[j].next].prev = j
             /\ SlotOf(entries[j].next) = SlotOf(j)
  BY DEF WheelLinked, SlotOf
<1>6. \A s \in Slot : wheel[s].head # Empty =>
        wheel[s].head \in Used /\ entries[wheel[s].head].prev = Empty /\ SlotOf(wheel[s].head) = s
  BY DEF WheelLinked, SlotOf
<1>7. nxt # Empty => nxt \in Used /\ SlotOf(nxt) = SlotFor(tick)
  BY DEF WheelLinked, SlotOf
<1> HIDE DEF p, n
<1>8. WheelLinked'
  <2>1. ASSUME NEW j \in Used'
        PROVE  /\ entries'[j].prev = Empty => wheel'[SlotOf(j)].head = j
               /\ entries'[j].prev # Empty =>
                    entries'[j].prev \in Used' /\ entries'[entries'[j].prev].next = j
    BY <1>1, <1>2, <1>4, <1>5, <1>6 DEF p, n
  <2>2. ASSUME NEW j \in Used', entries'[j].next # Empty
        PROVE  /\ entries'[j].next \in Used' /\ entries'[entries'[j].next].prev = j
               /\ SlotOf(entries'[j].next) = SlotOf(j)
    BY <1>1, <1>2, <1>4, <1>5, <2>2 DEF p, n
  <2>3. ASSUME NEW s \in Slot, wheel'[s].head # Empty
        PROVE  /\ wheel'[s].head \in Used' /\ entries'[wheel'[s].head].prev = Empty
               /\ SlotOf(wheel'[s].head) = s
    BY <1>1, <1>2, <1>4, <1>5, <1>6, <2>3 DEF p, n
  <2>4. nxt' # Empty => nxt' \in Used' /\ SlotOf(nxt') = SlotFor(tick)
    BY <1>1, <1>2, <1>4, <1>7
  <2>5. QED
    BY <1>1, <1>3, <2>1, <2>2, <2>3, <2>4 DEF WheelLinked, SlotOf
<1>9. Ranked(r)'
  <2>1. \A j \in Key : r[j] \in Int
    OBVIOUS
  <2>2. ASSUME NEW j \in Used'
        PROVE  /\ wheel'[SlotOf(j)].head # Empty /\ r[wheel'[SlotOf(j)].head] <= r[j]
               /\ entries'[j].next # Empty => r[j] < r[entries'[j].next]
    <3>1. SlotOf(j) \in Slot /\ j \in Used /\ j # k /\ k \in Key
      BY <1>1, <1>2
    <3>2. wheel[SlotOf(j)].head = k => SlotOf(j) = SlotOf(k)
      BY <1>2, <1>6, <3>1
    <3>3. ASSUME wheel[SlotOf(j)].head = k PROVE n # Empty /\ r[n] <= r[j]
      <4>1. SlotOf(k) = SlotOf(j) /\ r[k] <= r[j]
        BY <3>1, <3>2, <3>3 DEF Ranked
      <4>2. r[k] < r[j]
        BY <1>2, <2>1, <3>1, <4>1 DEF Ranked
      <4>3. QED
        BY <3>1, <4>1, <4>2 DEF Ranked, n
    <3>4. wheel[SlotOf(j)].head # Empty /\ r[wheel[SlotOf(j)].head] <= r[j]
      BY <3>1 DEF Ranked
    <3>5. wheel'[SlotOf(j)].head = IF wheel[SlotOf(j)].head = k THEN n ELSE wheel[SlotOf(j)].head
      BY <1>1, <3>1
    <3>6. entries[j].next # Empty => r[j] < r[entries[j].next] /\ entries[j].next \in Used
      BY <1>5, <3>1 DEF Ranked
    <3>7. entries'[j].next # Empty => r[j] < r[entries'[j].next]
      BY <1>1, <1>2, <1>4, <2>1, <3>1, <3>6
    <3>8. QED
      BY <3>3, <3>4, <3>5, <3>7
  <2>3. ASSUME NEW i \in Used', NEW j \in Used', SlotOf(i) = SlotOf(j)
        PROVE  /\ r[i] = r[j] => i = j
               /\ r[i] < r[j] => entries'[i].next # Empty /\ r[entries'[i].next] <= r[j]
    <3>1. i \in Used /\ j \in Used /\ i # k /\ j # k /\ k \in Key /\ i \in Key /\ j \in Key
      BY <1>1, <1>2
    <3>2. /\ r[i] = r[j] => i = j
          /\ r[i] < r[j] => entries[i].next # Empty /\ r[entries[i].next] <= r[j]
      BY <2>3, <3>1 DEF Ranked
    <3>3. ASSUME r[i] < r[j], entries[i].next = k PROVE n # Empty /\ r[n] <= r[j]
      <4>1. SlotOf(k) = SlotOf(j) /\ r[k] <= r[j]
        BY <1>2, <1>5, <2>3, <3>1, <3>2, <3>3
      <4>2. r[k] < r[j]
        BY <2>1, <3>1, <4>1 DEF Ranked
      <4>3. QED
        BY <3>1, <4>1, <4>2 DEF Ranked, n
    <3>4. QED
      BY <1>1, <3>1, <3>2, <3>3
  <2>4. QED
    BY <1>1, <1>3, <2>2, <2>3 DEF Ranked
<1>10. QED
  BY <1>8, <1>9

\* insert puts entry k at the front of the list of slot s: set_timeout's effect
\* on the wheel.
LEMMA Links ==
    ASSUME TypeOK, WheelLinked, NEW k \in Key, k \notin Used, NEW d \in Delay, SetTimeout(k, d)
    PROVE  \E t \in Nat :
             /\ t >= tick
             /\ Used' = Used \cup {k}
             /\ /\ entries'[k].tick = t /\ entries'[k].prev = Empty
                /\ entries'[k].next = wheel[SlotFor(t)].head
             /\ \A j \in Used :
                  /\ entries'[j].tick = entries[j].tick /\ entries'[j].next = entries[j].next
                  /\ entries'[j].prev = IF j = wheel[SlotFor(t)].head THEN k ELSE entries[j].prev
             /\ \A s \in Slot \ {SlotFor(t)} : wheel'[s] = wheel[s]
             /\ wheel'[SlotFor(t)].head = k
             /\ wheel'[SlotFor(t)].nextTick \in Nat
             /\ wheel'[SlotFor(t)].nextTick <= t
             /\ wheel'[SlotFor(t)].nextTick <= wheel[SlotFor(t)].nextTick
             /\ wakeupState' \in Nat /\ wakeupState' <= t /\ wakeupState' <= wakeupState
             /\ wakeupState' # wakeupState => unparked'
             /\ unparked => unparked'
             /\ unparked' \in BOOLEAN
             /\ sameTick' = IF t = tick THEN sameTick \cup {k} ELSE sameTick
             /\ entries' \in [Key -> [tick : Nat, prev : Key \cup {Empty},
                                      next : Key \cup {Empty}, used : BOOLEAN]]
             /\ wheel' \in [Slot -> [nextTick : Nat, head : Key \cup {Empty}]]
<1> DEFINE t == InsertTick(DurationToTick(ms + d))
           s == SlotFor(t)
           old == wheel[s].head
<1>1. t \in Nat /\ t >= tick /\ s \in Slot
  <2>1. ms + d \in Nat
    BY TimerAssumption DEF TypeOK
  <2>2. DurationToTick(ms + d) \in Nat /\ tick \in Nat
    BY <2>1, TickType DEF TypeOK
  <2>3. t \in Nat /\ t >= tick
    BY <2>2 DEF InsertTick
  <2>4. QED
    BY <2>3, SlotType
<1>2. /\ entries' = [j \in Key |->
             IF j = k THEN [tick |-> t, prev |-> Empty, next |-> old, used |-> TRUE]
             ELSE IF j = old THEN [entries[j] EXCEPT !.prev = k] ELSE entries[j]]
      /\ wheel' = [wheel EXCEPT ![s] = [nextTick |-> MinOf(t, wheel[s].nextTick), head |-> k]]
      /\ ScheduleReadiness(t)
      /\ sameTick' = IF t = tick THEN sameTick \cup {k} ELSE sameTick
  BY DEF SetTimeout
<1> HIDE DEF t, s
<1>3. old \in Key \cup {Empty} /\ wheel[s].nextTick \in Nat /\ old # k
  BY <1>1, EntryTypes DEF WheelLinked
<1>4. MinOf(t, wheel[s].nextTick) \in Nat /\ MinOf(t, wheel[s].nextTick) <= t
      /\ MinOf(t, wheel[s].nextTick) <= wheel[s].nextTick
  BY <1>1, <1>3 DEF MinOf
<1>5. /\ wheel' \in [Slot -> [nextTick : Nat, head : Key \cup {Empty}]]
      /\ wheel'[s] = [nextTick |-> MinOf(t, wheel[s].nextTick), head |-> k]
      /\ \A x \in Slot \ {s} : wheel'[x] = wheel[x]
  BY <1>1, <1>2, <1>4 DEF TypeOK
<1>6. \A j \in Key : entries[j] \in [tick : Nat, prev : Key \cup {Empty},
                                     next : Key \cup {Empty}, used : BOOLEAN]
  BY DEF TypeOK
<1>7. entries' \in [Key -> [tick : Nat, prev : Key \cup {Empty},
                            next : Key \cup {Empty}, used : BOOLEAN]]
  BY <1>1, <1>2, <1>3, <1>6
<1>8. /\ entries'[k] = [tick |-> t, prev |-> Empty, next |-> old, used |-> TRUE]
      /\ \A j \in Key \ {k} :
           /\ entries'[j].tick = entries[j].tick /\ entries'[j].next = entries[j].next
           /\ entries'[j].used = entries[j].used
           /\ entries'[j].prev = IF j = old THEN k ELSE entries[j].prev
  BY <1>2, <1>6
<1>9. Used' = Used \cup {k}
  BY <1>8 DEF Used
<1>10. /\ wakeupState' \in Nat /\ wakeupState' <= t /\ wakeupState' <= wakeupState
       /\ wakeupState' # wakeupState => unparked'
       /\ unparked => unparked'
       /\ unparked' \in BOOLEAN
  <2>1. wakeupState \in Nat /\ unparked \in BOOLEAN
    BY DEF TypeOK
  <2>2. CASE wakeupState <= t
    BY <1>1, <1>2, <2>1, <2>2 DEF ScheduleReadiness, wakeVars
  <2>3. CASE ~(wakeupState <= t)
    <3>1. wakeupState' = t /\ unparked' = TRUE
      BY <1>2, <2>3 DEF ScheduleReadiness
    <3>2. QED
      BY <1>1, <2>1, <2>3, <3>1
  <2>4. QED
    BY <2>2, <2>3
<1>11. Used \subseteq Key \ {k}
  BY DEF Used
<1>12. QED
  BY <1>1, <1>2, <1>4, <1>5, <1>7, <1>8, <1>9, <1>10, <1>11 DEF s

\* The front of a list ranks below the rest of it.
LEMMA InsertKeeps ==
    ASSUME TypeOK, WheelLinked, NEW r \in [Key -> Int], Ranked(r), nxt' = nxt, tick' = tick,
           NEW k \in Key, k \notin Used, NEW d \in Delay, SetTimeout(k, d)
    PROVE  WheelLinked' /\ \E q \in [Key -> Int] : /\ Ranked(q)'
                                                  /\ \A j \in Used : q[j] = r[j]
<1>1. PICK t \in Nat :
        /\ Used' = Used \cup {k}
        /\ entries'[k].tick = t /\ entries'[k].prev = Empty
        /\ entries'[k].next = wheel[SlotFor(t)].head
        /\ \A j \in Used :
             /\ entries'[j].tick = entries[j].tick /\ entries'[j].next = entries[j].next
             /\ entries'[j].prev = IF j = wheel[SlotFor(t)].head THEN k ELSE entries[j].prev
        /\ \A s \in Slot \ {SlotFor(t)} : wheel'[s] = wheel[s]
        /\ wheel'[SlotFor(t)].head = k
  BY Links
<1> DEFINE s == SlotFor(t)
           old == wheel[s].head
<1>2. s \in Slot /\ old \in Key \cup {Empty} /\ k # Empty /\ Used \subseteq Key \ {k}
  BY SlotType, EntryTypes
<1>3. \A j \in Used : j # Empty /\ SlotOf(j) \in Slot
  BY EntryTypes
<1>4. SlotOf(k)' = s /\ \A j \in Used : SlotOf(j)' = SlotOf(j)
  BY <1>1 DEF SlotOf
<1>5. \A j \in Used :
        /\ entries[j].prev = Empty => wheel[SlotOf(j)].head = j
        /\ entries[j].prev # Empty =>
             entries[j].prev \in Used /\ entries[entries[j].prev].next = j
        /\ entries[j].next # Empty =>
             /\ entries[j].next \in Used /\ entries[entries[j].next].prev = j
             /\ SlotOf(entries[j].next) = SlotOf(j)
  BY DEF WheelLinked, SlotOf
<1>6. \A x \in Slot : wheel[x].head # Empty =>
        wheel[x].head \in Used /\ entries[wheel[x].head].prev = Empty /\ SlotOf(wheel[x].head) = x
  BY DEF WheelLinked, SlotOf
<1>7. nxt # Empty => nxt \in Used /\ SlotOf(nxt) = SlotFor(tick)
  BY DEF WheelLinked, SlotOf
<1> HIDE DEF s
<1>8. WheelLinked'
  <2>1. ASSUME NEW j \in Used'
        PROVE  /\ entries'[j].prev = Empty => wheel'[SlotOf(j)'].head = j
               /\ entries'[j].prev # Empty =>
                    entries'[j].prev \in Used' /\ entries'[entries'[j].prev].next = j
    BY <1>1, <1>2, <1>3, <1>4, <1>5, <1>6 DEF s
  <2>2. ASSUME NEW j \in Used', entries'[j].next # Empty
        PROVE  /\ entries'[j].next \in Used' /\ entries'[entries'[j].next].prev = j
    BY <1>1, <1>2, <1>3, <1>4, <1>5, <1>6, <2>2 DEF s
  <2>3. ASSUME NEW j \in Used', entries'[j].next # Empty, NEW m, m = entries'[j].next
        PROVE  SlotOf(m)' = SlotOf(j)'
    BY <1>1, <1>2, <1>3, <1>4, <1>5, <1>6, <2>3 DEF s
  <2>4. ASSUME NEW x \in Slot, NEW m, m = wheel'[x].head, m # Empty
        PROVE  m \in Used' /\ entries'[m].prev = Empty /\ SlotOf(m)' = x
    BY <1>1, <1>2, <1>3, <1>4, <1>5, <1>6, <2>4 DEF s
  <2>5. ASSUME NEW m, m = nxt', m # Empty PROVE m \in Used' /\ SlotOf(m)' = SlotFor(tick')
    BY <1>1, <1>4, <1>7, <2>5
  <2>6. QED
    BY <2>1, <2>2, <2>3, <2>4, <2>5 DEF WheelLinked, SlotOf
<1>9. PICK q \in [Key -> Int] :
        (\A j \in Used : q[j] = r[j]) /\ (old # Empty => q[k] = r[old] - 1)
  <2> DEFINE f == [j \in Key |-> IF j = k THEN (IF old = Empty THEN 0 ELSE r[old] - 1) ELSE r[j]]
  <2>1. f \in [Key -> Int] /\ (\A j \in Used : f[j] = r[j]) /\ (old # Empty => f[k] = r[old] - 1)
    BY <1>2
  <2>2. QED
    BY <2>1
<1>10. old # Empty => old \in Used /\ q[k] = r[old] - 1
  BY <1>2, <1>6, <1>9
<1> HIDE DEF old
<1>11. \A j \in Key : q[j] \in Int
  BY <1>9
<1>12. \A j \in Used : SlotOf(j) = s => old # Empty /\ q[k] < q[j]
  BY <1>2, <1>9, <1>10, <1>11 DEF Ranked, old
<1>13. Ranked(q)'
  <2>1. ASSUME NEW j \in Used'
        PROVE  /\ wheel'[SlotOf(j)'].head # Empty /\ q[wheel'[SlotOf(j)'].head] <= q[j]
               /\ entries'[j].next # Empty => q[j] < q[entries'[j].next]
    <3>1. CASE j = k
      BY <1>1, <1>2, <1>4, <1>6, <1>9, <1>11, <1>12, <3>1 DEF s, old
    <3>2. CASE j # k
      <4>1. j \in Used /\ SlotOf(j)' = SlotOf(j) /\ entries'[j].next = entries[j].next
        BY <1>1, <1>4, <3>2
      <4>2. entries[j].next # Empty => q[j] < q[entries[j].next]
        BY <1>5, <1>9, <4>1 DEF Ranked
      <4>3. wheel[SlotOf(j)].head # Empty /\ r[wheel[SlotOf(j)].head] <= r[j]
        BY <4>1 DEF Ranked
      <4>4. SlotOf(j) # s => wheel'[SlotOf(j)] = wheel[SlotOf(j)]
        BY <1>1, <1>3, <4>1 DEF s
      <4>5. wheel'[SlotOf(j)].head # Empty /\ q[wheel'[SlotOf(j)].head] <= q[j]
        BY <1>1, <1>2, <1>3, <1>6, <1>9, <1>11, <1>12, <4>1, <4>3, <4>4 DEF s
      <4>6. QED
        BY <4>1, <4>2, <4>5
    <3>3. QED
      BY <3>1, <3>2
  <2>2. ASSUME NEW i \in Used', NEW j \in Used', SlotOf(i)' = SlotOf(j)'
        PROVE  /\ q[i] = q[j] => i = j
               /\ q[i] < q[j] => entries'[i].next # Empty /\ q[entries'[i].next] <= q[j]
    <3>1. CASE i # k /\ j # k
      <4>1. /\ i \in Used /\ j \in Used /\ SlotOf(i) = SlotOf(j)
            /\ entries'[i].next = entries[i].next /\ q[i] = r[i] /\ q[j] = r[j]
        BY <1>1, <1>4, <1>9, <2>2, <3>1
      <4>2. /\ r[i] = r[j] => i = j
            /\ r[i] < r[j] => entries[i].next # Empty /\ r[entries[i].next] <= r[j]
        BY <4>1 DEF Ranked
      <4>3. entries[i].next # Empty => q[entries[i].next] = r[entries[i].next]
        BY <1>5, <1>9, <4>1
      <4>4. QED
        BY <4>1, <4>2, <4>3
    <3>2. CASE i = k /\ j # k
      <4>1. j \in Used /\ SlotOf(j) = s /\ entries'[k].next = old
        BY <1>1, <1>4, <2>2, <3>2 DEF s, old
      <4>2. old # Empty /\ q[k] < q[j] /\ old \in Used /\ r[old] <= r[j]
        BY <1>10, <1>12, <4>1 DEF Ranked, old
      <4>3. QED
        BY <1>2, <1>9, <1>11, <3>2, <4>1, <4>2
    <3>3. CASE j = k /\ i # k
      <4>1. i \in Used /\ SlotOf(i) = s
        BY <1>1, <1>4, <2>2, <3>3
      <4>2. QED
        BY <1>2, <1>11, <1>12, <3>3, <4>1
    <3>4. CASE i = k /\ j = k
      BY <1>11, <3>4
    <3>5. QED
      BY <3>1, <3>2, <3>3, <3>4
  <2>3. QED
    BY <2>1, <2>2 DEF Ranked, SlotOf
<1>14. QED
  BY <1>8, <1>9, <1>13

-----------------------------------------------------------------------------
(* The steps.                                                              *)

\* The current tick is a natural number whatever the clock says.
LEMMA NowType == ms \in 0..MaxMs => Now \in Nat
BY TickType, TimerAssumption DEF Now

\* A step that leaves the wheel alone, and does not end a scan in the middle of a
\* list, keeps the lists.
LEMMA WheelFrame ==
    ASSUME TypeOK, WheelLinked, ListInv, UNCHANGED wheelVars, MidList => MidList'
    PROVE  WheelLinked' /\ ListInv'
<1>1. UNCHANGED <<tick, nxt, wheel, entries, sameTick>>
  BY DEF wheelVars
<1>2. WheelLinked'
  BY <1>1 DEF WheelLinked, Used
<1>3. PICK r \in [Key -> Int] : Ranked(r) /\ ScanInv(r) /\ CountInv(r)
  BY DEF ListInv
<1>4. Used' = Used /\ \A k \in Used : SlotOf(k)' = SlotOf(k) /\ Ahead(k, r)' = Ahead(k, r)
  BY <1>1 DEF Used, SlotOf, Ahead
<1>5. Ranked(r)'
  BY <1>1, <1>3, <1>4 DEF Ranked
<1>6. ScanInv(r)'
  BY <1>1, <1>3, <1>4 DEF ScanInv
<1>7. CountInv(r)'
  BY <1>1, <1>3, <1>4 DEF CountInv
<1>8. QED
  BY <1>2, <1>3, <1>5, <1>6, <1>7 DEF ListInv

\* The clock.
LEMMA ClockKeeps == ASSUME IInv, Clock PROVE IInv'
<1>1. TypeOK'
  <2>1. ms' \in 0..MaxMs
    BY TimerAssumption DEF Clock, IInv, TypeOK
  <2>2. DurationToTick(ms') \in Nat
    BY <2>1, TickType, TimerAssumption
  <2>3. QED
    BY <2>1, <2>2 DEF Clock, IInv, TypeOK, Now, wheelVars, nodeVars, wakeVars, threadVars
<1>2. WheelLinked' /\ ListInv'
  BY WheelFrame DEF Clock, IInv, MidList, wheelVars
<1>3. TargetInv' /\ ParkInv' /\ ArmedInv'
  BY DEF Clock, IInv, TargetInv, ParkInv, ArmedInv, Used, wheelVars, nodeVars, wakeVars,
     threadVars
<1>4. QED
  BY <1>1, <1>2, <1>3 DEF IInv

\* The wakeup thread: what it claims it fires, and it parks only on what it read
\* after the last unpark.
LEMMA ThreadKeeps ==
    ASSUME IInv, WakeupTerminates \/ Park \/ Unpark \/ Claim \/ Fire
    PROVE  IInv'
<1> USE DEF WakeupTerminates, Park, Unpark, Claim, Fire
<1>1. UNCHANGED <<ms, wheelVars, lpc, target>>
  OBVIOUS
<1>2. TypeOK'
  BY <1>1, TimerAssumption DEF IInv, TypeOK, Now, wheelVars, nodeVars, wakeVars
<1>3. WheelLinked' /\ ListInv'
  BY <1>1, WheelFrame DEF IInv, MidList, wheelVars
<1>4. TargetInv'
  BY <1>1 DEF IInv, TargetInv, wheelVars
<1>5. ParkInv'
  BY TimerAssumption DEF IInv, TypeOK, ParkInv, nodeVars, wakeVars
<1>6. ArmedInv'
  <2>1. Used' = Used /\ entries' = entries /\ sameTick' = sameTick
    BY <1>1 DEF Used, wheelVars
  <2>2. QED
    BY <1>1, <2>1 DEF IInv, ArmedInv, nodeVars, wakeVars
<1>7. QED
  BY <1>2, <1>3, <1>4, <1>5, <1>6 DEF IInv

\* The loop's thread comes to the timer.
LEMMA LoopFrameKeeps ==
    ASSUME IInv, TimersEvent \/ PollTo \/ ScanDone
    PROVE  IInv'
<1> USE DEF TimersEvent, PollTo, ScanDone
<1>1. UNCHANGED <<ms, wheelVars, threadVars>>
  BY DEF wheelVars
<1>2. TypeOK'
  <2>1. Now' = Now /\ Now \in Nat
    BY <1>1 DEF IInv, TypeOK, Now
  <2>2. target' \in Nat /\ wakeupState' \in Nat
    BY <2>1 DEF IInv, TypeOK, wakeVars, TERMINATE_THREAD
  <2>3. ready' \in BOOLEAN /\ queued' \in BOOLEAN /\ unparked' \in BOOLEAN
    BY DEF IInv, TypeOK, nodeVars, wakeVars
  <2>4. QED
    BY <1>1, <2>1, <2>2, <2>3 DEF IInv, TypeOK, wheelVars, threadVars
<1>3. MidList => MidList'
  BY <1>1 DEF MidList, IInv, TypeOK, wheelVars
<1>4. WheelLinked' /\ ListInv'
  BY <1>1, <1>3, WheelFrame DEF IInv
<1>5. TargetInv'
  BY DEF IInv, TargetInv, wheelVars
<1>6. ParkInv'
  BY DEF IInv, ParkInv, wakeVars, threadVars, nodeVars
<1>7. ArmedInv'
  <2>1. Used' = Used /\ entries' = entries /\ sameTick' = sameTick
    BY <1>1 DEF Used, wheelVars
  <2>2. QED
    BY <1>1, <2>1 DEF IInv, ArmedInv, nodeVars, wakeVars, threadVars
<1>8. QED
  BY <1>2, <1>4, <1>5, <1>6, <1>7 DEF IInv

\* A wheel without entries ...
Bare == entries = [k \in Key |-> Vacant] /\ wheel = NewWheel /\ nxt = Empty

\* ... and what holds of it.
BareInv ==
    /\ Used = {} /\ WheelLinked /\ ListInv
    /\ wheel \in [Slot -> [nextTick : Nat, head : Key \cup {Empty}]]
    /\ entries \in [Key -> [tick : Nat, prev : Key \cup {Empty},
                            next : Key \cup {Empty}, used : BOOLEAN]]

\* It is linked, and any ranking will do.
LEMMA BareWheel == Bare => BareInv
<1> SUFFICES ASSUME Bare PROVE BareInv
  OBVIOUS
<1> USE DEF Bare
<1>1. Used = {}
  BY DEF Used, Vacant
<1>2. WheelLinked
  BY <1>1 DEF WheelLinked, NewWheel
<1>3. ListInv
  <2> DEFINE r == [k \in Key |-> 0]
  <2>1. r \in [Key -> Int] /\ Ranked(r) /\ ScanInv(r) /\ CountInv(r)
    BY <1>1 DEF Ranked, ScanInv, CountInv
  <2>2. QED
    BY <2>1 DEF ListInv
<1>4. QED
  BY <1>1, <1>2, <1>3, TimerAssumption DEF NewWheel, Vacant, BareInv

\* The drop of the timer leaves an empty wheel, and a word that ends the thread.
LEMMA DropTimerKeeps == ASSUME IInv, DropTimer PROVE IInv'
<1>1. /\ lpc' = "gone" /\ wakeupState' = 0 /\ unparked' = TRUE
      /\ UNCHANGED <<ms, zeroTick, target, nodeVars, threadVars>>
      /\ tick' = 0 /\ nxt' = Empty /\ sameTick' = {}
      /\ wheel' = NewWheel /\ entries' = [k \in Key |-> Vacant]
  BY DEF DropTimer, Freed, TERMINATE_THREAD
<1>2. BareInv'
  <2>1. Bare'
    BY <1>1 DEF Bare, NewWheel, Vacant, Slot
  <2>2. QED
    BY <2>1, BareWheel, PTL
<1>3. TypeOK'
  BY <1>1, <1>2 DEF IInv, TypeOK, Now, BareInv, nodeVars, threadVars
<1>4. TargetInv' /\ ParkInv' /\ ArmedInv'
  BY <1>1 DEF TargetInv, ParkInv, ArmedInv
<1>5. QED
  BY <1>2, <1>3, <1>4 DEF IInv, BareInv

\* schedule_readiness(next_tick): the wakeup comes no later than any entry.
LEMMA ScheduleKeeps == ASSUME IInv, Schedule PROVE IInv'
<1>1. UNCHANGED <<ms, wheelVars, target, nodeVars, threadVars>> /\ lpc = "schedule" /\ lpc' = "idle"
  BY DEF Schedule
<1>2. NextTick \in Nat /\ wakeupState \in Nat /\ unparked \in BOOLEAN
  BY NextTickLeast DEF IInv, TypeOK
<1>3. /\ wakeupState' \in Nat /\ wakeupState' <= NextTick /\ wakeupState' <= wakeupState
      /\ wakeupState' # wakeupState => unparked'
      /\ unparked => unparked'
      /\ unparked' \in BOOLEAN
  <2>1. CASE wakeupState <= NextTick
    BY <1>2, <2>1 DEF Schedule, ScheduleReadiness, wakeVars
  <2>2. CASE ~(wakeupState <= NextTick)
    <3>1. wakeupState' = NextTick /\ unparked' = TRUE
      BY <2>2 DEF Schedule, ScheduleReadiness
    <3>2. QED
      BY <1>2, <2>2, <3>1
  <2>3. QED
    BY <2>1, <2>2
<1>4. TypeOK'
  BY <1>1, <1>3 DEF IInv, TypeOK, Now, wheelVars, nodeVars, threadVars
<1>5. WheelLinked' /\ ListInv'
  BY <1>1, WheelFrame DEF IInv, MidList
<1>6. TargetInv'
  BY <1>1 DEF TargetInv
<1>7. ParkInv'
  BY <1>1, <1>2, <1>3 DEF IInv, TypeOK, ParkInv, threadVars
<1>8. ArmedInv'
  <2>1. PICK r \in [Key -> Int] : ScanInv(r) /\ CountInv(r)
    BY DEF IInv, ListInv
  <2>2. ASSUME NEW k \in Used \ sameTick PROVE NextTick <= entries[k].tick
    <3>1. tick <= entries[k].tick /\ wheel[SlotOf(k)].nextTick <= entries[k].tick
      BY <1>1, <2>1 DEF ScanInv, CountInv, MidList, IInv, TypeOK, Used
    <3>2. TypeOK /\ SlotOf(k) \in Slot /\ entries[k].tick \in Nat
      BY EntryTypes DEF IInv
    <3>3. tick \in Nat /\ wheel[SlotOf(k)].nextTick \in Nat
      BY <3>2, EntryTypes
    <3>4. QED
      BY <1>2, <3>1, <3>2, <3>3, NextTickLeast
  <2>3. Used' = Used /\ entries' = entries /\ sameTick' = sameTick
    BY <1>1 DEF Used, wheelVars
  <2>4. \A k \in Used : entries[k].tick \in Nat
    BY EntryTypes DEF IInv
  <2>5. QED
    BY <1>2, <1>3, <2>2, <2>3, <2>4 DEF ArmedInv
<1>9. QED
  BY <1>4, <1>5, <1>6, <1>7, <1>8 DEF IInv

\* The list of a tick is through: all that was due in it is gone, and of the next
\* list nothing has been scanned.
LEMMA ScanAdvanceKeeps == ASSUME IInv, ScanAdvance PROVE IInv'
<1> DEFINE s == SlotFor(tick + 1)
<1>1. /\ lpc = "scan" /\ tick <= target /\ nxt = Empty /\ tick' = tick + 1
      /\ nxt' = wheel[s].head
      /\ UNCHANGED <<ms, entries, sameTick, zeroTick, lpc, target, nodeVars, wakeVars, threadVars>>
      /\ wheel' = IF wheel[s].head = Empty THEN [wheel EXCEPT ![s].nextTick = TickMax] ELSE wheel
  BY DEF ScanAdvance, Scanning
<1>2. TypeOK /\ tick \in Nat /\ tick + 1 \in Nat /\ target \in Nat
  BY DEF IInv, TypeOK
<1>3. s \in Slot
  BY <1>2, SlotType
<1> HIDE DEF s
<1>4. /\ wheel' \in [Slot -> [nextTick : Nat, head : Key \cup {Empty}]]
      /\ \A x \in Slot : /\ wheel'[x].head = wheel[x].head
                         /\ wheel[x].head # Empty => wheel'[x] = wheel[x]
  BY <1>1, <1>2, <1>3, TimerAssumption DEF TypeOK
<1>5. nxt' \in Key \cup {Empty}
  BY <1>1, <1>2, <1>3 DEF TypeOK
<1>6. TypeOK'
  BY <1>1, <1>2, <1>4, <1>5 DEF TypeOK, Now, nodeVars, wakeVars, threadVars
<1>7. Used' = Used /\ \A k \in Used : SlotOf(k)' = SlotOf(k) /\ SlotOf(k) \in Slot
  BY <1>1, <1>2, EntryTypes DEF Used, SlotOf
<1>8. WheelLinked'
  <2>1. WheelLinked
    BY DEF IInv
  <2>2. ASSUME NEW k \in Used
        PROVE  /\ IF entries'[k].prev = Empty THEN wheel'[SlotFor(entries'[k].tick)].head = k
                  ELSE entries'[k].prev \in Used' /\ entries'[entries'[k].prev].next = k
               /\ entries'[k].next # Empty =>
                    /\ entries'[k].next \in Used' /\ entries'[entries'[k].next].prev = k
                    /\ SlotFor(entries'[entries'[k].next].tick) = SlotFor(entries'[k].tick)
    BY <1>1, <1>4, <1>7, <2>1 DEF WheelLinked, SlotOf
  <2>3. ASSUME NEW x \in Slot, wheel'[x].head # Empty
        PROVE  /\ wheel'[x].head \in Used' /\ entries'[wheel'[x].head].prev = Empty
               /\ SlotFor(entries'[wheel'[x].head].tick) = x
    BY <1>1, <1>4, <1>7, <2>1, <2>3 DEF WheelLinked
  <2>4. nxt' # Empty => nxt' \in Used' /\ SlotFor(entries'[nxt'].tick) = SlotFor(tick')
    BY <1>1, <1>3, <1>4, <2>3 DEF s
  <2>5. QED
    BY <1>7, <2>2, <2>3, <2>4 DEF WheelLinked
<1>9. ListInv'
  <2>1. PICK r \in [Key -> Int] : Ranked(r) /\ ScanInv(r) /\ CountInv(r)
    BY DEF IInv, ListInv
  <2>2. \A k \in Used : wheel[SlotOf(k)].head # Empty /\ r[wheel[SlotOf(k)].head] <= r[k]
    BY <2>1 DEF Ranked
  <2>3. Ranked(r)'
    BY <1>1, <1>4, <1>7, <2>1 DEF Ranked
  <2>4. \A k \in Used : entries[k].tick \in Nat
    BY <1>2, EntryTypes
  <2>5. ASSUME NEW k \in Used \ sameTick
        PROVE  /\ entries[k].tick >= tick + 1
               /\ entries[k].tick = tick + 1 => nxt' # Empty /\ r[nxt'] <= r[k]
    <3>1. entries[k].tick >= tick /\ entries[k].tick # tick
      BY <1>1, <2>1 DEF ScanInv, Ahead
    <3>2. entries[k].tick = tick + 1 => SlotOf(k) = s
      BY DEF SlotOf, s
    <3>3. QED
      BY <1>1, <1>2, <2>2, <2>4, <3>1, <3>2
  <2>6. ScanInv(r)'
    BY <1>1, <1>7, <2>5 DEF ScanInv, Ahead
  <2>7. CountInv(r)'
    <3>1. ASSUME NEW k \in Used PROVE wheel[SlotOf(k)].nextTick <= entries[k].tick
      BY <1>1, <2>1 DEF CountInv, Ahead
    <3>2. ASSUME NEW k \in Used PROVE wheel'[SlotOf(k)'].nextTick <= entries'[k].tick
      BY <1>1, <1>4, <1>7, <2>2, <3>1
    <3>3. QED
      BY <1>7, <3>2 DEF CountInv
  <2>8. QED
    BY <2>1, <2>3, <2>6, <2>7 DEF ListInv
<1>10. TargetInv' /\ ParkInv' /\ ArmedInv'
  BY <1>1 DEF IInv, TargetInv, ParkInv, ArmedInv, wakeVars, threadVars
<1>11. QED
  BY <1>6, <1>8, <1>9, <1>10 DEF IInv

\* An entry of a later round is counted in next_tick and passed.
LEMMA ScanKeepKeeps == ASSUME IInv, ScanKeep PROVE IInv'
<1> DEFINE s == SlotFor(tick)
           w == ScannedWheel
<1>1. /\ lpc = "scan" /\ tick <= target /\ nxt # Empty /\ entries[nxt].tick > tick
      /\ nxt' = entries[nxt].next
      /\ UNCHANGED <<ms, tick, entries, sameTick, zeroTick, lpc, target, nodeVars, wakeVars,
                     threadVars>>
      /\ wheel' = [w EXCEPT ![s].nextTick = MinOf(@, entries[nxt].tick)]
  BY DEF ScanKeep, Scanning
<1>2. /\ TypeOK /\ WheelLinked /\ nxt \in Used /\ SlotOf(nxt) = s /\ s \in Slot /\ nxt \in Key
      /\ entries[nxt].tick \in Nat /\ entries[nxt].next \in Key \cup {Empty} /\ tick \in Nat
  BY <1>1, EntryTypes DEF IInv, WheelLinked, SlotOf
<1>3. /\ w \in [Slot -> [nextTick : Nat, head : Key \cup {Empty}]]
      /\ \A x \in Slot : w[x].head = wheel[x].head
      /\ \A x \in Slot : w[x].nextTick = wheel[x].nextTick \/ (x = s /\ nxt = wheel[x].head)
  BY <1>2, ScannedHeads
<1> HIDE DEF s, w
<1>4. /\ MinOf(w[s].nextTick, entries[nxt].tick) \in Nat
      /\ MinOf(w[s].nextTick, entries[nxt].tick) <= entries[nxt].tick
      /\ MinOf(w[s].nextTick, entries[nxt].tick) <= w[s].nextTick
  BY <1>2, <1>3 DEF MinOf
<1>5. /\ wheel' \in [Slot -> [nextTick : Nat, head : Key \cup {Empty}]]
      /\ \A x \in Slot : wheel'[x].head = wheel[x].head
      /\ \A x \in Slot \ {s} : wheel'[x].nextTick = wheel[x].nextTick
      /\ wheel'[s].nextTick <= entries[nxt].tick
      /\ nxt = wheel[s].head \/ wheel'[s].nextTick <= wheel[s].nextTick
  BY <1>1, <1>2, <1>3, <1>4
<1>6. TypeOK'
  BY <1>1, <1>2, <1>5 DEF TypeOK, Now, nodeVars, wakeVars, threadVars
<1>7. Used' = Used /\ \A k \in Used : SlotOf(k)' = SlotOf(k) /\ SlotOf(k) \in Slot
  BY <1>1, <1>2, EntryTypes DEF Used, SlotOf
<1>8. WheelLinked'
  <2>1. ASSUME NEW k \in Used
        PROVE  /\ IF entries'[k].prev = Empty THEN wheel'[SlotFor(entries'[k].tick)].head = k
                  ELSE entries'[k].prev \in Used' /\ entries'[entries'[k].prev].next = k
               /\ entries'[k].next # Empty =>
                    /\ entries'[k].next \in Used' /\ entries'[entries'[k].next].prev = k
                    /\ SlotFor(entries'[entries'[k].next].tick) = SlotFor(entries'[k].tick)
    BY <1>1, <1>2, <1>5, <1>7 DEF WheelLinked, SlotOf
  <2>2. ASSUME NEW x \in Slot, wheel'[x].head # Empty
        PROVE  /\ wheel'[x].head \in Used' /\ entries'[wheel'[x].head].prev = Empty
               /\ SlotFor(entries'[wheel'[x].head].tick) = x
    BY <1>1, <1>2, <1>5, <1>7, <2>2 DEF WheelLinked
  <2>3. nxt' # Empty => nxt' \in Used' /\ SlotFor(entries'[nxt'].tick) = SlotFor(tick')
    BY <1>1, <1>2, <1>7 DEF WheelLinked, SlotOf, s
  <2>4. QED
    BY <1>7, <2>1, <2>2, <2>3 DEF WheelLinked
<1>9. ListInv'
  <2>1. PICK r \in [Key -> Int] : Ranked(r) /\ ScanInv(r) /\ CountInv(r)
    BY DEF IInv, ListInv
  <2>2. Ranked(r)'
    BY <1>1, <1>5, <1>7, <2>1 DEF Ranked
  <2>3. ASSUME NEW k \in Used, SlotOf(k) = s, k # nxt, r[nxt] <= r[k]
        PROVE  nxt' # Empty /\ r[nxt'] <= r[k]
    <3>1. r[nxt] \in Int /\ r[k] \in Int
      BY <1>2, EntryTypes
    <3>2. r[nxt] < r[k]
      BY <1>2, <2>1, <2>3, <3>1 DEF Ranked
    <3>3. QED
      BY <1>1, <1>2, <2>1, <2>3, <3>2 DEF Ranked
  <2>4. ScanInv(r)'
    <3>1. ASSUME NEW k \in Used \ sameTick
          PROVE  /\ entries[k].tick >= tick
                 /\ entries[k].tick = tick => nxt' # Empty /\ r[nxt'] <= r[k]
      <4>1. entries[k].tick >= tick /\ (entries[k].tick = tick => r[nxt] <= r[k])
        BY <2>1 DEF ScanInv, Ahead
      <4>2. entries[k].tick = tick => k # nxt /\ SlotOf(k) = s
        BY <1>1, <1>2 DEF SlotOf, s
      <4>3. QED
        BY <2>3, <4>1, <4>2
    <3>2. QED
      BY <1>1, <1>7, <3>1 DEF ScanInv, Ahead
  <2>5. CountInv(r)'
    <3>1. ASSUME NEW k \in Used
          PROVE  \/ wheel'[SlotOf(k)].nextTick <= entries[k].tick
                 \/ SlotOf(k) = s /\ nxt' # Empty /\ r[nxt'] <= r[k]
      <4>1. entries[k].tick \in Nat /\ SlotOf(k) \in Slot /\ r[k] \in Int /\ r[nxt] \in Int
            /\ wheel[SlotOf(k)].nextTick \in Nat /\ wheel'[SlotOf(k)].nextTick \in Nat
        BY <1>2, <1>5, <1>7, EntryTypes
      <4>2. wheel[SlotOf(k)].nextTick <= entries[k].tick \/ (SlotOf(k) = s /\ r[nxt] <= r[k])
        BY <2>1 DEF CountInv, Ahead, s
      <4>3. SlotOf(k) = s /\ nxt = wheel[s].head => r[nxt] <= r[k]
        BY <2>1 DEF Ranked
      <4>4. CASE SlotOf(k) = s /\ r[nxt] <= r[k]
        BY <1>5, <2>3, <4>4
      <4>5. CASE SlotOf(k) # s
        BY <1>5, <4>1, <4>2, <4>5
      <4>6. CASE SlotOf(k) = s /\ ~(r[nxt] <= r[k])
        BY <1>5, <4>1, <4>2, <4>3, <4>6
      <4>7. QED
        BY <4>4, <4>5, <4>6
    <3>2. MidList' /\ SlotFor(tick') = s
      BY <1>1 DEF MidList, s
    <3>3. QED
      BY <1>1, <1>7, <3>1, <3>2 DEF CountInv, Ahead
  <2>6. QED
    BY <2>1, <2>2, <2>4, <2>5 DEF ListInv
<1>10. TargetInv' /\ ParkInv' /\ ArmedInv'
  BY <1>1 DEF IInv, TargetInv, ParkInv, ArmedInv, wakeVars, threadVars
<1>11. QED
  BY <1>6, <1>8, <1>9, <1>10 DEF IInv

\* What was ahead of the scan is ahead of it after an entry is removed, though
\* that may be the very entry the scan was to look at next.
LEMMA AheadMoves ==
    ASSUME TypeOK, WheelLinked, NEW r \in [Key -> Int], Ranked(r), NEW k \in Used,
           nxt' = IF nxt = k THEN entries[k].next ELSE nxt,
           NEW j \in Used, j # k, SlotOf(j) = SlotFor(tick), Ahead(j, r)
    PROVE  Ahead(j, r)'
<1>1. CASE nxt # k
  BY <1>1 DEF Ahead
<1>2. CASE nxt = k
  <2>1. SlotOf(k) = SlotOf(j) /\ r[k] <= r[j] /\ r[k] \in Int /\ r[j] \in Int
    BY <1>2, EntryTypes DEF Ahead, WheelLinked, SlotOf
  <2>2. r[k] < r[j]
    BY <2>1 DEF Ranked
  <2>3. entries[k].next # Empty /\ r[entries[k].next] <= r[j]
    BY <2>1, <2>2 DEF Ranked
  <2>4. QED
    BY <1>2, <2>3 DEF Ahead
<1>3. QED
  BY <1>1, <1>2

\* cancel_timeout, from outside or from a callback between two calls of poll.
LEMMA CancelTimeoutKeeps == ASSUME IInv, NEW k \in Key, CancelTimeout(k) PROVE IInv'
<1>1. /\ k \in Used /\ Remove(k, wheel) /\ (lpc = "idle" \/ lpc = "callback")
      /\ UNCHANGED <<ms, tick, zeroTick, lpc, target, nodeVars, wakeVars, threadVars>>
  BY DEF CancelTimeout, Free
<1>2. TypeOK /\ WheelLinked /\ wheel \in [Slot -> [nextTick : Nat, head : Key \cup {Empty}]]
  BY DEF IInv, TypeOK
<1>3. PICK r \in [Key -> Int] : Ranked(r) /\ ScanInv(r) /\ CountInv(r)
  BY DEF IInv, ListInv
<1>4. /\ Used' = Used \ {k}
      /\ \A j \in Used' : entries'[j].tick = entries[j].tick
      /\ \A s \in Slot : wheel'[s].nextTick = wheel[s].nextTick
      /\ nxt' = IF nxt = k THEN entries[k].next ELSE nxt
      /\ entries' \in [Key -> [tick : Nat, prev : Key \cup {Empty},
                               next : Key \cup {Empty}, used : BOOLEAN]]
      /\ wheel' \in [Slot -> [nextTick : Nat, head : Key \cup {Empty}]]
      /\ sameTick' = sameTick \ {k}
  BY <1>1, <1>2, <1>3, Unlinks
<1>5. TypeOK'
  <2>1. nxt' \in Key \cup {Empty}
    BY <1>2, <1>4, EntryTypes
  <2>2. QED
    BY <1>1, <1>2, <1>4, <2>1 DEF TypeOK, Now, nodeVars, wakeVars, threadVars
<1>6. WheelLinked' /\ Ranked(r)'
  BY <1>1, <1>2, <1>3, RemoveKeeps
<1>7. \A j \in Used' : j \in Used /\ j # k /\ SlotOf(j)' = SlotOf(j) /\ SlotOf(j) \in Slot
  BY <1>2, <1>4, EntryTypes DEF SlotOf
<1>8. \A j \in Used' : SlotOf(j) = SlotFor(tick) /\ Ahead(j, r) => Ahead(j, r)'
  BY <1>1, <1>2, <1>3, <1>4, <1>7, AheadMoves
<1>9. ScanInv(r)'
  <2>1. ASSUME NEW j \in Used', j \notin sameTick'
        PROVE  entries'[j].tick >= tick /\ (entries'[j].tick = tick => Ahead(j, r)')
    <3>1. entries[j].tick >= tick /\ (entries[j].tick = tick => Ahead(j, r))
      BY <1>3, <1>4, <1>7, <2>1 DEF ScanInv
    <3>2. entries[j].tick = tick => SlotOf(j) = SlotFor(tick)
      BY DEF SlotOf
    <3>3. QED
      BY <1>4, <1>8, <3>1, <3>2
  <2>2. QED
    BY <1>1, <2>1 DEF ScanInv
<1>10. CountInv(r)'
  <2>1. MidList' = MidList /\ tick' = tick
    BY <1>1 DEF MidList
  <2>2. ASSUME NEW j \in Used'
        PROVE  \/ wheel'[SlotOf(j)'].nextTick <= entries'[j].tick
               \/ MidList' /\ SlotOf(j)' = SlotFor(tick') /\ Ahead(j, r)'
    <3>1. \/ wheel[SlotOf(j)].nextTick <= entries[j].tick
          \/ MidList /\ SlotOf(j) = SlotFor(tick) /\ Ahead(j, r)
      BY <1>3, <1>7 DEF CountInv
    <3>2. QED
      BY <1>4, <1>7, <1>8, <2>1, <3>1
  <2>3. QED
    BY <2>2 DEF CountInv
<1>11. ListInv'
  BY <1>3, <1>6, <1>9, <1>10 DEF ListInv
<1>12. TargetInv' /\ ParkInv'
  BY <1>1 DEF IInv, TargetInv, ParkInv, wakeVars, threadVars
<1>13. ArmedInv'
  <2>1. \A j \in Used' \ sameTick' : j \in Used \ sameTick /\ entries'[j].tick = entries[j].tick
    BY <1>4
  <2>2. QED
    BY <1>1, <2>1 DEF IInv, ArmedInv, nodeVars, wakeVars, threadVars
<1>14. QED
  BY <1>5, <1>6, <1>11, <1>12, <1>13 DEF IInv

\* poll returns an entry that is due.
LEMMA ScanFireKeeps == ASSUME IInv, ScanFire PROVE IInv'
<1>1. /\ Remove(nxt, ScannedWheel) /\ nxt # Empty /\ lpc' = "callback" /\ lpc = "scan"
      /\ UNCHANGED <<ms, tick, zeroTick, target, nodeVars, wakeVars, threadVars>>
  BY DEF ScanFire, Scanning
<1>2. PICK k \in Used : k = nxt
  BY <1>1 DEF IInv, WheelLinked
<1>3. PICK w \in [Slot -> [nextTick : Nat, head : Key \cup {Empty}]] :
        /\ w = ScannedWheel
        /\ \A s \in Slot : w[s].head = wheel[s].head
        /\ \A s \in Slot : \/ w[s].nextTick = wheel[s].nextTick
                           \/ s = SlotFor(tick) /\ nxt = wheel[s].head
  BY ScannedHeads DEF IInv
<1>4. TypeOK /\ WheelLinked /\ Remove(k, w)
  BY <1>1, <1>2, <1>3 DEF IInv
<1>5. PICK r \in [Key -> Int] : Ranked(r) /\ ScanInv(r) /\ CountInv(r)
  BY DEF IInv, ListInv
<1>6. /\ Used' = Used \ {k}
      /\ \A j \in Used' : entries'[j].tick = entries[j].tick
      /\ \A s \in Slot : wheel'[s].nextTick = w[s].nextTick
      /\ nxt' = IF nxt = k THEN entries[k].next ELSE nxt
      /\ entries' \in [Key -> [tick : Nat, prev : Key \cup {Empty},
                               next : Key \cup {Empty}, used : BOOLEAN]]
      /\ wheel' \in [Slot -> [nextTick : Nat, head : Key \cup {Empty}]]
      /\ sameTick' = sameTick \ {k}
  BY <1>3, <1>4, <1>5, Unlinks
<1>7. TypeOK'
  <2>1. nxt' \in Key \cup {Empty}
    BY <1>4, <1>6, EntryTypes
  <2>2. QED
    BY <1>1, <1>4, <1>6, <2>1 DEF TypeOK, Now, nodeVars, wakeVars, threadVars
<1>8. WheelLinked' /\ Ranked(r)'
  BY <1>1, <1>3, <1>4, <1>5, RemoveKeeps
<1>9. \A j \in Used' : j \in Used /\ j # k /\ SlotOf(j)' = SlotOf(j) /\ SlotOf(j) \in Slot
  BY <1>4, <1>6, EntryTypes DEF SlotOf
<1>10. \A j \in Used' : SlotOf(j) = SlotFor(tick) /\ Ahead(j, r) => Ahead(j, r)'
  BY <1>4, <1>5, <1>6, <1>9, AheadMoves
<1>11. ScanInv(r)'
  <2>1. ASSUME NEW j \in Used', j \notin sameTick'
        PROVE  entries'[j].tick >= tick /\ (entries'[j].tick = tick => Ahead(j, r)')
    <3>1. entries[j].tick >= tick /\ (entries[j].tick = tick => Ahead(j, r))
      BY <1>5, <1>6, <1>9, <2>1 DEF ScanInv
    <3>2. entries[j].tick = tick => SlotOf(j) = SlotFor(tick)
      BY DEF SlotOf
    <3>3. QED
      BY <1>6, <1>10, <3>1, <3>2
  <2>2. QED
    BY <1>1, <2>1 DEF ScanInv
<1>12. CountInv(r)'
  <2>1. MidList' /\ tick' = tick
    BY <1>1 DEF MidList
  <2>2. ASSUME NEW j \in Used'
        PROVE  \/ wheel'[SlotOf(j)'].nextTick <= entries'[j].tick
               \/ SlotOf(j)' = SlotFor(tick') /\ Ahead(j, r)'
    <3>1. \/ wheel[SlotOf(j)].nextTick <= entries[j].tick
          \/ SlotOf(j) = SlotFor(tick) /\ Ahead(j, r)
      BY <1>5, <1>9 DEF CountInv
    <3>2. \/ w[SlotOf(j)].nextTick = wheel[SlotOf(j)].nextTick
          \/ SlotOf(j) = SlotFor(tick) /\ Ahead(j, r)
      BY <1>1, <1>3, <1>5, <1>9 DEF Ranked, Ahead
    <3>3. QED
      BY <1>6, <1>9, <1>10, <2>1, <3>1, <3>2
  <2>3. QED
    BY <2>1, <2>2 DEF CountInv
<1>13. ListInv'
  BY <1>5, <1>8, <1>11, <1>12 DEF ListInv
<1>14. TargetInv' /\ ParkInv' /\ ArmedInv'
  BY <1>1 DEF IInv, TargetInv, ParkInv, ArmedInv, wakeVars, threadVars
<1>15. QED
  BY <1>7, <1>8, <1>13, <1>14 DEF IInv

\* set_timeout, from outside or from a callback: the wakeup is lowered to the new
\* entry, which is in front of the scan unless it is of the wheel's own tick.
LEMMA SetTimeoutKeeps ==
    ASSUME IInv, NEW k \in Key, NEW d \in Delay, SetTimeout(k, d)
    PROVE  IInv'
<1>1. /\ k \notin Used /\ (lpc = "idle" \/ lpc = "callback")
      /\ UNCHANGED <<ms, tick, nxt, lpc, target, nodeVars, threadVars>>
  BY DEF SetTimeout, Free
<1>2. TypeOK /\ WheelLinked
  BY DEF IInv
<1>3. PICK r \in [Key -> Int] : Ranked(r) /\ ScanInv(r) /\ CountInv(r)
  BY DEF IInv, ListInv
<1>4. PICK t \in Nat :
        /\ t >= tick
        /\ Used' = Used \cup {k}
        /\ entries'[k].tick = t
        /\ \A j \in Used : entries'[j].tick = entries[j].tick
        /\ \A s \in Slot \ {SlotFor(t)} : wheel'[s] = wheel[s]
        /\ wheel'[SlotFor(t)].nextTick \in Nat
        /\ wheel'[SlotFor(t)].nextTick <= t
        /\ wheel'[SlotFor(t)].nextTick <= wheel[SlotFor(t)].nextTick
        /\ wakeupState' \in Nat /\ wakeupState' <= t /\ wakeupState' <= wakeupState
        /\ wakeupState' # wakeupState => unparked'
        /\ unparked => unparked'
        /\ unparked' \in BOOLEAN
        /\ sameTick' = IF t = tick THEN sameTick \cup {k} ELSE sameTick
        /\ entries' \in [Key -> [tick : Nat, prev : Key \cup {Empty},
                                 next : Key \cup {Empty}, used : BOOLEAN]]
        /\ wheel' \in [Slot -> [nextTick : Nat, head : Key \cup {Empty}]]
  BY <1>1, <1>2, Links
<1>5. TypeOK'
  <2>1. zeroTick' \in BOOLEAN
    BY DEF SetTimeout
  <2>2. QED
    BY <1>1, <1>2, <1>4, <2>1 DEF TypeOK, Now, nodeVars, threadVars
<1>6. PICK q \in [Key -> Int] : Ranked(q)' /\ \A j \in Used : q[j] = r[j]
  BY <1>1, <1>2, <1>3, InsertKeeps
<1>7. WheelLinked'
  BY <1>1, <1>2, <1>3, InsertKeeps
<1>8. \A j \in Used : /\ SlotOf(j)' = SlotOf(j) /\ SlotOf(j) \in Slot /\ j # k
                      /\ entries[j].tick \in Nat /\ wheel[SlotOf(j)].nextTick \in Nat
  BY <1>1, <1>2, <1>4, EntryTypes DEF SlotOf
<1>9. \A j \in Used : Ahead(j, r) => Ahead(j, q)'
  BY <1>1, <1>2, <1>6 DEF Ahead, WheelLinked
<1>10. ScanInv(q)'
  <2>1. ASSUME NEW j \in Used', j \notin sameTick'
        PROVE  entries'[j].tick >= tick /\ (entries'[j].tick = tick => Ahead(j, q)')
    <3>1. CASE j = k
      BY <1>4, <2>1, <3>1
    <3>2. CASE j # k
      <4>1. j \in Used \ sameTick
        BY <1>4, <2>1, <3>2
      <4>2. QED
        BY <1>3, <1>4, <1>9, <4>1 DEF ScanInv
    <3>3. QED
      BY <3>1, <3>2
  <2>2. QED
    BY <1>1, <2>1 DEF ScanInv
<1>11. CountInv(q)'
  <2>1. MidList' = MidList /\ tick' = tick
    BY <1>1 DEF MidList
  <2>2. ASSUME NEW j \in Used'
        PROVE  \/ wheel'[SlotOf(j)'].nextTick <= entries'[j].tick
               \/ MidList' /\ SlotOf(j)' = SlotFor(tick') /\ Ahead(j, q)'
    <3>1. CASE j = k
      BY <1>4, <3>1 DEF SlotOf
    <3>2. CASE j # k
      <4>1. j \in Used
        BY <1>4, <3>2
      <4>2. \/ wheel[SlotOf(j)].nextTick <= entries[j].tick
            \/ MidList /\ SlotOf(j) = SlotFor(tick) /\ Ahead(j, r)
        BY <1>3, <4>1 DEF CountInv
      <4>3. wheel'[SlotOf(j)].nextTick \in Nat
            /\ wheel'[SlotOf(j)].nextTick <= wheel[SlotOf(j)].nextTick
        BY <1>4, <1>8, <4>1
      <4>4. QED
        BY <1>4, <1>8, <1>9, <2>1, <4>1, <4>2, <4>3
    <3>3. QED
      BY <3>1, <3>2
  <2>3. QED
    BY <2>2 DEF CountInv
<1>12. ListInv'
  BY <1>6, <1>10, <1>11 DEF ListInv
<1>13. TargetInv'
  BY <1>1 DEF IInv, TargetInv
<1>14. ParkInv'
  BY <1>1, <1>2, <1>4, TimerAssumption DEF IInv, TypeOK, ParkInv, threadVars
<1>15. ArmedInv'
  <2>1. ASSUME NEW j \in Used' \ sameTick', j # k
        PROVE  j \in Used \ sameTick /\ entries'[j].tick = entries[j].tick
               /\ entries[j].tick \in Nat
    BY <1>4, <1>8, <2>1
  <2>2. wakeupState \in Nat
    BY <1>2 DEF TypeOK
  <2>3. QED
    BY <1>1, <1>4, <2>1, <2>2 DEF IInv, ArmedInv, nodeVars, threadVars
<1>16. QED
  BY <1>5, <1>7, <1>12, <1>13, <1>14, <1>15 DEF IInv

-----------------------------------------------------------------------------
(* The theorems.                                                           *)

\* IInv holds at the start: there are no entries.
LEMMA InitIInv == Init => IInv
<1> SUFFICES ASSUME Init PROVE IInv
  OBVIOUS
<1>1. BareInv
  BY BareWheel DEF Init, Bare
<1>2. TypeOK
  <2>1. Now \in Nat
    BY NowType, TimerAssumption DEF Init
  <2>2. sleepUntil \in Nat /\ wakeupState \in Nat /\ ms \in 0..MaxMs
    BY TimerAssumption DEF Init
  <2>3. QED
    BY <1>1, <2>1, <2>2 DEF Init, TypeOK, BareInv
<1>3. TargetInv /\ ParkInv /\ ArmedInv
  BY <1>1, TimerAssumption DEF Init, TargetInv, ParkInv, ArmedInv, BareInv
<1>4. QED
  BY <1>1, <1>2, <1>3 DEF IInv, BareInv

\* Every step keeps IInv.
LEMMA NextIInv == IInv /\ [Next]_vars => IInv'
<1> SUFFICES ASSUME IInv, [Next]_vars PROVE IInv'
  OBVIOUS
<1>1. ASSUME LoopStep PROVE IInv'
  BY <1>1, LoopFrameKeeps, ScanAdvanceKeeps, ScanFireKeeps, ScanKeepKeeps, ScheduleKeeps
     DEF LoopStep
<1>2. ASSUME WakeupStep PROVE IInv'
  BY <1>2, ThreadKeeps DEF WakeupStep
<1>3. CASE UNCHANGED vars
  <2>1. UNCHANGED <<ms, wheelVars, lpc, target, nodeVars, wakeVars, threadVars>>
    BY <1>3 DEF vars
  <2>2. TypeOK'
    BY <2>1 DEF IInv, TypeOK, Now, wheelVars, nodeVars, wakeVars, threadVars
  <2>3. WheelLinked' /\ ListInv'
    BY <2>1, WheelFrame DEF IInv, MidList, wheelVars
  <2>4. TargetInv' /\ ParkInv' /\ ArmedInv'
    BY <2>1 DEF IInv, TargetInv, ParkInv, ArmedInv, Used, wheelVars, nodeVars, wakeVars,
       threadVars
  <2>5. QED
    BY <2>2, <2>3, <2>4 DEF IInv
<1>4. QED
  BY <1>1, <1>2, <1>3, ClockKeeps, ThreadKeeps, DropTimerKeeps, CancelTimeoutKeeps,
     SetTimeoutKeeps DEF Next

\* Only a timeout at tick 0 can put TERMINATE_THREAD where the thread reads it.
LEMMA LifeKeeps == IInv /\ LifeInv /\ [Next]_vars => LifeInv'
<1> SUFFICES ASSUME IInv, LifeInv, [Next]_vars, ~zeroTick', lpc' # "gone" PROVE LifeInv'
  BY DEF LifeInv
<1>1. TypeOK /\ WheelLinked /\ TickMax \in Nat /\ TickMax # 0
  BY TimerAssumption DEF IInv
<1>2. ~zeroTick /\ lpc # "gone"
  BY <1>1 DEF Next, LoopStep, WakeupStep, Clock, TimersEvent, PollTo, ScanAdvance, ScanFire,
     ScanKeep, ScanDone, Schedule, DropTimer, WakeupTerminates, Park, Unpark, Claim, Fire,
     CancelTimeout, SetTimeout, Free, Scanning, wheelVars, vars, TypeOK
<1>3. /\ wakeupState # 0 /\ sleepUntil # 0 /\ wpc # "dead"
      /\ \A s \in Slot : wheel[s].nextTick # 0
      /\ \A k \in Used : entries[k].tick # 0
  BY <1>2 DEF LifeInv
<1>4. CASE Clock \/ TimersEvent \/ PollTo \/ ScanDone \/ UNCHANGED vars
  BY <1>3, <1>4 DEF Clock, TimersEvent, PollTo, ScanDone, LifeInv, Used, wheelVars, nodeVars,
     wakeVars, threadVars, vars
<1>5. CASE WakeupTerminates \/ Park \/ Unpark \/ Claim \/ Fire
  BY <1>1, <1>3, <1>5 DEF WakeupTerminates, Park, Unpark, Claim, Fire, TERMINATE_THREAD, LifeInv,
     Used, wheelVars, nodeVars, wakeVars
<1>6. CASE Schedule
  <2>1. NextTick # 0
    BY <1>1, <1>3, NextTickLeast
  <2>2. QED
    BY <1>3, <1>6, <2>1 DEF Schedule, ScheduleReadiness, LifeInv, Used, wheelVars, wakeVars,
       threadVars
<1>7. CASE ScanAdvance
  <2>1. \A s \in Slot : wheel'[s].nextTick # 0
    BY <1>1, <1>3, <1>7 DEF ScanAdvance, TypeOK
  <2>2. QED
    BY <1>3, <1>7, <2>1 DEF ScanAdvance, LifeInv, Used, wakeVars, threadVars
<1>8. ASSUME Scanning, nxt # Empty PROVE \A s \in Slot : ScannedWheel[s].nextTick # 0
  BY <1>1, <1>3 DEF ScannedWheel, TypeOK
<1>9. ASSUME NEW k \in Key, NEW w \in [Slot -> [nextTick : Nat, head : Key \cup {Empty}]],
             \A s \in Slot : w[s].nextTick # 0, Remove(k, w)
      PROVE  (\A s \in Slot : wheel'[s].nextTick # 0) /\ \A j \in Used' : entries'[j].tick # 0
  <2>1. \A s \in Slot : wheel'[s].nextTick # 0
    BY <1>9 DEF Remove
  <2>2. \A j \in Key : /\ j = k => ~entries'[j].used
                       /\ j # k => /\ entries'[j].used = entries[j].used
                                   /\ entries'[j].tick = entries[j].tick
    BY <1>1, <1>9 DEF Remove, Vacant, TypeOK
  <2>3. QED
    BY <1>3, <2>1, <2>2 DEF Used
<1>10. CASE ScanFire
  <2>1. nxt \in Key
    BY <1>1, <1>10 DEF ScanFire, TypeOK
  <2>2. QED
    BY <1>1, <1>3, <1>8, <1>9, <1>10, <2>1, ScannedHeads DEF ScanFire, LifeInv, wakeVars, threadVars
<1>11. CASE ScanKeep
  <2>1. nxt \in Used
    BY <1>1, <1>11 DEF ScanKeep, WheelLinked
  <2>2. \A s \in Slot : wheel'[s].nextTick # 0
    BY <1>1, <1>3, <1>8, <1>11, <2>1, ScannedHeads DEF ScanKeep, MinOf
  <2>3. QED
    BY <1>3, <1>11, <2>2 DEF ScanKeep, LifeInv, Used, wakeVars, threadVars
<1>12. ASSUME NEW k \in Key, CancelTimeout(k) PROVE LifeInv'
  BY <1>1, <1>3, <1>9, <1>12 DEF CancelTimeout, LifeInv, TypeOK, wakeVars, threadVars
<1>13. ASSUME NEW k \in Key, NEW d \in Delay, SetTimeout(k, d) PROVE LifeInv'
  <2> DEFINE t == InsertTick(DurationToTick(ms + d))
             s == SlotFor(t)
  <2>1. /\ entries' = [j \in Key |->
              IF j = k THEN [tick |-> t, prev |-> Empty, next |-> wheel[s].head, used |-> TRUE]
              ELSE IF j = wheel[s].head THEN [entries[j] EXCEPT !.prev = k] ELSE entries[j]]
        /\ wheel' = [wheel EXCEPT ![s] = [nextTick |-> MinOf(t, wheel[s].nextTick), head |-> k]]
        /\ ScheduleReadiness(t) /\ UNCHANGED threadVars
        /\ zeroTick' = (zeroTick \/ t = 0)
    BY <1>13 DEF SetTimeout, TERMINATE_THREAD
  <2>2. t # 0
    BY <2>1
  <2> HIDE DEF t, s
  <2>3. wakeupState' # 0 /\ sleepUntil' # 0 /\ wpc' # "dead"
    BY <1>3, <2>1, <2>2 DEF ScheduleReadiness, wakeVars, threadVars
  <2>4. \A x \in Slot : wheel'[x].nextTick # 0
    BY <1>1, <1>3, <2>1, <2>2 DEF MinOf, TypeOK
  <2>5. \A j \in Key : /\ j = k => entries'[j].tick = t
                       /\ j # k => /\ entries'[j].used = entries[j].used
                                   /\ entries'[j].tick = entries[j].tick
    BY <1>1, <2>1 DEF TypeOK
  <2>6. \A j \in Used' : entries'[j].tick # 0
    BY <1>3, <2>2, <2>5 DEF Used
  <2>7. QED
    BY <2>3, <2>4, <2>6 DEF LifeInv
<1>14. QED
  BY <1>2, <1>4, <1>5, <1>6, <1>7, <1>10, <1>11, <1>12, <1>13 DEF Next, LoopStep, WakeupStep, DropTimer

\* IInv is an invariant.
LEMMA Invariance == Spec => []IInv
BY InitIInv, NextIInv, PTL DEF Spec

\* The lists of the wheel stay linked, whatever insert, unlink and the scan do
\* between two calls of poll.
THEOREM WheelIsSound == Spec => []WheelSound
<1>1. IInv => WheelSound
  BY DEF IInv, WheelSound
<1>2. QED
  BY <1>1, Invariance, PTL

\* poll_to leaves nothing due behind but what was inserted at the wheel's tick.
THEOREM PollMissesNothing == Spec => []OnlySameTickMissed
<1>1. ASSUME IInv PROVE OnlySameTickMissed
  <2>1. PICK r \in [Key -> Int] : ScanInv(r)
    BY <1>1 DEF IInv, ListInv
  <2>2. \A k \in Used : entries[k].tick \in Nat
    BY <1>1, EntryTypes DEF IInv
  <2>3. tick \in Nat /\ target \in Nat
    BY <1>1 DEF IInv, TypeOK
  <2>4. QED
    BY <1>1, <2>1, <2>2, <2>3 DEF IInv, TargetInv, ScanInv, OnlySameTickMissed
<1>2. QED
  BY <1>1, Invariance, PTL

\* The wakeup thread lives, unless a timeout was set at tick 0, and is armed for
\* every other entry while the loop is outside the timer, though poll_to clears a
\* readiness the thread may just have set.
THEOREM WakeupIsArmed == Spec => []WakeupArmed
<1>1. IInv /\ LifeInv => WakeupArmed
  BY DEF IInv, ParkInv, ArmedInv, LifeInv, WakeupArmed
<1>2. Init => LifeInv
  BY TimerAssumption DEF Init, LifeInv, NewWheel, Vacant, Used
<1>3. QED
  BY <1>1, <1>2, LifeKeeps, Invariance, PTL DEF Spec

=============================================================================
