----------------------------- MODULE Yard_proofs -----------------------------
(***************************************************************************)
(* Proofs about the yard: for any number of zones, slots, assets and       *)
(* requests, any demonstration yard and any identifiers.                   *)
(*                                                                         *)
(* A request is a plan of statements.  ReqInv says which plans there are   *)
(* and what a request knows at each point of one, whatever else runs.      *)
(* While no two requests have overlapped and none has died, CalmInv says   *)
(* how far slots and assets are apart at each point of the one that runs:  *)
(* by its statements still due, on the slot it leaves and the slot it      *)
(* takes, and nowhere else but where a drop by an outdated map went wrong. *)
(***************************************************************************)
EXTENDS Yard, SequenceTheorems, FiniteSetTheorems, WellFoundedInduction, TLAPS

-----------------------------------------------------------------------------
(* Requests                                                                *)

\* The plans by which an asset changes its slot, and what is left of them.
SlotPlans == {<<"free", "assign", "occupy">>, <<"free", "assign">>, <<"assign", "occupy">>,
              <<"assign">>, <<"occupy">>, <<"free", "occupy", "assign">>, <<"occupy", "assign">>}

Due(plan, statement) == \E i \in 1 .. Len(plan) : plan[i] = statement

\* A request that lays out zones: k slots of the zone inserted last, then the zones
\* that are left, and then, for a camera's read, the search for a slot and an asset.
LayoutReq(r, k) ==
  LET n == k + Len(r.kinds) IN
  /\ r.asset = None /\ r.status = "gate_in" /\ r.slot = NoRow /\ r.old = NoRow
  /\ k > 0 => r.zone \in Zones
  /\ \A i \in 1 .. k : r.plan[i] = "slot"
  /\ \A i \in k + 1 .. n : r.plan[i] = "zone"
  /\ \/ Len(r.plan) = n
     \/ Len(r.plan) = n + 2 /\ r.plan[n + 1] = "pick" /\ r.plan[n + 2] = "find" /\ r.ident # None

\* A request about to find its asset: by what a camera read, or the one dropped, which is
\* one of those present.
FindReq(r, present) ==
  /\ r.plan = <<"find">> /\ r.old = NoRow
  /\ \/ r.ident # None /\ r.asset = None /\ r.status = "gate_in"
     \/ r.ident = None /\ r.asset \in present

\* A request that has found it.
SlotReq(r, present) ==
  /\ r.plan \in SlotPlans
  /\ Due(r.plan, "free") => r.old # NoRow
  /\ Due(r.plan, "occupy") => r.slot # NoRow
  /\ r.asset # None => r.asset \in present
  /\ r.ident = None => r.asset # None
  /\ r.ident # None => r.status = "gate_in"

ReqInv(r, present) ==
  r.plan # <<>> =>
    (\E k \in Nat : LayoutReq(r, k)) \/ FindReq(r, present) \/ SlotReq(r, present)

\* The slots that are there have a zone row to refer to.
SlotsPlaced == \A s \in Slots : SlotExists(s) => slot[s].zone \in Zones

-----------------------------------------------------------------------------
(* The yard while requests do not overlap                                  *)

\* The two records of the occupancy agree on slot s.
MirrorAt(s) == SlotExists(s) => (slot[s].status = "occupied" <=> On(s) # {})
Mirror == \A s \in Slots \ outdated : MirrorAt(s)

\* No two assets are on one slot.
Apart == \A a, b \in Present :
  asset[a].slot = asset[b].slot /\ asset[a].slot \in Slots \ outdated => a = b

\* No two assets made by the gate have one identifier.
GateOnce == \A a, b \in Present :
  asset[a].source = "gate" /\ asset[b].source = "gate" /\ asset[a].ident = asset[b].ident => a = b

\* While the request r moves its asset, the slot it leaves is marked occupied until
\* "free" is done, the one it takes is not until "occupy" is, and its asset changes over
\* with "assign"; every other slot mirrors the assets.
MovingAt(r, s) ==
  SlotExists(s) =>
    /\ s = r.old /\ s # r.slot => /\ slot[s].status = "occupied" <=> Due(r.plan, "free")
                                  /\ On(s) = {} <=> ~Due(r.plan, "assign")
    /\ s = r.slot /\ s # r.old => /\ slot[s].status = "occupied" <=> ~Due(r.plan, "occupy")
                                  /\ On(s) = {} <=> Due(r.plan, "assign")
    /\ (s = r.old <=> s = r.slot) => MirrorAt(s)

\* A slot that is gone takes no asset, and the one that the asset has left for it is not
\* trusted.
Moving(r) ==
  /\ \A s \in Slots \ outdated : MovingAt(r, s)
  /\ r.old = r.slot => ~Due(r.plan, "free") /\ (Due(r.plan, "occupy") => r.slot \in outdated)
  /\ r.slot # NoRow /\ ~SlotExists(r.slot) =>
       Due(r.plan, "assign") /\ r.old \notin Slots \ outdated
  /\ Due(r.plan, "assign") =>
       /\ r.asset # None => asset[r.asset].slot = r.old
       /\ r.asset = None => r.old = NoRow /\ Known(r.ident) = {}
       /\ r.ident = None => r.status = asset[r.asset].status

\* A gate's read is given a free slot; a drop on a slot that is not takes note of it.
Aimed(r) ==
  /\ r.ident # None /\ r.slot # NoRow => slot[r.slot].status = "free"
  /\ r.ident = None => Outdated(r.asset, r.slot) \subseteq outdated

\* What holds while r is the only request.
Doing(r) ==
  \/ \E k \in Nat : LayoutReq(r, k) /\ Mirror
  \/ FindReq(r, Present) /\ Mirror /\ Aimed(r)
  \/ SlotReq(r, Present) /\ Moving(r)

\* No request has overlapped another.
Alone == \A c, d \in Calls : ~Idle(c) /\ ~Idle(d) => c = d

CalmInv ==
  ~disturbed =>
    /\ Apart /\ GateOnce /\ Alone
    /\ Quiet => Mirror
    /\ \A c \in Calls : ~Idle(c) => Doing(call[c])

\* What holds however requests overlap.
SoundInv ==
  /\ TypeOK
  /\ \A c \in Calls : ReqInv(call[c], Present)
  /\ SlotsPlaced /\ NoDanglingReference

IInv == SoundInv /\ CalmInv

-----------------------------------------------------------------------------
(* Plans                                                                   *)

\* What a plan of an asset's move looks like after its next statement.
LEMMA SlotPlanStep ==
  ASSUME NEW plan \in SlotPlans
  PROVE  /\ plan # <<>> /\ plan \in Seq(Statements)
         /\ Head(plan) \in {"free", "assign", "occupy"}
         /\ Tail(plan) \in SlotPlans \cup {<<>>}
         /\ Due(plan, Head(plan)) /\ ~Due(Tail(plan), Head(plan))
         /\ \A statement \in {"free", "assign", "occupy"} \ {Head(plan)} :
              Due(Tail(plan), statement) <=> Due(plan, statement)
         /\ Due(plan, "free") => Head(plan) = "free"
<1> USE DEF Due, Statements
<1>1. CASE plan = <<"free", "assign", "occupy">>
  <2>1. Tail(plan) = <<"assign", "occupy">>
    BY <1>1
  <2>2. QED
    BY <1>1, <2>1 DEF SlotPlans
<1>2. CASE plan = <<"free", "assign">>
  <2>1. Tail(plan) = <<"assign">>
    BY <1>2
  <2>2. QED
    BY <1>2, <2>1 DEF SlotPlans
<1>3. CASE plan = <<"assign", "occupy">>
  <2>1. Tail(plan) = <<"occupy">>
    BY <1>3
  <2>2. QED
    BY <1>3, <2>1 DEF SlotPlans
<1>4. CASE plan = <<"assign">>
  <2>1. Tail(plan) = <<>>
    BY <1>4
  <2>2. QED
    BY <1>4, <2>1 DEF SlotPlans
<1>5. CASE plan = <<"occupy">>
  <2>1. Tail(plan) = <<>>
    BY <1>5
  <2>2. QED
    BY <1>5, <2>1 DEF SlotPlans
<1>6. CASE plan = <<"free", "occupy", "assign">>
  <2>1. Tail(plan) = <<"occupy", "assign">>
    BY <1>6
  <2>2. QED
    BY <1>6, <2>1 DEF SlotPlans
<1>7. CASE plan = <<"occupy", "assign">>
  <2>1. Tail(plan) = <<"assign">>
    BY <1>7
  <2>2. QED
    BY <1>7, <2>1 DEF SlotPlans
<1>8. QED
  BY <1>1, <1>2, <1>3, <1>4, <1>5, <1>6, <1>7 DEF SlotPlans

\* The head and the tail of a plan that goes on.
LEMMA PlanTail ==
  ASSUME NEW plan \in Seq(Statements), plan # <<>>
  PROVE  /\ Len(plan) \in Nat \ {0} /\ Head(plan) = plan[1]
         /\ Tail(plan) \in Seq(Statements) /\ Len(Tail(plan)) = Len(plan) - 1
         /\ \A i \in 1 .. Len(plan) - 1 : Tail(plan)[i] = plan[i + 1]
  BY HeadTailProperties, EmptySeq

\* A request with its next statement done is a request.
LEMMA RestIsCall ==
  ASSUME NEW r \in CallState, r.plan # <<>>
  PROVE  /\ [r EXCEPT !.plan = Tail(@)] \in CallState
         /\ \A f \in {"kinds", "zone", "ident", "asset", "status", "slot", "old"} :
              [r EXCEPT !.plan = Tail(@)][f] = r[f]
<1>1. Tail(r.plan) \in Seq(Statements)
  BY PlanTail DEF CallState
<1>2. QED
  BY <1>1 DEF CallState

\* While zones are laid out the next statement inserts a slot, inserts a zone or picks a
\* slot for what a camera read.
LEMMA LayoutHead ==
  ASSUME NEW r \in CallState, r.plan # <<>>, NEW k \in Nat, LayoutReq(r, k)
  PROVE  \/ Head(r.plan) = "slot" /\ k > 0
         \/ Head(r.plan) = "zone" /\ k = 0 /\ r.kinds # <<>>
         \/ /\ Head(r.plan) = "pick" /\ k = 0 /\ r.kinds = <<>> /\ r.ident # None
            /\ Tail(r.plan) = <<"find">>
<1>1. r.plan \in Seq(Statements) /\ r.kinds \in Seq(Kinds) /\ Len(r.kinds) \in Nat
  BY LenProperties DEF CallState
<1>2. /\ Len(r.plan) \in Nat \ {0} /\ Head(r.plan) = r.plan[1]
      /\ Len(Tail(r.plan)) = Len(r.plan) - 1 /\ Tail(r.plan) \in Seq(Statements)
      /\ \A i \in 1 .. Len(r.plan) - 1 : Tail(r.plan)[i] = r.plan[i + 1]
  BY <1>1, PlanTail
<1>3. CASE k > 0
  BY <1>2, <1>3 DEF LayoutReq
<1>4. CASE k = 0 /\ Len(r.kinds) > 0
  <2>1. r.plan[1] = "zone"
    BY <1>1, <1>4 DEF LayoutReq
  <2>2. r.kinds # <<>>
    BY <1>1, <1>4, EmptySeq
  <2>3. QED
    BY <1>2, <1>4, <2>1, <2>2
<1>5. CASE k = 0 /\ Len(r.kinds) = 0
  <2>1. r.kinds = <<>>
    BY <1>1, <1>5, EmptySeq
  <2>2. Len(r.plan) = 2 /\ r.plan[1] = "pick" /\ r.plan[2] = "find" /\ r.ident # None
    BY <1>2, <1>5 DEF LayoutReq
  <2>3. Len(Tail(r.plan)) = 1 /\ Tail(r.plan)[1] = "find"
    BY <1>2, <2>2
  <2>4. Tail(r.plan) = <<"find">>
    <3>1. <<"find">> \in Seq(Statements) /\ Len(<<"find">>) = 1 /\ <<"find">>[1] = "find"
      BY DEF Statements
    <3>2. \A i \in 1 .. Len(Tail(r.plan)) : Tail(r.plan)[i] = <<"find">>[i]
      BY <2>3, <3>1
    <3>3. Len(Tail(r.plan)) = Len(<<"find">>)
      BY <2>3, <3>1
    <3>4. Tail(r.plan) \in Seq(Statements)
      BY <1>2
    <3>5. QED
      BY ONLY <3>1, <3>2, <3>3, <3>4, SeqEqual
  <2>5. QED
    BY <1>2, <1>5, <2>1, <2>2, <2>4
<1>6. QED
  BY <1>1, <1>3, <1>4, <1>5

\* A slot done leaves one slot less to insert.
LEMMA LayoutSlotDone ==
  ASSUME NEW r \in CallState, r.plan # <<>>, NEW k \in Nat, LayoutReq(r, k), k > 0
  PROVE  LayoutReq([r EXCEPT !.plan = Tail(@)], k - 1)
<1> DEFINE q == [r EXCEPT !.plan = Tail(@)]
<1>1. /\ q.kinds = r.kinds /\ q.asset = r.asset /\ q.status = r.status /\ q.slot = r.slot
      /\ q.old = r.old /\ q.zone = r.zone /\ q.ident = r.ident /\ q.plan = Tail(r.plan)
  BY DEF CallState
<1>2. /\ Len(r.plan) \in Nat \ {0}
      /\ Len(Tail(r.plan)) = Len(r.plan) - 1
      /\ \A i \in 1 .. Len(r.plan) - 1 : Tail(r.plan)[i] = r.plan[i + 1]
  BY PlanTail DEF CallState
<1>3. Len(r.kinds) \in Nat
  BY LenProperties DEF CallState
<1> DEFINE n == k + Len(r.kinds)
<1>4. n <= Len(r.plan) /\ n \in Nat
  BY <1>2, <1>3 DEF LayoutReq
<1>5. \A i \in 1 .. k - 1 : Tail(r.plan)[i] = "slot"
  BY <1>2, <1>3, <1>4 DEF LayoutReq
<1>6. \A i \in k .. n - 1 : Tail(r.plan)[i] = "zone"
  <2> SUFFICES ASSUME NEW i \in k .. n - 1 PROVE Tail(r.plan)[i] = "zone"
    OBVIOUS
  <2>1. i + 1 \in k + 1 .. n /\ i \in 1 .. Len(r.plan) - 1
    BY <1>2, <1>3, <1>4
  <2>2. QED
    BY <1>2, <2>1 DEF LayoutReq
<1>7. \/ Len(Tail(r.plan)) = n - 1
      \/ Len(Tail(r.plan)) = n + 1 /\ Tail(r.plan)[n] = "pick" /\ Tail(r.plan)[n + 1] = "find"
           /\ r.ident # None
  <2>1. CASE Len(r.plan) = n
    BY <1>2, <1>3, <2>1
  <2>2. CASE Len(r.plan) # n
    <3>1. Len(r.plan) = n + 2 /\ r.plan[n + 1] = "pick" /\ r.plan[n + 2] = "find" /\ r.ident # None
      BY <2>2 DEF LayoutReq
    <3>2. n \in 1 .. Len(r.plan) - 1 /\ n + 1 \in 1 .. Len(r.plan) - 1
      BY <1>3, <3>1
    <3>3. QED
      BY <1>2, <1>3, <3>1, <3>2
  <2>3. QED
    BY <2>1, <2>2
<1>8. k - 1 + Len(r.kinds) = n - 1 /\ n - 1 + 1 = n /\ n - 1 + 2 = n + 1 /\ k - 1 + 1 = k
  BY <1>3
<1>9. /\ r.asset = None /\ r.status = "gate_in" /\ r.slot = NoRow /\ r.old = NoRow
      /\ r.zone \in Zones
  BY DEF LayoutReq
<1> HIDE DEF q, n
<1>10. LayoutReq(q, k - 1)
  BY <1>1, <1>5, <1>6, <1>7, <1>8, <1>9 DEF LayoutReq
<1>11. QED
  BY <1>10 DEF q

\* A zone row inserted is followed by its slots.
LEMMA LayoutZoneDone ==
  ASSUME YardAssumption, NEW r \in CallState, LayoutReq(r, 0), r.kinds # <<>>, r.plan # <<>>,
         NEW z \in Zones, NEW q,
         q = [[r EXCEPT !.plan = Tail(@)] EXCEPT !.plan = [i \in 1 .. ZoneSize |-> "slot"] \o @,
                                                !.kinds = Tail(@), !.zone = z]
  PROVE  /\ q \in CallState /\ q.plan # <<>> /\ LayoutReq(q, ZoneSize)
         /\ Head(r.kinds) \in Kinds
<1> DEFINE slots == [i \in 1 .. ZoneSize |-> "slot"]
           rest == Tail(r.plan)
<1>1. /\ Len(r.kinds) \in Nat \ {0} /\ Head(r.kinds) \in Kinds
      /\ Tail(r.kinds) \in Seq(Kinds) /\ Len(Tail(r.kinds)) = Len(r.kinds) - 1
  BY HeadTailProperties, EmptySeq DEF CallState
<1>2. /\ Len(r.plan) \in Nat \ {0} /\ rest \in Seq(Statements)
      /\ Len(rest) = Len(r.plan) - 1
      /\ \A i \in 1 .. Len(r.plan) - 1 : rest[i] = r.plan[i + 1]
  BY PlanTail DEF CallState
<1>3. ZoneSize \in Nat \ {0}
  BY DEF YardAssumption
<1>4. /\ slots \in Seq(Statements) /\ Len(slots) = ZoneSize
      /\ \A i \in 1 .. ZoneSize : slots[i] = "slot"
  BY <1>3 DEF Statements
<1> HIDE DEF slots, rest
<1> DEFINE plan == slots \o rest
<1>5. /\ plan \in Seq(Statements) /\ Len(plan) = ZoneSize + Len(rest)
      /\ \A i \in 1 .. Len(plan) :
           plan[i] = IF i <= Len(slots) THEN slots[i] ELSE rest[i - Len(slots)]
  <2>1. slots \in Seq(Statements) /\ rest \in Seq(Statements) /\ Len(slots) = ZoneSize
    BY <1>2, <1>4
  <2>2. QED
    BY <2>1, ConcatProperties
<1> HIDE DEF plan
<1>6. q = [r EXCEPT !.plan = plan, !.kinds = Tail(r.kinds), !.zone = z]
  BY DEF plan, slots, rest, CallState
<1>7. q \in CallState
  BY <1>1, <1>5, <1>6 DEF CallState
<1>8. /\ q.kinds = Tail(r.kinds) /\ q.zone = z /\ q.plan = plan /\ q.asset = r.asset
      /\ q.status = r.status /\ q.slot = r.slot /\ q.old = r.old /\ q.ident = r.ident
  BY <1>6 DEF CallState
<1> DEFINE n == Len(r.kinds)
           k == ZoneSize
           m == k + Len(q.kinds)
<1>9. /\ r.asset = None /\ r.status = "gate_in" /\ r.slot = NoRow /\ r.old = NoRow
      /\ \A i \in 1 .. n : r.plan[i] = "zone"
      /\ \/ Len(r.plan) = n
         \/ /\ Len(r.plan) = n + 2 /\ r.plan[n + 1] = "pick" /\ r.plan[n + 2] = "find"
            /\ r.ident # None
  BY <1>1 DEF LayoutReq
<1>10. m = k + n - 1 /\ n \in Nat \ {0} /\ k \in Nat \ {0}
  BY <1>1, <1>3, <1>8
<1> HIDE DEF n, m, k
<1> DEFINE len == Len(r.plan)
<1>11. \A i \in 1 .. k + len - 1 :
          plan[i] = IF i <= k THEN "slot" ELSE r.plan[i - k + 1]
  <2> SUFFICES ASSUME NEW i \in 1 .. k + len - 1
               PROVE  plan[i] = IF i <= k THEN "slot" ELSE r.plan[i - k + 1]
    OBVIOUS
  <2>1. Len(slots) = k /\ Len(rest) = len - 1 /\ len \in Nat \ {0}
    BY <1>2, <1>4 DEF k
  <2>2. plan[i] = IF i <= k THEN slots[i] ELSE rest[i - k]
    <3>1. i \in 1 .. Len(plan)
      BY <1>5, <1>10, <2>1 DEF k
    <3>2. QED
      BY <1>5, <2>1, <3>1
  <2>3. CASE i <= k
    <3>1. i \in 1 .. ZoneSize
      BY <1>10, <2>1, <2>3 DEF k
    <3>2. QED
      BY <1>4, <2>2, <2>3, <3>1
  <2>4. CASE ~(i <= k)
    <3>1. i - k \in 1 .. len - 1 /\ i - k + 1 = (i - k) + 1
      BY <1>10, <2>1, <2>4
    <3>2. rest[i - k] = r.plan[(i - k) + 1]
      BY <1>2, <3>1
    <3>3. QED
      BY <2>2, <2>4, <3>1, <3>2
  <2>5. QED
    BY <2>3, <2>4
<1>12. len \in Nat \ {0}
  BY <1>2
<1>13. Len(plan) = k + len - 1
  BY <1>2, <1>4, <1>5, <1>10, <1>12 DEF k
<1> HIDE DEF len
<1>14. \A i \in k + 1 .. m : plan[i] = "zone"
  <2> SUFFICES ASSUME NEW i \in k + 1 .. m PROVE plan[i] = "zone"
    OBVIOUS
  <2>1. n <= len
    BY <1>9, <1>10 DEF len
  <2>2. i \in 1 .. k + len - 1 /\ ~(i <= k) /\ i - k + 1 \in 1 .. n
    BY <1>10, <1>12, <2>1
  <2>3. QED
    BY <1>9, <1>11, <2>2
<1>15. \/ Len(plan) = m
       \/ Len(plan) = m + 2 /\ plan[m + 1] = "pick" /\ plan[m + 2] = "find" /\ r.ident # None
  <2>1. CASE len = n
    BY <1>10, <1>13, <2>1
  <2>2. CASE len # n
    <3>1. /\ len = n + 2 /\ r.plan[n + 1] = "pick" /\ r.plan[n + 2] = "find"
          /\ r.ident # None
      BY <1>9, <2>2 DEF len
    <3>2. /\ m + 1 \in 1 .. k + len - 1 /\ ~(m + 1 <= k) /\ (m + 1) - k + 1 = n + 1
          /\ m + 2 \in 1 .. k + len - 1 /\ ~(m + 2 <= k) /\ (m + 2) - k + 1 = n + 2
          /\ k + len - 1 = m + 2
      <4>1. len = n + 2
        BY <3>1
      <4>2. QED
        BY ONLY <1>10, <4>1
    <3>3. QED
      BY <1>11, <1>13, <3>1, <3>2
  <2>3. QED
    BY <2>1, <2>2
<1>16. LayoutReq(q, k)
  <2>1. /\ q.asset = None /\ q.status = "gate_in" /\ q.slot = NoRow /\ q.old = NoRow
        /\ q.zone \in Zones
    BY <1>8, <1>9
  <2>2. \A i \in 1 .. k : q.plan[i] = "slot"
    <3> SUFFICES ASSUME NEW i \in 1 .. k PROVE plan[i] = "slot"
      BY <1>8
    <3>1. i \in 1 .. k + len - 1 /\ i <= k
      BY <1>10, <1>12
    <3>2. QED
      BY <1>11, <3>1
  <2>3. \A i \in k + 1 .. m : q.plan[i] = "zone"
    BY <1>8, <1>14
  <2>4. \/ Len(q.plan) = m
        \/ Len(q.plan) = m + 2 /\ q.plan[m + 1] = "pick" /\ q.plan[m + 2] = "find"
             /\ q.ident # None
    BY <1>8, <1>15
  <2>5. QED
    BY <2>1, <2>2, <2>3, <2>4 DEF LayoutReq, m
<1>17. q.plan # <<>>
  <2>1. plan \in Seq(Statements) /\ Len(plan) # 0
    BY <1>5, <1>10, <1>12, <1>13
  <2>2. QED
    BY <1>8, <2>1, EmptySeq
<1>18. QED
  BY <1>1, <1>7, <1>16, <1>17 DEF k

\* One statement, or two, followed by one more.
LEMMA OneMore ==
  ASSUME NEW a \in Statements, NEW b \in Statements, NEW c \in Statements
  PROVE  /\ <<a>> \o <<b>> = <<a, b>>
         /\ <<a, b>> \o <<c>> = <<a, b, c>>
<1>1. /\ <<a>> \in Seq(Statements) /\ <<b>> \in Seq(Statements) /\ <<c>> \in Seq(Statements)
      /\ <<a, b>> \in Seq(Statements) /\ <<a, b, c>> \in Seq(Statements)
      /\ Len(<<a>>) = 1 /\ Len(<<b>>) = 1 /\ Len(<<c>>) = 1 /\ Len(<<a, b>>) = 2
      /\ Len(<<a, b, c>>) = 3
  OBVIOUS
<1>2. <<a>> \o <<b>> = <<a, b>>
  <2> DEFINE s == <<a>> \o <<b>>
  <2>1. s \in Seq(Statements) /\ Len(s) = 2 /\ s[1] = a /\ s[2] = b
    BY <1>1, ConcatProperties
  <2> HIDE DEF s
  <2>2. \A i \in 1 .. Len(s) : s[i] = <<a, b>>[i]
    BY <2>1
  <2>3. s = <<a, b>>
    BY <1>1, <2>1, <2>2, SeqEqual
  <2>4. QED
    BY <2>3 DEF s
<1>3. <<a, b>> \o <<c>> = <<a, b, c>>
  <2> DEFINE s == <<a, b>> \o <<c>>
  <2>1. s \in Seq(Statements) /\ Len(s) = 3 /\ s[1] = a /\ s[2] = b /\ s[3] = c
    BY <1>1, ConcatProperties
  <2> HIDE DEF s
  <2>2. \A i \in 1 .. Len(s) : s[i] = <<a, b, c>>[i]
    BY <2>1
  <2>3. s = <<a, b, c>>
    BY <1>1, <2>1, <2>2, SeqEqual
  <2>4. QED
    BY <2>3 DEF s
<1>4. QED
  BY <1>2, <1>3

\* The plan of a gate's read and the plan of a move put an asset on its new slot.
LEMMA AssetPlans ==
  ASSUME NEW new \in Slots \cup {NoRow}, NEW old \in Slots \cup {NoRow},
         NEW plan, plan = GatePlan(new, old) \/ plan = MovePlan(new, old)
  PROVE  /\ plan \in SlotPlans
         /\ Due(plan, "assign")
         /\ Due(plan, "free") <=> ~(old = NoRow \/ old = new)
         /\ Due(plan, "occupy") => new # NoRow
         /\ new # NoRow /\ old # new => Due(plan, "occupy")
         /\ plan = MovePlan(new, old) /\ old = new => ~Due(plan, "occupy")
<1>1. {"free", "assign", "occupy"} \subseteq Statements
  BY DEF Statements
<1>2. /\ <<>> \o <<"free">> = <<"free">> /\ <<>> \o <<"assign">> = <<"assign">>
      /\ <<>> \o <<"occupy">> = <<"occupy">> /\ <<>> \o <<>> = <<>>
      /\ <<"free">> \o <<>> = <<"free">> /\ <<"assign">> \o <<>> = <<"assign">>
      /\ <<"free", "assign">> \o <<>> = <<"free", "assign">>
  OBVIOUS
<1>3. /\ <<"free">> \o <<"assign">> = <<"free", "assign">>
      /\ <<"free">> \o <<"occupy">> = <<"free", "occupy">>
      /\ <<"assign">> \o <<"occupy">> = <<"assign", "occupy">>
      /\ <<"occupy">> \o <<"assign">> = <<"occupy", "assign">>
      /\ <<"free", "assign">> \o <<"occupy">> = <<"free", "assign", "occupy">>
      /\ <<"free", "occupy">> \o <<"assign">> = <<"free", "occupy", "assign">>
  BY <1>1, OneMore
<1> DEFINE leaves == ~(old = NoRow \/ old = new)
<1>4. GatePlan(new, old) =
        IF leaves THEN IF new = NoRow THEN <<"free", "assign">> ELSE <<"free", "assign", "occupy">>
        ELSE IF new = NoRow THEN <<"assign">> ELSE <<"assign", "occupy">>
  BY <1>2, <1>3 DEF GatePlan, Unless
<1>5. MovePlan(new, old) =
        IF leaves THEN IF new = NoRow THEN <<"free", "assign">> ELSE <<"free", "occupy", "assign">>
        ELSE IF new = NoRow \/ old = new THEN <<"assign">> ELSE <<"occupy", "assign">>
  BY <1>2, <1>3 DEF MovePlan, Unless
<1>6. plan = MovePlan(new, old) /\ old = new => plan = <<"assign">>
  BY <1>5
<1>7. CASE plan = GatePlan(new, old)
  BY <1>4, <1>6, <1>7 DEF SlotPlans, Due
<1>8. CASE plan = MovePlan(new, old)
  BY <1>5, <1>6, <1>8 DEF SlotPlans, Due
<1>9. QED
  BY <1>7, <1>8

-----------------------------------------------------------------------------
(* Steps of requests                                                       *)

LEMMA IdleIsCall ==
  /\ IdleCall \in CallState /\ IdleCall.plan = <<>> /\ IdleCall.kinds = <<>>
  /\ IdleCall.ident = None /\ IdleCall.asset = None /\ IdleCall.slot = NoRow
  /\ IdleCall.zone = NoRow /\ IdleCall.status = "gate_in" /\ IdleCall.old = NoRow
  BY DEF IdleCall, CallState

\* A request that goes on or ends leaves the others as they are.
LEMMA ContinueStep ==
  ASSUME call \in [Calls -> CallState], NEW c \in Calls, NEW r \in CallState, Continue(c, r)
  PROVE  /\ call' \in [Calls -> CallState]
         /\ \A d \in Calls \ {c} : call'[d] = call[d]
         /\ call'[c] = IF r.plan = <<>> THEN IdleCall ELSE r
  BY IdleIsCall DEF Continue

\* Requests know what they know after a step that removes no asset, when the request that
\* takes it knows what its next plan needs.
LEMMA RequestStep ==
  ASSUME call \in [Calls -> CallState], \A d \in Calls : ReqInv(call[d], Present),
         Present \subseteq Present', NEW c \in Calls,
         \/ UNCHANGED call
         \/ Fail(c)
         \/ \E r \in CallState : Continue(c, r) /\ ReqInv(r, Present')
  PROVE  call' \in [Calls -> CallState] /\ \A d \in Calls : ReqInv(call'[d], Present')
<1>1. \A r : ReqInv(r, Present) => ReqInv(r, Present')
  BY DEF ReqInv, FindReq, SlotReq
<1>2. CASE UNCHANGED call
  BY <1>1, <1>2
<1>3. ReqInv(IdleCall, Present')
  BY IdleIsCall DEF ReqInv
<1>4. CASE Fail(c)
  BY <1>1, <1>3, <1>4, IdleIsCall DEF Fail
<1>5. CASE \E r \in CallState : Continue(c, r) /\ ReqInv(r, Present')
  <2>1. PICK r \in CallState : Continue(c, r) /\ ReqInv(r, Present')
    BY <1>5
  <2>2. QED
    BY <1>1, <1>3, <2>1, ContinueStep
<1>6. QED
  BY <1>2, <1>4, <1>5

\* What a request is about to do tells which request it is.
LEMMA RunsWhat ==
  ASSUME NEW r \in CallState, NEW present, ReqInv(r, present), r.plan # <<>>
  PROVE  /\ Head(r.plan) = "zone" => LayoutReq(r, 0) /\ r.kinds # <<>>
         /\ Head(r.plan) = "slot" => \E k \in Nat : k > 0 /\ LayoutReq(r, k)
         /\ Head(r.plan) = "pick" => /\ LayoutReq(r, 0) /\ r.kinds = <<>> /\ r.ident # None
                                    /\ Tail(r.plan) = <<"find">>
         /\ Head(r.plan) = "find" => FindReq(r, present)
         /\ Head(r.plan) \in {"free", "assign", "occupy"} => SlotReq(r, present)
<1>1. CASE \E k \in Nat : LayoutReq(r, k)
  <2>1. PICK k \in Nat : LayoutReq(r, k)
    BY <1>1
  <2>2. \/ Head(r.plan) = "slot" /\ k > 0
        \/ Head(r.plan) = "zone" /\ k = 0 /\ r.kinds # <<>>
        \/ /\ Head(r.plan) = "pick" /\ k = 0 /\ r.kinds = <<>> /\ r.ident # None
           /\ Tail(r.plan) = <<"find">>
    BY <2>1, LayoutHead
  <2>3. QED
    BY <2>1, <2>2
<1>2. CASE FindReq(r, present)
  <2>1. Head(r.plan) = "find"
    BY <1>2 DEF FindReq
  <2>2. QED
    BY <1>2, <2>1
<1>3. CASE SlotReq(r, present)
  <2>1. Head(r.plan) \in {"free", "assign", "occupy"}
    BY <1>3, SlotPlanStep DEF SlotReq
  <2>2. QED
    BY <1>3, <2>1
<1>4. QED
  BY <1>1, <1>2, <1>3 DEF ReqInv

\* What every step of a request c keeps.
SoundStep(c) ==
  /\ zone' \in [Zones -> Kinds \cup {"none", "deleted"}]
  /\ slot' \in [Slots -> SlotRow]
  /\ asset' \in [Assets -> AssetRow]
  /\ outdated' \subseteq Slots
  /\ SlotsPlaced' /\ NoDanglingReference'
  /\ Present \subseteq Present'
  /\ \/ UNCHANGED call
     \/ Fail(c)
     \/ \E r \in CallState : Continue(c, r) /\ ReqInv(r, Present')

\* A step that leaves the rows alone.
LEMMA RowsAlone ==
  ASSUME SoundInv, NEW c \in Calls, UNCHANGED <<zone, slot, asset, outdated>>,
         \/ UNCHANGED call
         \/ Fail(c)
         \/ \E r \in CallState : Continue(c, r) /\ ReqInv(r, Present)
  PROVE  SoundStep(c)
  BY DEF SoundStep, SoundInv, TypeOK, SlotsPlaced, NoDanglingReference, SlotExists, ZoneExists,
         Present

\* A request for zones starts with zones to lay out.
LEMMA LayoutStarts ==
  ASSUME NEW kinds \in Seq(Kinds), NEW plan \in Seq(Statements), Len(plan) = Len(kinds),
         \A i \in 1 .. Len(kinds) : plan[i] = "zone",
         NEW r, r = [IdleCall EXCEPT !.plan = plan, !.kinds = kinds]
  PROVE  r \in CallState /\ LayoutReq(r, 0)
<1>2. /\ r \in CallState /\ r.plan = plan /\ r.kinds = kinds /\ r.asset = None
      /\ r.slot = NoRow /\ r.status = "gate_in" /\ r.old = NoRow
  BY IdleIsCall DEF CallState
<1>3. Len(kinds) \in Nat
  BY LenProperties
<1>4. 0 + Len(r.kinds) = Len(kinds) /\ 0 + 1 = 1
  BY <1>2, <1>3
<1>5. \A i \in 1 .. 0 : r.plan[i] = "slot"
  OBVIOUS
<1>6. \A i \in 0 + 1 .. 0 + Len(r.kinds) : r.plan[i] = "zone"
  BY <1>2, <1>4
<1>7. Len(r.plan) = 0 + Len(r.kinds)
  BY <1>2, <1>4
<1>8. LayoutReq(r, 0)
  BY <1>2, <1>5, <1>6, <1>7 DEF LayoutReq
<1>9. QED
  BY <1>2, <1>8

LEMMA SeedProperties ==
  ASSUME YardAssumption
  PROVE  /\ DemoKinds \in Seq(Kinds) /\ Len(DemoKinds) \in Nat
         /\ SeedPlan \in Seq(Statements) /\ Len(SeedPlan) = Len(DemoKinds)
         /\ \A i \in 1 .. Len(DemoKinds) : SeedPlan[i] = "zone"
  BY LenProperties DEF YardAssumption, Kinds, SeedPlan, Statements

LEMMA CreateZoneStep ==
  ASSUME SoundInv, NEW c \in Calls, NEW kind \in Kinds, CreateZone(c, kind)
  PROVE  SoundStep(c) /\ call'[c] \in CallState /\ LayoutReq(call'[c], 0)
<1> DEFINE kinds == <<kind>>
           plan == <<"zone">>
           r == [IdleCall EXCEPT !.plan = plan, !.kinds = kinds]
<1>1. /\ kinds \in Seq(Kinds) /\ Len(kinds) = 1
      /\ plan \in Seq(Statements) /\ Len(plan) = 1 /\ plan # <<>>
      /\ \A i \in 1 .. Len(kinds) : plan[i] = "zone"
  BY DEF Statements
<1>2. CreateZone(c, kind) => Continue(c, r) /\ UNCHANGED <<zone, slot, asset, outdated>>
  BY DEF CreateZone
<1> HIDE DEF kinds, plan
<1>3. r \in CallState /\ LayoutReq(r, 0)
  BY <1>1, LayoutStarts
<1>4. r.plan # <<>>
  BY <1>1, IdleIsCall DEF CallState
<1>5. Continue(c, r) /\ UNCHANGED <<zone, slot, asset, outdated>>
  BY <1>2
<1> HIDE DEF r
<1>6. ReqInv(r, Present)
  BY <1>3 DEF ReqInv
<1>7. SoundStep(c)
  BY <1>3, <1>5, <1>6, RowsAlone
<1>8. call'[c] = r
  BY <1>3, <1>4, <1>5, ContinueStep DEF SoundInv, TypeOK
<1>9. QED
  BY <1>3, <1>7, <1>8

LEMMA GetLayoutStep ==
  ASSUME YardAssumption, SoundInv, NEW c \in Calls, GetLayout(c)
  PROVE  SoundStep(c) /\ (~Idle(c)' => call'[c] \in CallState /\ LayoutReq(call'[c], 0))
<1> DEFINE r == [IdleCall EXCEPT !.plan = SeedPlan, !.kinds = DemoKinds]
<1>1. r \in CallState /\ LayoutReq(r, 0)
  BY SeedProperties, LayoutStarts
<1>2. Continue(c, r) /\ UNCHANGED <<zone, slot, asset, outdated>>
  BY DEF GetLayout
<1> HIDE DEF r
<1>3. ReqInv(r, Present)
  BY <1>1 DEF ReqInv
<1>4. SoundStep(c)
  BY <1>1, <1>2, <1>3, RowsAlone
<1>5. call'[c] = IF r.plan = <<>> THEN IdleCall ELSE r
  BY <1>1, <1>2, ContinueStep DEF SoundInv, TypeOK
<1>6. QED
  BY <1>1, <1>4, <1>5, IdleIsCall DEF Idle

LEMMA GateReadStep ==
  ASSUME YardAssumption, SoundInv, NEW c \in Calls, NEW ident \in Idents, GateRead(c, ident)
  PROVE  SoundStep(c) /\ call'[c] \in CallState /\ LayoutReq(call'[c], 0)
<1> DEFINE demo == IF NoZones THEN DemoKinds ELSE <<>>
           zones == [i \in 1 .. Len(demo) |-> "zone"]
           then == <<"pick", "find">>
           plan == zones \o then
           r == [IdleCall EXCEPT !.ident = ident, !.kinds = demo, !.plan = plan]
<1>1. Continue(c, r) /\ UNCHANGED <<zone, slot, asset, outdated>>
  BY DEF GateRead
<1>2. demo \in Seq(Kinds) /\ Len(demo) \in Nat
  <2>1. <<>> \in Seq(Kinds) /\ DemoKinds \in Seq(Kinds)
    BY DEF YardAssumption, Kinds
  <2>2. demo \in Seq(Kinds)
    BY <2>1
  <2>3. QED
    BY <2>2, LenProperties
<1> HIDE DEF demo
<1>3. /\ zones \in Seq(Statements) /\ Len(zones) = Len(demo)
      /\ \A i \in 1 .. Len(demo) : zones[i] = "zone"
  BY <1>2 DEF Statements
<1>4. then \in Seq(Statements) /\ Len(then) = 2 /\ then[1] = "pick" /\ then[2] = "find"
  BY DEF Statements
<1> HIDE DEF zones, then
<1>5. /\ plan \in Seq(Statements) /\ Len(plan) = Len(demo) + 2
      /\ \A i \in 1 .. Len(demo) + 2 :
           plan[i] = IF i <= Len(demo) THEN zones[i] ELSE then[i - Len(demo)]
  <2>1. /\ plan \in Seq(Statements) /\ Len(plan) = Len(zones) + Len(then)
        /\ \A i \in 1 .. Len(zones) + Len(then) :
             plan[i] = IF i <= Len(zones) THEN zones[i] ELSE then[i - Len(zones)]
    <3>1. zones \in Seq(Statements) /\ then \in Seq(Statements)
      BY <1>3, <1>4
    <3>2. QED
      BY <3>1, ConcatProperties
  <2>2. Len(zones) = Len(demo) /\ Len(then) = 2
    BY <1>3, <1>4
  <2> HIDE DEF plan
  <2>3. QED
    BY <2>1, <2>2
<1>6. /\ \A i \in 1 .. Len(demo) : plan[i] = "zone"
      /\ plan[Len(demo) + 1] = "pick" /\ plan[Len(demo) + 2] = "find"
  <2>1. \A i \in 1 .. Len(demo) : plan[i] = "zone"
    BY <1>2, <1>3, <1>5
  <2>2. plan[Len(demo) + 1] = "pick" /\ plan[Len(demo) + 2] = "find"
    BY <1>2, <1>4, <1>5
  <2>3. QED
    BY <2>1, <2>2
<1>7. plan # <<>>
  BY <1>2, <1>5, EmptySeq
<1> HIDE DEF plan
<1>8. ident # None /\ ident \in Idents \cup {None}
  BY DEF YardAssumption, Idents
<1>9. /\ r \in CallState /\ r.plan = plan /\ r.kinds = demo /\ r.ident = ident /\ r.asset = None
      /\ r.slot = NoRow /\ r.status = "gate_in" /\ r.old = NoRow
  BY <1>2, <1>5, <1>8, IdleIsCall DEF CallState
<1> HIDE DEF r
<1>10. LayoutReq(r, 0)
  <2> DEFINE n == 0 + Len(r.kinds)
  <2>1. n = Len(demo)
    BY <1>2, <1>9
  <2> HIDE DEF n
  <2>2. \A i \in 1 .. 0 : r.plan[i] = "slot"
    OBVIOUS
  <2>3. \A i \in 0 + 1 .. n : r.plan[i] = "zone"
    BY <1>6, <1>9, <2>1
  <2>4. Len(r.plan) = n + 2 /\ r.plan[n + 1] = "pick" /\ r.plan[n + 2] = "find" /\ r.ident # None
    BY <1>5, <1>6, <1>8, <1>9, <2>1
  <2>5. QED
    BY <1>9, <2>2, <2>3, <2>4 DEF LayoutReq, n
<1>11. ReqInv(r, Present)
  BY <1>10 DEF ReqInv
<1>12. SoundStep(c)
  BY <1>1, <1>9, <1>11, RowsAlone
<1>13. call'[c] = r
  BY <1>1, <1>7, <1>9, ContinueStep DEF SoundInv, TypeOK
<1>14. QED
  BY <1>9, <1>10, <1>12, <1>13

LEMMA InsertZoneStep ==
  ASSUME YardAssumption, SoundInv, NEW c \in Calls, NEW z \in Zones, InsertZone(c, z)
  PROVE  /\ SoundStep(c) /\ call'[c] \in CallState /\ LayoutReq(call'[c], ZoneSize)
         /\ UNCHANGED <<slot, asset, outdated>>
<1> DEFINE q == [Rest(c) EXCEPT !.plan = [i \in 1 .. ZoneSize |-> "slot"] \o @,
                               !.kinds = Tail(@), !.zone = z]
<1>1. /\ call[c] \in CallState /\ ReqInv(call[c], Present) /\ call[c].plan # <<>>
      /\ Head(call[c].plan) = "zone"
  BY DEF SoundInv, TypeOK, InsertZone, Runs, Idle
<1>2. LayoutReq(call[c], 0) /\ call[c].kinds # <<>>
  BY <1>1, RunsWhat
<1>3. q \in CallState /\ q.plan # <<>> /\ LayoutReq(q, ZoneSize) /\ Head(call[c].kinds) \in Kinds
  BY <1>1, <1>2, LayoutZoneDone DEF Rest
<1>4. /\ zone' = [zone EXCEPT ![z] = Head(call[c].kinds)] /\ zone[z] = "none"
      /\ Continue(c, q) /\ UNCHANGED <<slot, asset, outdated>>
  BY DEF InsertZone
<1> HIDE DEF q
<1>5. call'[c] = q
  BY <1>1, <1>3, <1>4, ContinueStep DEF SoundInv, TypeOK
<1>6. ReqInv(q, Present')
  BY <1>3 DEF ReqInv, YardAssumption
<1>7. zone' \in [Zones -> Kinds \cup {"none", "deleted"}]
  BY <1>3, <1>4 DEF SoundInv, TypeOK
<1>8. \A y \in Zones : ZoneExists(y) => ZoneExists(y)'
  BY <1>3, <1>4 DEF SoundInv, TypeOK, ZoneExists
<1>9. SlotsPlaced' /\ NoDanglingReference' /\ Present' = Present
  BY <1>4, <1>8 DEF SoundInv, SlotsPlaced, NoDanglingReference, SlotExists, Present
<1>10. SoundStep(c)
  BY <1>3, <1>4, <1>6, <1>7, <1>9 DEF SoundStep, SoundInv, TypeOK
<1>11. QED
  BY <1>3, <1>4, <1>5, <1>10

LEMMA InsertSlotStep ==
  ASSUME SoundInv, NEW c \in Calls, NEW s \in Slots, InsertSlot(c, s)
  PROVE  /\ SoundStep(c) /\ slot[s].status = "none" /\ UNCHANGED <<asset, outdated>>
         /\ ~Idle(c)' => call'[c] \in CallState /\ \E k \in Nat : LayoutReq(call'[c], k)
         /\ slot' # slot => slot' = [slot EXCEPT ![s] = slot'[s]] /\ slot'[s].status = "free"
<1> DEFINE q == Rest(c)
<1>1. /\ call[c] \in CallState /\ ReqInv(call[c], Present) /\ call[c].plan # <<>>
      /\ Head(call[c].plan) = "slot" /\ slot[s].status = "none" /\ UNCHANGED <<zone, asset, outdated>>
  BY DEF SoundInv, TypeOK, InsertSlot, Runs, Idle
<1>2. PICK k \in Nat : k > 0 /\ LayoutReq(call[c], k)
  BY <1>1, RunsWhat
<1>3. q \in CallState
  BY <1>1, RestIsCall DEF Rest
<1>4. LayoutReq(q, k - 1) /\ k - 1 \in Nat
  BY <1>1, <1>2, LayoutSlotDone DEF Rest
<1>5. ReqInv(q, Present) /\ call[c].zone \in Zones
  BY <1>2, <1>4 DEF ReqInv, LayoutReq
<1>6. CASE ZoneExists(call[c].zone)
  <2> DEFINE row == [status |-> "free", zone |-> call[c].zone]
  <2>1. slot' = [slot EXCEPT ![s] = row] /\ Continue(c, q)
    BY <1>6 DEF InsertSlot
  <2>2. row \in SlotRow
    BY <1>5 DEF SlotRow
  <2>3. slot' \in [Slots -> SlotRow] /\ slot'[s].status = "free" /\ slot'[s].zone = call[c].zone
    BY <2>1, <2>2 DEF SoundInv, TypeOK
  <2>4. \A t \in Slots \ {s} : slot'[t] = slot[t]
    BY <2>1 DEF SoundInv, TypeOK
  <2>5. SlotsPlaced' /\ NoDanglingReference' /\ Present' = Present
    <3>1. Present' = Present /\ \A t \in Slots : SlotExists(t) => SlotExists(t)'
      BY <1>1, <2>3, <2>4 DEF Present, SlotExists
    <3>2. SlotsPlaced'
      BY <1>5, <2>3, <2>4 DEF SoundInv, SlotsPlaced, SlotExists
    <3>3. (\A t \in Slots : SlotExists(t) => ZoneExists(slot[t].zone))'
      BY <1>1, <1>6, <2>3, <2>4 DEF SoundInv, NoDanglingReference, SlotExists, ZoneExists
    <3>4. (\A a \in Present : asset[a].slot # NoRow => SlotExists(asset[a].slot))'
      <4>1. \A a \in Present : asset[a].slot # NoRow => asset[a].slot \in Slots /\ SlotExists(asset[a].slot)
        BY DEF SoundInv, TypeOK, AssetRow, Present, NoDanglingReference
      <4>2. QED
        BY <1>1, <3>1, <4>1 DEF SlotExists
    <3>5. QED
      BY <3>1, <3>2, <3>3, <3>4 DEF NoDanglingReference
  <2>6. call'[c] = IF q.plan = <<>> THEN IdleCall ELSE q
    BY <1>3, <2>1, ContinueStep DEF SoundInv, TypeOK
  <2> HIDE DEF q
  <2>7. SoundStep(c)
    BY <1>1, <1>3, <1>5, <2>1, <2>3, <2>5 DEF SoundStep, SoundInv, TypeOK
  <2>8. slot' = [slot EXCEPT ![s] = slot'[s]]
    BY <2>1, <2>3 DEF SoundInv, TypeOK
  <2>9. QED
    BY <1>1, <1>3, <1>4, <2>3, <2>6, <2>7, <2>8, IdleIsCall DEF Idle
<1>7. CASE ~ZoneExists(call[c].zone)
  <2>1. Fail(c) /\ UNCHANGED <<zone, slot, asset, outdated>>
    BY <1>1, <1>7 DEF InsertSlot
  <2>2. call'[c].plan = <<>>
    BY <2>1, IdleIsCall DEF Fail, SoundInv, TypeOK
  <2>3. SoundStep(c)
    BY <2>1, RowsAlone
  <2>4. QED
    BY <1>1, <2>1, <2>2, <2>3 DEF Idle
<1>8. QED
  BY <1>6, <1>7

LEMMA DeleteZoneStep ==
  ASSUME SoundInv, NEW c \in Calls, NEW z \in Zones, DeleteZone(c, z)
  PROVE  SoundStep(c)
<1> DEFINE gone == {s \in Slots : SlotExists(s) /\ slot[s].zone = z}
<1>1. /\ slot' = [s \in Slots |-> IF s \in gone THEN [slot[s] EXCEPT !.status = "deleted"] ELSE slot[s]]
      /\ asset' = [a \in Assets |-> IF asset[a].slot \in gone THEN [asset[a] EXCEPT !.slot = NoRow] ELSE asset[a]]
      /\ zone' = [zone EXCEPT ![z] = "deleted"] /\ UNCHANGED <<call, outdated>>
  BY DEF DeleteZone
<1>2. zone' \in [Zones -> Kinds \cup {"none", "deleted"}]
  BY <1>1 DEF SoundInv, TypeOK
<1>3. slot' \in [Slots -> SlotRow]
  BY <1>1 DEF SoundInv, TypeOK, SlotRow
<1>4. asset' \in [Assets -> AssetRow]
  BY <1>1 DEF SoundInv, TypeOK, AssetRow
<1>5. Present' = Present
  BY <1>1 DEF SoundInv, TypeOK, AssetRow, Present
<1>6. \A s \in Slots : SlotExists(s)' <=> SlotExists(s) /\ s \notin gone
  BY <1>1 DEF SoundInv, TypeOK, SlotRow, SlotExists
<1>7. \A s \in Slots : s \notin gone => slot'[s] = slot[s]
  BY <1>1
<1>8. SlotsPlaced'
  BY <1>6, <1>7 DEF SoundInv, SlotsPlaced
<1>9. (\A s \in Slots : SlotExists(s) => ZoneExists(slot[s].zone))'
  <2> SUFFICES ASSUME NEW s \in Slots, SlotExists(s)' PROVE ZoneExists(slot[s].zone)'
    OBVIOUS
  <2>1. SlotExists(s) /\ slot[s].zone # z /\ slot'[s] = slot[s]
    BY <1>6, <1>7
  <2>2. slot[s].zone \in Zones /\ ZoneExists(slot[s].zone)
    BY <2>1 DEF SoundInv, SlotsPlaced, NoDanglingReference
  <2>3. QED
    BY <1>1, <2>1, <2>2 DEF SoundInv, TypeOK, ZoneExists
<1>10. (\A a \in Present : asset[a].slot # NoRow => SlotExists(asset[a].slot))'
  <2>1. \A a \in Present : asset'[a].slot # NoRow =>
          asset'[a].slot = asset[a].slot /\ asset[a].slot \notin gone
    BY <1>1 DEF SoundInv, TypeOK, AssetRow, Present
  <2>2. \A a \in Present : asset[a].slot # NoRow =>
          asset[a].slot \in Slots /\ SlotExists(asset[a].slot)
    BY DEF SoundInv, TypeOK, AssetRow, Present, NoDanglingReference
  <2>3. QED
    BY <1>5, <1>6, <2>1, <2>2 DEF SlotExists
<1>11. QED
  BY <1>1, <1>2, <1>3, <1>4, <1>5, <1>8, <1>9, <1>10
     DEF SoundStep, NoDanglingReference, SoundInv, TypeOK

LEMMA CreateAssetStep ==
  ASSUME SoundInv, NEW c \in Calls, NEW a \in Assets, NEW ident \in Idents \cup {None},
         CreateAsset(c, a, ident)
  PROVE  SoundStep(c)
<1> DEFINE row == [status |-> "in_yard", source |-> "manual", ident |-> ident, slot |-> NoRow]
<1>1. asset' = [asset EXCEPT ![a] = row] /\ UNCHANGED <<zone, slot, call, outdated>>
  BY DEF CreateAsset
<1>2. row \in AssetRow /\ row.status # "none" /\ row.slot = NoRow
  BY DEF AssetRow
<1> HIDE DEF row
<1>3. asset' \in [Assets -> AssetRow] /\ Present' = Present \cup {a}
  BY <1>1, <1>2 DEF SoundInv, TypeOK, Present
<1>4. SlotsPlaced' /\ (\A s \in Slots : SlotExists(s) => ZoneExists(slot[s].zone))'
  BY <1>1 DEF SoundInv, SlotsPlaced, NoDanglingReference, SlotExists, ZoneExists
<1>5. (\A b \in Present : asset[b].slot # NoRow => SlotExists(asset[b].slot))'
  BY <1>1, <1>2, <1>3 DEF SoundInv, TypeOK, Present, NoDanglingReference, SlotExists
<1>6. QED
  BY <1>1, <1>3, <1>4, <1>5 DEF SoundStep, SoundInv, TypeOK, NoDanglingReference

\* The slot a gate's read is given is free, or there is none to give.
LEMMA FirstFree ==
  ASSUME SoundInv, NEW kind,
         NEW first, first = IF FreeSlots(kind) = {} THEN NoRow
                            ELSE CHOOSE s \in FreeSlots(kind) : \A t \in FreeSlots(kind) : s <= t
  PROVE  first \in Slots \cup {NoRow} /\ (first # NoRow => slot[first].status = "free")
<1>1. CASE FreeSlots(kind) = {}
  BY <1>1
<1>2. CASE FreeSlots(kind) # {}
  <2>1. FreeSlots(kind) \subseteq Nat
    BY DEF FreeSlots, Slots
  <2>2. \E s \in FreeSlots(kind) : \A t \in FreeSlots(kind) : s <= t
    <3> DEFINE before == {p \in Nat \X Nat : p[1] < p[2]}
    <3>1. IsWellFoundedOn(before, Nat)
      BY NatLessThanWellFounded DEF OpToRel
    <3>2. PICK s \in FreeSlots(kind) : \A t \in FreeSlots(kind) : ~(<<t, s>> \in before)
      <4> HIDE DEF before
      <4>1. QED
        BY <1>2, <2>1, <3>1, WFMin
    <3>3. \A t \in FreeSlots(kind) : ~(t < s)
      BY <2>1, <3>2
    <3>4. QED
      BY <2>1, <3>3
  <2>3. first \in FreeSlots(kind)
    BY <1>2, <2>2
  <2>4. QED
    BY <2>3 DEF FreeSlots
<1>3. QED
  BY <1>1, <1>2

LEMMA PickSlotStep ==
  ASSUME SoundInv, NEW c \in Calls, PickSlot(c)
  PROVE  /\ SoundStep(c) /\ UNCHANGED <<zone, slot, asset, outdated>>
         /\ FindReq(call'[c], Present) /\ call'[c].ident # None
         /\ call'[c].slot # NoRow => slot[call'[c].slot].status = "free"
<1> DEFINE free == FreeSlots(ZoneKindFor(call[c].ident))
           first == IF free = {} THEN NoRow ELSE CHOOSE s \in free : \A t \in free : s <= t
           q == [Rest(c) EXCEPT !.slot = first]
<1>1. Continue(c, q) /\ UNCHANGED <<zone, slot, asset, outdated>>
  BY DEF PickSlot
<1>2. first \in Slots \cup {NoRow} /\ (first # NoRow => slot[first].status = "free")
  BY FirstFree
<1> HIDE DEF first
<1>3. /\ call[c] \in CallState /\ ReqInv(call[c], Present) /\ call[c].plan # <<>>
      /\ Head(call[c].plan) = "pick"
  BY DEF SoundInv, TypeOK, PickSlot, Runs, Idle
<1>4. /\ LayoutReq(call[c], 0) /\ call[c].ident # None /\ Tail(call[c].plan) = <<"find">>
  BY <1>3, RunsWhat
<1>5. /\ Rest(c) \in CallState /\ Rest(c).plan = <<"find">> /\ Rest(c).ident = call[c].ident
      /\ Rest(c).asset = None /\ Rest(c).status = "gate_in" /\ Rest(c).old = NoRow
  BY <1>3, <1>4, RestIsCall DEF Rest, LayoutReq, CallState
<1>6. /\ q \in CallState /\ q.plan = <<"find">> /\ q.ident = call[c].ident
      /\ q.asset = None /\ q.status = "gate_in" /\ q.old = NoRow /\ q.slot = first
  BY <1>2, <1>5 DEF CallState
<1> HIDE DEF q
<1>7. FindReq(q, Present) /\ q.plan # <<>>
  BY <1>4, <1>6 DEF FindReq
<1>8. SoundStep(c)
  BY <1>1, <1>6, <1>7, RowsAlone DEF ReqInv
<1>9. call'[c] = q
  BY <1>1, <1>6, <1>7, ContinueStep DEF SoundInv, TypeOK
<1>10. QED
  BY <1>1, <1>2, <1>4, <1>6, <1>7, <1>8, <1>9

LEMMA DropAssetStep ==
  ASSUME YardAssumption, SoundInv, NEW c \in Calls, NEW a \in Assets, NEW s \in Slots \cup {NoRow},
         DropAsset(c, a, s)
  PROVE  /\ SoundStep(c) /\ UNCHANGED <<zone, slot, asset>>
         /\ outdated' = outdated \cup Outdated(a, s)
         /\ FindReq(call'[c], Present)
         /\ call'[c].ident = None /\ call'[c].asset = a /\ call'[c].slot = s
<1> DEFINE plan == <<"find">>
           q == [IdleCall EXCEPT !.plan = plan, !.asset = a, !.slot = s]
<1>1. /\ Continue(c, q) /\ UNCHANGED <<zone, slot, asset>> /\ a \in Present
      /\ outdated' = outdated \cup Outdated(a, s)
  BY DEF DropAsset
<1>2. plan \in Seq(Statements) /\ plan # <<>> /\ plan = <<"find">>
  BY DEF Statements
<1> HIDE DEF plan
<1>3. /\ q \in CallState /\ q.plan = plan /\ q.ident = None /\ q.asset = a /\ q.old = NoRow
      /\ q.slot = s
  BY <1>2, IdleIsCall DEF CallState
<1> HIDE DEF q
<1>4. FindReq(q, Present)
  BY <1>1, <1>2, <1>3 DEF FindReq
<1>5. outdated' \subseteq Slots
  BY <1>1 DEF Outdated, SoundInv, TypeOK
<1>6. SoundStep(c)
  BY <1>1, <1>3, <1>4, <1>5 DEF SoundStep, ReqInv, SoundInv, TypeOK, SlotsPlaced,
     NoDanglingReference, SlotExists, ZoneExists, Present
<1>7. call'[c] = q
  BY <1>1, <1>2, <1>3, ContinueStep DEF SoundInv, TypeOK
<1>8. QED
  BY <1>1, <1>3, <1>4, <1>6, <1>7

\* A request that has found its asset.
FoundStep(c) ==
  LET q == call'[c]
      r == call[c]
  IN /\ FindReq(r, Present) /\ SlotReq(q, Present) /\ q \in CallState
     /\ q.ident = r.ident /\ q.slot = r.slot /\ Due(q.plan, "assign")
     /\ Due(q.plan, "free") <=> ~(q.old = NoRow \/ q.old = q.slot)
     /\ q.slot # NoRow /\ q.old # q.slot => Due(q.plan, "occupy")
     /\ q.ident = None /\ q.old = q.slot => ~Due(q.plan, "occupy")
     /\ q.asset # None => q.old = asset[q.asset].slot
     /\ q.asset = None => q.old = NoRow /\ Known(q.ident) = {}
     /\ q.ident = None => q.asset = r.asset /\ q.status = asset[q.asset].status

LEMMA FindByIdentifierStep ==
  ASSUME YardAssumption, SoundInv, NEW c \in Calls, NEW a \in Assets \cup {None},
         FindByIdentifier(c, a)
  PROVE  SoundStep(c) /\ FoundStep(c) /\ UNCHANGED <<zone, slot, asset, outdated>>
<1> DEFINE old == IF a = None THEN NoRow ELSE asset[a].slot
           plan == GatePlan(call[c].slot, old)
           q == [call[c] EXCEPT !.asset = a, !.old = old, !.plan = plan]
<1>1. /\ Continue(c, q) /\ UNCHANGED <<zone, slot, asset, outdated>> /\ call[c].ident # None
      /\ IF Known(call[c].ident) = {} THEN a = None ELSE a \in Known(call[c].ident)
  BY DEF FindByIdentifier
<1>2. /\ call[c] \in CallState /\ ReqInv(call[c], Present) /\ call[c].plan # <<>>
      /\ Head(call[c].plan) = "find"
  BY DEF SoundInv, TypeOK, FindByIdentifier, Runs, Idle
<1>3. FindReq(call[c], Present) /\ call[c].status = "gate_in"
  <2>1. FindReq(call[c], Present)
    BY <1>2, RunsWhat
  <2>2. QED
    BY <1>1, <2>1 DEF FindReq
<1>4. a # None => a \in Present
  BY <1>1 DEF Known
<1>5. a = None => Known(call[c].ident) = {}
  BY <1>1 DEF Known, Present, YardAssumption
<1>6. old \in Slots \cup {NoRow} /\ call[c].slot \in Slots \cup {NoRow}
  BY <1>2, <1>4 DEF Present, SoundInv, TypeOK, AssetRow, CallState
<1>7. old = IF a = None THEN NoRow ELSE asset[a].slot
  OBVIOUS
<1> HIDE DEF old
<1>8. /\ plan \in SlotPlans /\ Due(plan, "assign")
      /\ Due(plan, "free") <=> ~(old = NoRow \/ old = call[c].slot)
      /\ Due(plan, "occupy") => call[c].slot # NoRow
      /\ call[c].slot # NoRow /\ old # call[c].slot => Due(plan, "occupy")
  BY <1>6, AssetPlans
<1> HIDE DEF plan
<1>9. plan # <<>> /\ plan \in Seq(Statements)
  BY <1>8, SlotPlanStep
<1>10. /\ q \in CallState /\ q.plan = plan /\ q.asset = a /\ q.old = old
       /\ q.ident = call[c].ident /\ q.slot = call[c].slot /\ q.status = "gate_in"
  BY <1>2, <1>3, <1>6, <1>9 DEF CallState
<1> HIDE DEF q
<1>11. SlotReq(q, Present)
  BY <1>1, <1>4, <1>8, <1>10 DEF SlotReq
<1>12. SoundStep(c)
  BY <1>1, <1>10, <1>11, RowsAlone DEF ReqInv
<1>13. call'[c] = q
  BY <1>1, <1>9, <1>10, ContinueStep DEF SoundInv, TypeOK
<1>14. FoundStep(c)
  BY <1>1, <1>3, <1>5, <1>7, <1>8, <1>10, <1>11, <1>13 DEF FoundStep
<1>15. QED
  BY <1>1, <1>12, <1>14

LEMMA FindAssetStep ==
  ASSUME YardAssumption, SoundInv, NEW c \in Calls, FindAsset(c)
  PROVE  SoundStep(c) /\ FoundStep(c) /\ UNCHANGED <<zone, slot, asset, outdated>>
<1> DEFINE a == call[c].asset
           old == asset[a].slot
           status == asset[a].status
           plan == MovePlan(call[c].slot, old)
           q == [call[c] EXCEPT !.old = old, !.status = status, !.plan = plan]
<1>1. Continue(c, q) /\ UNCHANGED <<zone, slot, asset, outdated>> /\ call[c].ident = None
  BY DEF FindAsset
<1>2. /\ call[c] \in CallState /\ ReqInv(call[c], Present) /\ call[c].plan # <<>>
      /\ Head(call[c].plan) = "find"
  BY DEF SoundInv, TypeOK, FindAsset, Runs, Idle
<1>3. FindReq(call[c], Present) /\ a \in Present
  <2>1. FindReq(call[c], Present)
    BY <1>2, RunsWhat
  <2>2. QED
    BY <1>1, <2>1 DEF FindReq
<1>4. /\ old \in Slots \cup {NoRow} /\ call[c].slot \in Slots \cup {NoRow}
      /\ status \in {"in_yard", "gate_in"}
  BY <1>2, <1>3 DEF Present, SoundInv, TypeOK, AssetRow, CallState
<1>5. a # None
  BY <1>3 DEF Present, YardAssumption
<1>6. old = asset[a].slot /\ status = asset[a].status /\ a = call[c].asset
  OBVIOUS
<1> HIDE DEF a, old, status
<1>7. /\ plan \in SlotPlans /\ Due(plan, "assign")
      /\ Due(plan, "free") <=> ~(old = NoRow \/ old = call[c].slot)
      /\ Due(plan, "occupy") => call[c].slot # NoRow
      /\ call[c].slot # NoRow /\ old # call[c].slot => Due(plan, "occupy")
      /\ old = call[c].slot => ~Due(plan, "occupy")
  BY <1>4, AssetPlans
<1> HIDE DEF plan
<1>8. plan # <<>> /\ plan \in Seq(Statements)
  BY <1>7, SlotPlanStep
<1>9. /\ q \in CallState /\ q.plan = plan /\ q.asset = a /\ q.old = old
      /\ q.ident = None /\ q.slot = call[c].slot /\ q.status = status
  BY <1>1, <1>2, <1>4, <1>6, <1>8 DEF CallState
<1> HIDE DEF q
<1>10. SlotReq(q, Present)
  BY <1>3, <1>5, <1>7, <1>9 DEF SlotReq
<1>11. SoundStep(c)
  BY <1>1, <1>9, <1>10, RowsAlone DEF ReqInv
<1>12. call'[c] = q
  BY <1>1, <1>8, <1>9, ContinueStep DEF SoundInv, TypeOK
<1>13. FoundStep(c)
  BY <1>1, <1>3, <1>5, <1>6, <1>7, <1>9, <1>10, <1>12 DEF FoundStep
<1>14. QED
  BY <1>1, <1>11, <1>13

\* A request that moves its asset, with its next statement done.
LEMMA MoveGoesOn ==
  ASSUME SoundInv, NEW c \in Calls, ~Idle(c), Head(call[c].plan) \in {"free", "assign", "occupy"}
  PROVE  /\ call[c] \in CallState /\ SlotReq(call[c], Present) /\ Rest(c) \in CallState
         /\ Rest(c).plan = Tail(call[c].plan)
         /\ \A f \in {"kinds", "zone", "ident", "asset", "status", "slot", "old"} :
              Rest(c)[f] = call[c][f]
         /\ Rest(c).plan = <<>> \/ SlotReq(Rest(c), Present)
         /\ Due(call[c].plan, Head(call[c].plan)) /\ ~Due(Rest(c).plan, Head(call[c].plan))
         /\ \A statement \in {"free", "assign", "occupy"} \ {Head(call[c].plan)} :
              Due(Rest(c).plan, statement) <=> Due(call[c].plan, statement)
         /\ Due(call[c].plan, "free") => Head(call[c].plan) = "free"
<1>1. call[c] \in CallState /\ ReqInv(call[c], Present) /\ call[c].plan # <<>>
  BY DEF SoundInv, TypeOK, Idle
<1>2. SlotReq(call[c], Present)
  BY <1>1, RunsWhat
<1>3. /\ Rest(c) \in CallState /\ Rest(c).plan = Tail(call[c].plan)
      /\ \A f \in {"kinds", "zone", "ident", "asset", "status", "slot", "old"} :
           Rest(c)[f] = call[c][f]
  <2>1. [call[c] EXCEPT !.plan = Tail(@)].plan = Tail(call[c].plan)
    BY <1>1 DEF CallState
  <2>2. QED
    BY <1>1, <2>1, RestIsCall DEF Rest
<1>4. call[c].plan \in SlotPlans
  BY <1>2 DEF SlotReq
<1>5. /\ Tail(call[c].plan) \in SlotPlans \cup {<<>>}
      /\ Due(call[c].plan, Head(call[c].plan)) /\ ~Due(Tail(call[c].plan), Head(call[c].plan))
      /\ \A statement \in {"free", "assign", "occupy"} \ {Head(call[c].plan)} :
           Due(Tail(call[c].plan), statement) <=> Due(call[c].plan, statement)
      /\ Due(call[c].plan, "free") => Head(call[c].plan) = "free"
  BY <1>4, SlotPlanStep
<1>6. Rest(c).plan = <<>> \/ SlotReq(Rest(c), Present)
  <2>1. /\ Rest(c).asset = call[c].asset /\ Rest(c).ident = call[c].ident
        /\ Rest(c).status = call[c].status /\ Rest(c).slot = call[c].slot
        /\ Rest(c).old = call[c].old
    BY <1>3
  <2>2. /\ Due(Rest(c).plan, "free") => Due(call[c].plan, "free")
        /\ Due(Rest(c).plan, "occupy") => Due(call[c].plan, "occupy")
    BY <1>3, <1>5
  <2>3. QED
    BY <1>2, <1>3, <1>5, <2>1, <2>2 DEF SlotReq
<1>7. QED
  BY <1>1, <1>2, <1>3, <1>5, <1>6

\* A slot's status changes, if the slot is there.
LEMMA SlotWrite ==
  ASSUME SoundInv, NEW s \in Slots, NEW status \in {"free", "occupied"},
         SetSlotStatus(s, status), UNCHANGED <<zone, asset, outdated>>
  PROVE  /\ slot' \in [Slots -> SlotRow] /\ SlotsPlaced' /\ NoDanglingReference'
         /\ Present' = Present
         /\ \A t \in Slots : SlotExists(t)' <=> SlotExists(t)
         /\ \A t \in Slots \ {s} : slot'[t] = slot[t]
         /\ SlotExists(s) => slot'[s].status = status
<1>1. /\ slot' \in [Slots -> SlotRow] /\ \A t \in Slots \ {s} : slot'[t] = slot[t]
      /\ slot'[s].zone = slot[s].zone
      /\ SlotExists(s) => slot'[s].status = status
      /\ ~SlotExists(s) => slot'[s] = slot[s]
  BY DEF SetSlotStatus, SoundInv, TypeOK, SlotRow
<1>2. \A t \in Slots : (SlotExists(t)' <=> SlotExists(t)) /\ slot'[t].zone = slot[t].zone
  BY <1>1 DEF SlotExists
<1>3. Present' = Present
  BY DEF Present
<1>4. SlotsPlaced'
  BY <1>2 DEF SoundInv, SlotsPlaced
<1>5. (\A t \in Slots : SlotExists(t) => ZoneExists(slot[t].zone))'
  BY <1>2 DEF SoundInv, NoDanglingReference, ZoneExists
<1>6. (\A a \in Present : asset[a].slot # NoRow => SlotExists(asset[a].slot))'
  <2>1. \A a \in Present : asset[a].slot # NoRow =>
          asset[a].slot \in Slots /\ SlotExists(asset[a].slot)
    BY DEF SoundInv, TypeOK, AssetRow, Present, NoDanglingReference
  <2>2. QED
    BY <1>2, <1>3, <2>1 DEF SlotExists
<1>7. QED
  BY <1>1, <1>2, <1>3, <1>4, <1>5, <1>6 DEF NoDanglingReference

LEMMA FreeSlotStep ==
  ASSUME SoundInv, NEW c \in Calls, FreeSlot(c)
  PROVE  SoundStep(c) /\ Continue(c, Rest(c)) /\ call[c].old \in Slots
<1>1. /\ SetSlotStatus(call[c].old, "free") /\ Continue(c, Rest(c)) /\ UNCHANGED <<zone, asset, outdated>>
      /\ ~Idle(c) /\ Head(call[c].plan) = "free"
  BY DEF FreeSlot, Runs
<1>2. /\ call[c] \in CallState /\ SlotReq(call[c], Present) /\ Rest(c) \in CallState
      /\ Rest(c).plan = <<>> \/ SlotReq(Rest(c), Present)
      /\ Due(call[c].plan, "free")
  BY <1>1, MoveGoesOn
<1>3. call[c].old \in Slots
  BY <1>2 DEF SlotReq, CallState
<1>4. /\ slot' \in [Slots -> SlotRow] /\ SlotsPlaced' /\ NoDanglingReference'
      /\ Present' = Present
  BY <1>1, <1>3, SlotWrite
<1>5. ReqInv(Rest(c), Present')
  BY <1>2, <1>4 DEF ReqInv
<1>6. QED
  BY <1>1, <1>2, <1>3, <1>4, <1>5 DEF SoundStep, SoundInv, TypeOK

LEMMA OccupySlotStep ==
  ASSUME SoundInv, NEW c \in Calls, OccupySlot(c)
  PROVE  SoundStep(c) /\ Continue(c, Rest(c)) /\ call[c].slot \in Slots
<1>1. /\ SetSlotStatus(call[c].slot, "occupied") /\ Continue(c, Rest(c)) /\ UNCHANGED <<zone, asset, outdated>>
      /\ ~Idle(c) /\ Head(call[c].plan) = "occupy"
  BY DEF OccupySlot, Runs
<1>2. /\ call[c] \in CallState /\ SlotReq(call[c], Present) /\ Rest(c) \in CallState
      /\ Rest(c).plan = <<>> \/ SlotReq(Rest(c), Present)
      /\ Due(call[c].plan, "occupy")
  BY <1>1, MoveGoesOn
<1>3. call[c].slot \in Slots
  BY <1>2 DEF SlotReq, CallState
<1>4. /\ slot' \in [Slots -> SlotRow] /\ SlotsPlaced' /\ NoDanglingReference'
      /\ Present' = Present
  BY <1>1, <1>3, SlotWrite
<1>5. ReqInv(Rest(c), Present')
  BY <1>2, <1>4 DEF ReqInv
<1>6. QED
  BY <1>1, <1>2, <1>3, <1>4, <1>5 DEF SoundStep, SoundInv, TypeOK

\* What is stored with an asset when the request r has put it on its slot.
Assigned(r, a) ==
  /\ asset' = [asset EXCEPT ![a] = asset'[a]]
  /\ asset'[a] \in AssetRow /\ asset'[a].slot = r.slot
  /\ IF r.asset = None
       THEN /\ a \notin Present /\ asset'[a].status = "gate_in" /\ asset'[a].source = "gate"
            /\ asset'[a].ident = r.ident
       ELSE /\ a = r.asset /\ asset'[a].status = r.status /\ asset'[a].source = asset[a].source
            /\ asset'[a].ident = asset[a].ident

LEMMA AssignSlotStep ==
  ASSUME SoundInv, NEW c \in Calls, NEW a \in Assets, AssignSlot(c, a)
  PROVE  /\ SoundStep(c)
         /\ \/ Assigned(call[c], a) /\ Continue(c, Rest(c)) /\ KeyHolds(call[c].slot)
            \/ UNCHANGED asset /\ Fail(c) /\ ~KeyHolds(call[c].slot)
<1>1. /\ ~Idle(c) /\ Head(call[c].plan) = "assign" /\ UNCHANGED <<zone, slot, outdated>>
      /\ IF call[c].asset = None THEN a \notin Present ELSE a = call[c].asset
  BY DEF AssignSlot, Runs
<1>2. /\ call[c] \in CallState /\ SlotReq(call[c], Present) /\ Rest(c) \in CallState
      /\ Rest(c).plan = <<>> \/ SlotReq(Rest(c), Present)
  BY <1>1, MoveGoesOn
<1>3. CASE KeyHolds(call[c].slot)
  <2>1. /\ Continue(c, Rest(c))
        /\ asset' = [asset EXCEPT ![a] =
             IF call[c].asset = None
               THEN [status |-> "gate_in", source |-> "gate", ident |-> call[c].ident, slot |-> call[c].slot]
               ELSE [asset[a] EXCEPT !.status = call[c].status, !.slot = call[c].slot]]
    BY <1>3 DEF AssignSlot
  <2>2. asset[a] \in AssetRow
    BY DEF SoundInv, TypeOK
  <2>3. ASSUME call[c].asset = None PROVE Assigned(call[c], a)
    <3> DEFINE row == [status |-> "gate_in", source |-> "gate", ident |-> call[c].ident, slot |-> call[c].slot]
    <3>1. /\ row \in AssetRow /\ row.status = "gate_in" /\ row.source = "gate"
          /\ row.ident = call[c].ident /\ row.slot = call[c].slot
      BY <1>2 DEF AssetRow, CallState
    <3>2. asset' = [asset EXCEPT ![a] = row]
      BY <2>1, <2>3
    <3> HIDE DEF row
    <3>3. asset'[a] = row
      BY <3>2 DEF SoundInv, TypeOK
    <3>4. QED
      BY <1>1, <2>3, <3>1, <3>2, <3>3 DEF Assigned
  <2>4. ASSUME call[c].asset # None PROVE Assigned(call[c], a)
    <3> DEFINE row == [asset[a] EXCEPT !.status = call[c].status, !.slot = call[c].slot]
    <3>1. /\ row \in AssetRow /\ row.status = call[c].status /\ row.source = asset[a].source
          /\ row.ident = asset[a].ident /\ row.slot = call[c].slot
      BY <1>2, <2>2 DEF AssetRow, CallState
    <3>2. asset' = [asset EXCEPT ![a] = row]
      BY <2>1, <2>4
    <3> HIDE DEF row
    <3>3. asset'[a] = row
      BY <3>2 DEF SoundInv, TypeOK
    <3>4. QED
      BY <1>1, <2>4, <3>1, <3>2, <3>3 DEF Assigned
  <2>5. Assigned(call[c], a)
    BY <2>3, <2>4
  <2>6. asset' \in [Assets -> AssetRow] /\ Present \subseteq Present' /\ a \in Present'
    <3>1. asset'[a] \in AssetRow /\ asset'[a].status # "none"
      BY <1>2, <2>5 DEF Assigned, CallState
    <3>2. \A b \in Assets \ {a} : asset'[b] = asset[b]
      BY <2>5 DEF Assigned, SoundInv, TypeOK
    <3>3. QED
      BY <2>5, <3>1, <3>2 DEF Assigned, SoundInv, TypeOK, Present
  <2>7. SlotsPlaced' /\ (\A s \in Slots : SlotExists(s) => ZoneExists(slot[s].zone))'
    BY <1>1 DEF SoundInv, SlotsPlaced, NoDanglingReference, SlotExists, ZoneExists
  <2>8. (\A b \in Present : asset[b].slot # NoRow => SlotExists(asset[b].slot))'
    <3>1. \A b \in Assets \ {a} : asset'[b] = asset[b]
      BY <2>5 DEF Assigned, SoundInv, TypeOK
    <3>2. asset'[a].slot = call[c].slot
      BY <2>5 DEF Assigned
    <3>3. QED
      BY <1>1, <1>3, <3>1, <3>2 DEF SoundInv, NoDanglingReference, Present, SlotExists, KeyHolds
  <2>9. ReqInv(Rest(c), Present')
    BY <1>2, <2>6 DEF ReqInv, SlotReq
  <2>10. SoundStep(c)
    BY <1>1, <1>2, <2>1, <2>6, <2>7, <2>8, <2>9 DEF SoundStep, SoundInv, TypeOK, NoDanglingReference
  <2>11. QED
    BY <1>3, <2>1, <2>5, <2>10
<1>4. CASE ~KeyHolds(call[c].slot)
  <2>1. Fail(c) /\ UNCHANGED asset
    BY <1>4 DEF AssignSlot
  <2>2. SoundStep(c)
    BY <1>1, <2>1, RowsAlone
  <2>3. QED
    BY <1>4, <2>1, <2>2
<1>5. QED
  BY <1>3, <1>4

LEMMA OpsSound ==
  ASSUME YardAssumption, SoundInv, NEW c \in Calls, ZoneOps(c) \/ AssetOps(c)
  PROVE  SoundStep(c)
<1>1. CASE \E kind \in NewKinds : CreateZone(c, kind)
  BY <1>1, CreateZoneStep DEF YardAssumption, Kinds
<1>2. CASE GetLayout(c)
  BY <1>2, GetLayoutStep
<1>3. CASE \E z \in Zones : InsertZone(c, z) \/ DeleteZone(c, z)
  BY <1>3, InsertZoneStep, DeleteZoneStep
<1>4. CASE \E s \in Slots : InsertSlot(c, s)
  BY <1>4, InsertSlotStep
<1>5. CASE \E a \in Assets, ident \in Idents \cup {None} : CreateAsset(c, a, ident)
  BY <1>5, CreateAssetStep
<1>6. CASE \E ident \in Idents : GateRead(c, ident)
  BY <1>6, GateReadStep
<1>7. CASE PickSlot(c)
  BY <1>7, PickSlotStep
<1>8. CASE \E a \in Assets \cup {None} : FindByIdentifier(c, a)
  BY <1>8, FindByIdentifierStep
<1>9. CASE \E a \in Assets, s \in Slots \cup {NoRow} : DropAsset(c, a, s)
  BY <1>9, DropAssetStep
<1>10. CASE FindAsset(c)
  BY <1>10, FindAssetStep
<1>11. CASE FreeSlot(c)
  BY <1>11, FreeSlotStep
<1>12. CASE OccupySlot(c)
  BY <1>12, OccupySlotStep
<1>13. CASE \E a \in Assets : AssignSlot(c, a)
  BY <1>13, AssignSlotStep
<1>14. QED
  BY <1>1, <1>2, <1>3, <1>4, <1>5, <1>6, <1>7, <1>8, <1>9, <1>10, <1>11, <1>12, <1>13
     DEF ZoneOps, AssetOps

LEMMA NextSound ==
  ASSUME YardAssumption, SoundInv, [Next]_vars
  PROVE  SoundInv'
<1>1. CASE UNCHANGED vars
  BY <1>1 DEF vars, SoundInv, TypeOK, SlotsPlaced, NoDanglingReference, SlotExists, ZoneExists,
              Present
<1>2. CASE Next
  <2>1. PICK c \in Calls :
          \/ (ZoneOps(c) \/ AssetOps(c)) /\ disturbed' = (disturbed \/ Others(c))
          \/ CallFails(c) /\ disturbed' = TRUE
    BY <1>2 DEF Next
  <2>2. SoundStep(c)
    <3>1. CASE ZoneOps(c) \/ AssetOps(c)
      BY <3>1, OpsSound
    <3>2. CASE CallFails(c)
      BY <3>2, RowsAlone DEF CallFails
    <3>3. QED
      BY <2>1, <3>1, <3>2
  <2>3. disturbed' \in BOOLEAN
    BY <2>1 DEF SoundInv, TypeOK, Others
  <2>4. call' \in [Calls -> CallState] /\ \A d \in Calls : ReqInv(call'[d], Present')
    BY <2>2, RequestStep DEF SoundInv, TypeOK, SoundStep
  <2>5. QED
    BY <2>2, <2>3, <2>4 DEF SoundInv, TypeOK, SoundStep
<1>3. QED
  BY <1>1, <1>2

LEMMA InitSound ==
  ASSUME YardAssumption, Init
  PROVE  SoundInv
<1>1. TypeOK
  BY IdleIsCall DEF Init, TypeOK, Kinds, SlotRow, AssetRow
<1>2. \A c \in Calls : ReqInv(call[c], Present)
  BY IdleIsCall DEF Init, ReqInv
<1>3. SlotsPlaced /\ NoDanglingReference
  BY DEF Init, SlotsPlaced, NoDanglingReference, SlotExists, Present
<1>4. QED
  BY <1>1, <1>2, <1>3 DEF SoundInv

-----------------------------------------------------------------------------
(* Steps while requests do not overlap                                     *)

\* When c is the only request, what is known before its step.
CalmStep(c) ==
  /\ IInv /\ SoundInv' /\ SoundStep(c) /\ ~disturbed /\ ~disturbed'
  /\ \A d \in Calls \ {c} : Idle(d)

LEMMA CalmBefore ==
  ASSUME NEW c \in Calls, CalmStep(c)
  PROVE  /\ SoundInv /\ Apart /\ GateOnce
         /\ Idle(c) => Mirror
         /\ ~Idle(c) => Doing(call[c]) /\ call[c] \in CallState
  BY DEF CalmStep, IInv, CalmInv, Quiet, SoundInv, TypeOK

\* What is left to show of a step.
LEMMA CalmAfter ==
  ASSUME NEW c \in Calls, CalmStep(c), Apart', GateOnce',
         Idle(c)' => Mirror',
         ~Idle(c)' => Doing(call[c])'
  PROVE  CalmInv'
<1>1. call \in [Calls -> CallState]
  BY DEF CalmStep, IInv, SoundInv, TypeOK
<1>2. \A d \in Calls \ {c} : call'[d] = call[d]
  <2>1. CASE UNCHANGED call
    BY <2>1
  <2>2. CASE Fail(c)
    BY <1>1, <2>2 DEF Fail
  <2>3. CASE \E r \in CallState : Continue(c, r)
    BY <1>1, <2>3, ContinueStep
  <2>4. QED
    BY <2>1, <2>2, <2>3 DEF CalmStep, SoundStep
<1>3. \A d \in Calls \ {c} : Idle(d)'
  BY <1>2 DEF CalmStep, Idle
<1>4. Alone'
  BY <1>3 DEF Alone
<1>5. Quiet' => Mirror'
  BY DEF Quiet
<1>6. (\A d \in Calls : ~Idle(d) => Doing(call[d]))'
  BY <1>3
<1>7. QED
  BY <1>4, <1>5, <1>6 DEF CalmInv

\* How far slots and assets are apart before the next statement of a request.
LEMMA DoingWhat ==
  ASSUME NEW r \in CallState, r.plan # <<>>, Doing(r)
  PROVE  /\ Head(r.plan) \in {"zone", "slot", "pick"} => Mirror
         /\ Head(r.plan) = "find" => Mirror /\ Aimed(r)
         /\ Head(r.plan) \in {"free", "assign", "occupy"} => Moving(r)
<1>1. CASE \E k \in Nat : LayoutReq(r, k) /\ Mirror
  <2>1. Head(r.plan) \in {"zone", "slot", "pick"}
    BY <1>1, LayoutHead
  <2>2. QED
    BY <1>1, <2>1
<1>2. CASE FindReq(r, Present) /\ Mirror /\ Aimed(r)
  <2>1. Head(r.plan) = "find"
    BY <1>2 DEF FindReq
  <2>2. QED
    BY <1>2, <2>1
<1>3. CASE SlotReq(r, Present) /\ Moving(r)
  <2>1. Head(r.plan) \in {"free", "assign", "occupy"}
    BY <1>3, SlotPlanStep DEF SlotReq
  <2>2. QED
    BY <1>3, <2>1
<1>4. QED
  BY <1>1, <1>2, <1>3 DEF Doing

\* A step that writes no row leaves what slots and assets say.
LEMMA SameRows ==
  ASSUME UNCHANGED <<slot, asset>>, outdated \subseteq outdated', Apart, GateOnce
  PROVE  Apart' /\ GateOnce' /\ (Mirror => Mirror') /\ Present' = Present
  BY DEF Apart, GateOnce, Mirror, MirrorAt, SlotExists, On, Present

\* A request that goes on with its move, or ends it.
LEMMA CalmGoesOn ==
  ASSUME NEW c \in Calls, CalmStep(c), NEW q \in CallState, Continue(c, q),
         Apart', GateOnce', Moving(q)', q.plan = <<>> \/ SlotReq(q, Present')
  PROVE  CalmInv'
<1>1. call'[c] = IF q.plan = <<>> THEN IdleCall ELSE q
  BY ContinueStep DEF CalmStep, IInv, SoundInv, TypeOK
<1>2. CASE q.plan = <<>>
  <2>1. ~Due(q.plan, "free") /\ ~Due(q.plan, "assign") /\ ~Due(q.plan, "occupy")
    BY <1>2 DEF Due
  <2>2. Mirror'
    BY <2>1 DEF Moving, Mirror, MovingAt, MirrorAt
  <2>3. Idle(c)'
    BY <1>1, <1>2, IdleIsCall DEF Idle
  <2>4. QED
    BY <2>2, <2>3, CalmAfter
<1>3. CASE q.plan # <<>>
  <2>1. call'[c] = q
    BY <1>1, <1>3
  <2>2. Moving(call[c])'
    BY <2>1 DEF Moving, MovingAt, MirrorAt, Known, On, SlotExists, Present
  <2>3. SlotReq(call[c], Present)'
    BY <1>3, <2>1
  <2>4. QED
    BY <1>3, <2>1, <2>2, <2>3, CalmAfter DEF Doing, Idle
<1>4. QED
  BY <1>2, <1>3

LEMMA CalmStarts ==
  ASSUME NEW c \in Calls, CalmStep(c), Idle(c), UNCHANGED <<slot, asset, outdated>>,
         ~Idle(c)' => \E k \in Nat : LayoutReq(call'[c], k)
  PROVE  CalmInv'
<1>1. Apart' /\ GateOnce' /\ Mirror'
  BY CalmBefore, SameRows
<1>2. ~Idle(c)' => Doing(call[c])'
  BY <1>1 DEF Doing
<1>3. QED
  BY <1>1, <1>2, CalmAfter

LEMMA CalmInsertZone ==
  ASSUME YardAssumption, NEW c \in Calls, CalmStep(c), NEW z \in Zones, InsertZone(c, z)
  PROVE  CalmInv'
<1>1. ~Idle(c) /\ Head(call[c].plan) = "zone"
  BY DEF InsertZone, Runs
<1>2. LayoutReq(call'[c], ZoneSize) /\ UNCHANGED <<slot, asset, outdated>> /\ ZoneSize \in Nat
  BY CalmBefore, InsertZoneStep DEF YardAssumption
<1>3. Mirror
  BY <1>1, CalmBefore, DoingWhat DEF Idle
<1>4. Apart' /\ GateOnce' /\ Mirror'
  BY <1>2, <1>3, CalmBefore, SameRows
<1>5. Doing(call[c])'
  BY <1>2, <1>4 DEF Doing
<1>6. QED
  BY <1>4, <1>5, CalmAfter

LEMMA CalmInsertSlot ==
  ASSUME NEW c \in Calls, CalmStep(c), NEW s \in Slots, InsertSlot(c, s)
  PROVE  CalmInv'
<1>1. ~Idle(c) /\ Head(call[c].plan) = "slot"
  BY DEF InsertSlot, Runs
<1>2. /\ slot[s].status = "none" /\ UNCHANGED <<asset, outdated>>
      /\ ~Idle(c)' => \E k \in Nat : LayoutReq(call'[c], k)
      /\ slot' # slot => slot' = [slot EXCEPT ![s] = slot'[s]] /\ slot'[s].status = "free"
  BY CalmBefore, InsertSlotStep
<1>3. Mirror /\ SoundInv /\ Apart /\ GateOnce
  BY <1>1, CalmBefore, DoingWhat DEF Idle
<1>4. \A t \in Slots : On(t)' = On(t)
  BY <1>2 DEF On, Present
<1>5. On(s) = {}
  BY <1>2, <1>3 DEF On, SoundInv, NoDanglingReference, SlotExists, Slots, NoRow
<1>6. \A t \in Slots \ {s} : slot'[t] = slot[t]
  BY <1>2, <1>3 DEF SoundInv, TypeOK
<1>7. Mirror'
  <2> SUFFICES ASSUME NEW t \in Slots \ outdated PROVE MirrorAt(t)'
    BY <1>2 DEF Mirror
  <2>1. CASE t = s
    BY <1>2, <1>4, <1>5, <2>1 DEF MirrorAt, SlotExists
  <2>2. CASE t # s
    BY <1>3, <1>4, <1>6, <2>2 DEF Mirror, MirrorAt, SlotExists
  <2>3. QED
    BY <2>1, <2>2
<1>8. Apart' /\ GateOnce'
  BY <1>2, <1>3 DEF Apart, GateOnce, Present
<1>9. ~Idle(c)' => Doing(call[c])'
  BY <1>2, <1>7 DEF Doing
<1>10. QED
  BY <1>7, <1>8, <1>9, CalmAfter

LEMMA CalmDeleteZone ==
  ASSUME NEW c \in Calls, CalmStep(c), NEW z \in Zones, DeleteZone(c, z)
  PROVE  CalmInv'
<1> DEFINE gone == {s \in Slots : SlotExists(s) /\ slot[s].zone = z}
<1>1. /\ slot' = [s \in Slots |-> IF s \in gone THEN [slot[s] EXCEPT !.status = "deleted"] ELSE slot[s]]
      /\ asset' = [a \in Assets |-> IF asset[a].slot \in gone THEN [asset[a] EXCEPT !.slot = NoRow] ELSE asset[a]]
      /\ UNCHANGED <<call, outdated>> /\ Idle(c)
  BY DEF DeleteZone
<1>2. Mirror /\ SoundInv /\ Apart /\ GateOnce
  BY <1>1, CalmBefore
<1>3. \A a \in Assets :
        /\ asset'[a].status = asset[a].status /\ asset'[a].source = asset[a].source
        /\ asset'[a].ident = asset[a].ident
        /\ asset'[a].slot = IF asset[a].slot \in gone THEN NoRow ELSE asset[a].slot
  BY <1>1, <1>2 DEF SoundInv, TypeOK, AssetRow
<1>4. \A s \in gone : ~SlotExists(s)'
  BY <1>1, <1>2 DEF SoundInv, TypeOK, SlotRow, SlotExists
<1>5. \A s \in Slots \ gone : slot'[s] = slot[s]
  BY <1>1
<1> HIDE DEF gone
<1>6. Present' = Present
  BY <1>3 DEF Present
<1>7. \A s \in Slots \ gone : On(s)' = On(s)
  <2> SUFFICES ASSUME NEW s \in Slots, s \notin gone PROVE On(s)' = On(s)
    OBVIOUS
  <2>1. s # NoRow
    BY DEF Slots, NoRow
  <2>2. \A a \in Assets : asset'[a].slot = s <=> asset[a].slot = s
    BY <1>3, <2>1
  <2>3. QED
    BY <1>6, <2>2 DEF On, Present
<1>8. Mirror'
  BY <1>1, <1>2, <1>4, <1>5, <1>7 DEF Mirror, MirrorAt, SlotExists
<1>9. Apart' /\ GateOnce'
  BY <1>1, <1>2, <1>3, <1>6 DEF Apart, GateOnce, Present, Slots, NoRow
<1>10. Idle(c)'
  BY <1>1 DEF Idle
<1>11. QED
  BY <1>8, <1>9, <1>10, CalmAfter

LEMMA CalmCreateAsset ==
  ASSUME NEW c \in Calls, CalmStep(c), NEW a \in Assets, NEW ident \in Idents \cup {None},
         CreateAsset(c, a, ident)
  PROVE  CalmInv'
<1>1. /\ asset' = [asset EXCEPT ![a] = [status |-> "in_yard", source |-> "manual", ident |-> ident, slot |-> NoRow]]
      /\ UNCHANGED <<slot, call, outdated>> /\ Idle(c) /\ a \notin Present
  BY DEF CreateAsset
<1>2. Mirror /\ SoundInv /\ Apart /\ GateOnce
  BY <1>1, CalmBefore
<1>3. /\ asset'[a].slot = NoRow /\ asset'[a].source = "manual" /\ asset'[a].status # "none"
      /\ \A b \in Assets \ {a} : asset'[b] = asset[b]
  BY <1>1, <1>2 DEF SoundInv, TypeOK
<1>4. Present' = Present \cup {a}
  BY <1>3 DEF Present
<1>5. \A s \in Slots : On(s)' = On(s)
  BY <1>1, <1>3, <1>4 DEF On, Slots, NoRow, Present
<1>6. Mirror'
  BY <1>1, <1>2, <1>5 DEF Mirror, MirrorAt, SlotExists
<1>7. Apart' /\ GateOnce'
  BY <1>1, <1>2, <1>3, <1>4 DEF Apart, GateOnce, Present, Slots, NoRow
<1>8. Idle(c)'
  BY <1>1 DEF Idle
<1>9. QED
  BY <1>6, <1>7, <1>8, CalmAfter

LEMMA CalmFinds ==
  ASSUME NEW c \in Calls, CalmStep(c), UNCHANGED <<slot, asset>>, outdated \subseteq outdated',
         Mirror, FindReq(call'[c], Present), Aimed(call[c])'
  PROVE  CalmInv'
<1>1. Apart' /\ GateOnce' /\ Mirror' /\ Present' = Present
  BY CalmBefore, SameRows
<1>2. Doing(call[c])'
  BY <1>1 DEF Doing, FindReq
<1>3. ~Idle(c)'
  BY DEF Idle, FindReq
<1>4. QED
  BY <1>1, <1>2, <1>3, CalmAfter

LEMMA CalmFound ==
  ASSUME YardAssumption, NEW c \in Calls, CalmStep(c), UNCHANGED <<zone, slot, asset, outdated>>,
         ~Idle(c), Head(call[c].plan) = "find", FoundStep(c)
  PROVE  CalmInv'
<1>1. PICK q : q = call'[c]
  OBVIOUS
<1>2. SoundInv /\ Apart /\ GateOnce /\ Mirror /\ Aimed(call[c])
  BY CalmBefore, DoingWhat DEF Idle
<1>3. /\ SlotReq(q, Present) /\ q \in CallState /\ Due(q.plan, "assign")
      /\ Due(q.plan, "free") <=> ~(q.old = NoRow \/ q.old = q.slot)
      /\ Due(q.plan, "occupy") => q.slot # NoRow
      /\ q.slot # NoRow /\ q.old # q.slot => Due(q.plan, "occupy")
      /\ q.ident = None /\ q.old = q.slot => ~Due(q.plan, "occupy")
      /\ q.asset # None => q.asset \in Present /\ q.old = asset[q.asset].slot
      /\ q.asset = None => q.old = NoRow /\ Known(q.ident) = {}
      /\ q.ident = None => q.asset # None /\ q.status = asset[q.asset].status
  BY <1>1 DEF FoundStep, SlotReq
<1>4. /\ q.ident # None /\ q.slot # NoRow => slot[q.slot].status = "free"
      /\ q.ident = None => Outdated(q.asset, q.slot) \subseteq outdated
  BY <1>1, <1>2 DEF Aimed, FoundStep
<1>5. q.slot \in Slots \cup {NoRow} /\ q.old \in Slots \cup {NoRow} /\ NoRow \notin Slots
  BY <1>3 DEF CallState, Slots, NoRow
\* A trusted slot that is there and that the asset is not on has no asset.
<1>6. ASSUME q.slot \in Slots \ outdated, SlotExists(q.slot), q.ident # None \/ q.old # q.slot
      PROVE  On(q.slot) = {} /\ slot[q.slot].status # "occupied"
  <2>1. MirrorAt(q.slot)
    BY <1>2, <1>6 DEF Mirror
  <2>2. CASE q.ident # None
    BY <1>4, <1>5, <1>6, <2>1, <2>2 DEF MirrorAt
  <2>3. CASE q.ident = None
    <3>1. On(q.slot) \ {q.asset} = {}
      BY <1>4, <1>6, <2>3 DEF Outdated
    <3>2. q.asset \notin On(q.slot)
      BY <1>3, <1>6, <2>3 DEF On
    <3>3. On(q.slot) = {}
      BY <3>1, <3>2
    <3>4. QED
      BY <1>6, <2>1, <3>3 DEF MirrorAt
  <2>4. QED
    BY <2>2, <2>3
<1>7. ASSUME NEW s \in Slots \ outdated PROVE MovingAt(q, s)
  <2> SUFFICES ASSUME SlotExists(s) PROVE MovingAt(q, s)
    BY DEF MovingAt
  <2>1. MirrorAt(s)
    BY <1>2 DEF Mirror
  <2>2. ASSUME s = q.old, s # q.slot
        PROVE  slot[s].status = "occupied" /\ On(s) # {} /\ Due(q.plan, "free")
    <3>1. q.asset \in On(s)
      BY <1>3, <1>5, <2>2 DEF On
    <3>2. slot[s].status = "occupied"
      BY <2>1, <3>1 DEF MirrorAt
    <3>3. QED
      BY <1>3, <1>5, <2>2, <3>1, <3>2
  <2>3. ASSUME s = q.slot, s # q.old
        PROVE  slot[s].status # "occupied" /\ On(s) = {} /\ Due(q.plan, "occupy")
    BY <1>3, <1>5, <1>6, <2>3
  <2>4. QED
    BY <1>3, <2>1, <2>2, <2>3 DEF MovingAt
<1>8. q.old = q.slot => ~Due(q.plan, "free") /\ (Due(q.plan, "occupy") => q.slot \in outdated)
  <2> SUFFICES ASSUME q.old = q.slot, Due(q.plan, "occupy"), q.slot \notin outdated
               PROVE  FALSE
    BY <1>3
  <2>1. q.ident # None /\ q.slot \in Slots \ outdated
    BY <1>3, <1>5
  <2>2. SlotExists(q.slot)
    BY <1>4, <1>5, <2>1 DEF SlotExists
  <2>3. q.asset \in On(q.slot)
    BY <1>3, <1>5, <2>1 DEF On
  <2>4. QED
    BY <1>6, <2>1, <2>2, <2>3
<1>9. ASSUME q.slot # NoRow, ~SlotExists(q.slot) PROVE q.old \notin Slots \ outdated
  <2>1. q.ident = None
    BY <1>4, <1>9 DEF SlotExists
  <2>2. Outdated(q.asset, q.slot) = {asset[q.asset].slot} \cap Slots
    BY <1>5, <1>9 DEF Outdated
  <2>3. QED
    BY <1>3, <1>4, <2>1, <2>2
<1>10. Moving(q)
  BY <1>3, <1>7, <1>8, <1>9 DEF Moving
<1>11. Apart' /\ GateOnce' /\ Present' = Present
  BY <1>2, SameRows
<1>12. Doing(call[c])'
  <2>1. Moving(call[c])'
    BY <1>1, <1>10 DEF Moving, MovingAt, MirrorAt, SlotExists, On, Known, Present
  <2>2. SlotReq(call[c], Present)'
    BY <1>1, <1>3, <1>11
  <2>3. QED
    BY <2>1, <2>2 DEF Doing
<1>13. ~Idle(c)'
  BY <1>1, <1>3, SlotPlanStep DEF Idle, SlotReq
<1>14. QED
  BY <1>11, <1>12, <1>13, CalmAfter

\* A slot's status is written: the one that the request leaves, or the one it takes.
LEMMA CalmSlotWritten ==
  ASSUME NEW c \in Calls, CalmStep(c), ~Idle(c), Continue(c, Rest(c)),
         UNCHANGED <<zone, asset, outdated>>,
         \/ Head(call[c].plan) = "free" /\ SetSlotStatus(call[c].old, "free")
         \/ Head(call[c].plan) = "occupy" /\ SetSlotStatus(call[c].slot, "occupied")
  PROVE  CalmInv'
<1>1. PICK r, q : r = call[c] /\ q = Rest(c)
  OBVIOUS
<1>2. /\ SoundInv /\ Apart /\ GateOnce /\ r \in CallState /\ r.plan # <<>> /\ Doing(r)
  BY <1>1, CalmBefore DEF Idle
<1>3. Moving(r)
  <2>1. Head(r.plan) \in {"free", "assign", "occupy"}
    BY <1>1
  <2>2. QED
    BY <1>2, <2>1, DoingWhat
<1>4. /\ SlotReq(r, Present) /\ q \in CallState /\ (q.plan = <<>> \/ SlotReq(q, Present))
      /\ q.ident = r.ident /\ q.asset = r.asset /\ q.status = r.status /\ q.slot = r.slot
      /\ q.old = r.old
      /\ Due(r.plan, Head(r.plan)) /\ ~Due(q.plan, Head(r.plan))
      /\ \A statement \in {"free", "assign", "occupy"} \ {Head(r.plan)} :
           Due(q.plan, statement) <=> Due(r.plan, statement)
  BY <1>2, <1>1, MoveGoesOn
<1>5. PICK s \in Slots :
        \/ Head(r.plan) = "free" /\ s = r.old /\ SetSlotStatus(s, "free")
        \/ Head(r.plan) = "occupy" /\ s = r.slot /\ SetSlotStatus(s, "occupied")
  BY <1>1, <1>2, <1>4 DEF SlotReq, CallState
<1>6. /\ \A t \in Slots : SlotExists(t)' <=> SlotExists(t)
      /\ \A t \in Slots \ {s} : slot'[t] = slot[t]
      /\ SlotExists(s) => slot'[s].status = IF Head(r.plan) = "free" THEN "free" ELSE "occupied"
  BY <1>2, <1>5, SlotWrite
<1>7. (\A t \in Slots : On(t)' = On(t)) /\ Present' = Present
  BY DEF On, Present
<1>8. Apart' /\ GateOnce'
  BY <1>2, <1>7 DEF Apart, GateOnce
<1>9. Due(q.plan, "assign") <=> Due(r.plan, "assign")
  BY <1>4, <1>5
<1>10. ASSUME NEW t \in Slots \ outdated PROVE MovingAt(q, t)'
  <2> SUFFICES ASSUME SlotExists(t) PROVE MovingAt(q, t)'
    BY <1>6 DEF MovingAt
  <2>1. MovingAt(r, t)
    BY <1>3 DEF Moving
  <2>2. CASE t # s
    <3>1. slot'[t] = slot[t] /\ (MirrorAt(t) => MirrorAt(t)')
      BY <1>6, <1>7, <2>2 DEF MirrorAt
    <3>2. t = r.old => (Due(q.plan, "free") <=> Due(r.plan, "free"))
      BY <1>4, <1>5, <2>2
    <3>3. t = r.slot => (Due(q.plan, "occupy") <=> Due(r.plan, "occupy"))
      BY <1>4, <1>5, <2>2
    <3>4. QED
      BY <1>4, <1>7, <1>9, <2>1, <3>1, <3>2, <3>3 DEF MovingAt
  <2>3. CASE t = s /\ Head(r.plan) = "free"
    <3>1. t = r.old /\ t # r.slot /\ ~Due(q.plan, "free") /\ slot'[t].status = "free"
      BY <1>3, <1>4, <1>5, <1>6, <2>3 DEF Moving
    <3>2. QED
      BY <1>4, <1>7, <1>9, <2>1, <3>1 DEF MovingAt
  <2>4. CASE t = s /\ Head(r.plan) = "occupy"
    <3>1. t = r.slot /\ t # r.old /\ ~Due(q.plan, "occupy") /\ slot'[t].status = "occupied"
      BY <1>3, <1>4, <1>5, <1>6, <2>4 DEF Moving
    <3>2. QED
      BY <1>4, <1>7, <1>9, <2>1, <3>1 DEF MovingAt
  <2>5. QED
    BY <1>5, <2>2, <2>3, <2>4
<1>11. q.old = q.slot => ~Due(q.plan, "free") /\ (Due(q.plan, "occupy") => q.slot \in outdated)
  BY <1>3, <1>4, <1>5 DEF Moving
<1>12. q.slot # NoRow /\ ~SlotExists(q.slot)' =>
         Due(q.plan, "assign") /\ q.old \notin Slots \ outdated
  BY <1>3, <1>4, <1>6, <1>9 DEF Moving, CallState
<1>13. Due(q.plan, "assign") =>
         /\ q.asset # None => asset[q.asset].slot = q.old
         /\ q.asset = None => q.old = NoRow /\ Known(q.ident) = {}
         /\ q.ident = None => q.status = asset[q.asset].status
  BY <1>3, <1>4, <1>9 DEF Moving
<1>14. Moving(q)'
  BY <1>7, <1>10, <1>11, <1>12, <1>13 DEF Moving, Known
<1>15. QED
  BY <1>1, <1>4, <1>7, <1>8, <1>14, CalmGoesOn

LEMMA CalmAssigned ==
  ASSUME YardAssumption, NEW c \in Calls, CalmStep(c), NEW a \in Assets, AssignSlot(c, a)
  PROVE  CalmInv'
<1>1. PICK r, q : r = call[c] /\ q = Rest(c)
  OBVIOUS
<1>2. /\ SoundInv /\ Apart /\ GateOnce /\ r \in CallState /\ r.plan # <<>> /\ Doing(r)
      /\ ~Idle(c) /\ Head(r.plan) = "assign" /\ UNCHANGED <<zone, slot, outdated>>
  BY <1>1, CalmBefore DEF Idle, AssignSlot, Runs
<1>3. Moving(r)
  <2>1. Head(r.plan) \in {"free", "assign", "occupy"}
    BY <1>2
  <2>2. QED
    BY <1>2, <2>1, DoingWhat
<1>4. /\ SlotReq(r, Present) /\ q \in CallState /\ (q.plan = <<>> \/ SlotReq(q, Present))
      /\ q.ident = r.ident /\ q.asset = r.asset /\ q.status = r.status /\ q.slot = r.slot
      /\ q.old = r.old
      /\ Due(r.plan, "assign") /\ ~Due(q.plan, "assign")
      /\ (Due(q.plan, "free") <=> Due(r.plan, "free"))
      /\ (Due(q.plan, "occupy") <=> Due(r.plan, "occupy"))
      /\ Due(r.plan, "free") => Head(r.plan) = "free"
  BY <1>1, <1>2, MoveGoesOn
<1>5. r.slot \in Slots \cup {NoRow} /\ r.old \in Slots \cup {NoRow} /\ NoRow \notin Slots
  BY <1>2 DEF CallState, Slots, NoRow
\* The foreign key refuses a slot that is gone: the asset stays where it was.
<1>6. CASE ~KeyHolds(r.slot)
  <2>1. Fail(c) /\ UNCHANGED asset
    BY <1>1, <1>6, AssignSlotStep, <1>2
  <2>2. r.slot # NoRow /\ ~SlotExists(r.slot) /\ r.old \notin Slots \ outdated
    BY <1>3, <1>6 DEF KeyHolds, Moving
  <2>3. Mirror
    BY <1>3, <2>2 DEF Mirror, MirrorAt, Moving, MovingAt
  <2>4. Apart' /\ GateOnce' /\ Mirror'
    BY <1>2, <2>1, <2>3, SameRows
  <2>5. Idle(c)'
    BY <2>1, IdleIsCall DEF Idle, Fail, CalmStep, IInv, SoundInv, TypeOK
  <2>6. QED
    BY <2>4, <2>5, CalmAfter
<1>7. CASE KeyHolds(r.slot)
  <2>1. Assigned(r, a) /\ Continue(c, q)
    BY <1>1, <1>2, <1>7, AssignSlotStep
  <2>2. /\ \A b \in Assets \ {a} : asset'[b] = asset[b]
        /\ asset'[a].slot = r.slot /\ asset'[a].status # "none"
        /\ r.asset = None => a \notin Present /\ asset'[a].ident = r.ident /\ r.old = NoRow
        /\ r.asset # None => /\ a \in Present /\ a = r.asset /\ asset[a].slot = r.old
                            /\ asset'[a].source = asset[a].source
                            /\ asset'[a].ident = asset[a].ident
    BY <1>2, <1>3, <1>4, <2>1 DEF Assigned, SoundInv, TypeOK, SlotReq, CallState, Moving
  <2>3. Present' = Present \cup {a}
    BY <2>2 DEF Present
  <2>4. \A s \in Slots : On(s)' = IF s = r.slot THEN On(s) \cup {a} ELSE On(s) \ {a}
    BY <2>2, <2>3 DEF On, Present
  <2>5. ASSUME NEW s \in Slots \ outdated, s = r.slot
        PROVE  On(s) \subseteq {a}
    <3>1. MovingAt(r, s) /\ SlotExists(s)
      BY <1>3, <1>5, <1>7, <2>5 DEF Moving, KeyHolds
    <3>2. CASE s # r.old
      BY <1>4, <2>5, <3>1, <3>2 DEF MovingAt
    <3>3. CASE s = r.old
      <4>1. a \in Present /\ asset[a].slot = s
        BY <1>5, <2>2, <3>3
      <4>2. QED
        BY <1>2, <4>1 DEF Apart, On
    <3>4. QED
      BY <3>2, <3>3
  <2>6. Apart'
    <3>1. \A b \in Present : asset[b].slot = r.slot /\ r.slot \in Slots \ outdated => b = a
      BY <2>5 DEF On
    <3>2. QED
      BY <1>2, <2>2, <2>3, <3>1 DEF Apart, Present
  <2>7. GateOnce'
    <3>1. CASE r.asset = None
      <4>1. \A b \in Present : asset[b].ident # r.ident
        BY <1>3, <1>4, <3>1 DEF Moving, Known
      <4>2. QED
        BY <1>2, <2>2, <2>3, <3>1, <4>1 DEF GateOnce, Present
    <3>2. CASE r.asset # None
      BY <1>2, <2>2, <2>3, <3>2 DEF GateOnce, Present
    <3>3. QED
      BY <3>1, <3>2
  <2>8. ASSUME NEW s \in Slots \ outdated PROVE MovingAt(q, s)'
    <3> SUFFICES ASSUME SlotExists(s) PROVE MovingAt(q, s)'
      BY <1>2 DEF MovingAt, SlotExists
    <3>1. MovingAt(r, s)
      BY <1>3 DEF Moving
    <3>2. CASE s = r.old /\ s # r.slot
      <4>1. a \in Present /\ asset[a].slot = s
        BY <1>5, <2>2, <3>2
      <4>2. On(s) \subseteq {a}
        BY <1>2, <4>1 DEF Apart, On
      <4>3. On(s)' = {}
        BY <2>4, <3>2, <4>2
      <4>4. QED
        BY <1>2, <1>4, <3>1, <3>2, <4>3 DEF MovingAt
    <3>3. CASE s = r.slot /\ s # r.old
      <4>1. On(s)' # {}
        BY <2>4, <3>3
      <4>2. QED
        BY <1>2, <1>4, <3>1, <3>3, <4>1 DEF MovingAt
    <3>4. CASE s = r.old <=> s = r.slot
      <4>1. On(s)' = On(s)
        <5>1. CASE s = r.slot
          <6>1. a \in On(s)
            BY <1>5, <2>2, <3>4, <5>1 DEF On
          <6>2. On(s)' = On(s) \cup {a}
            BY <2>4, <5>1
          <6>3. QED
            BY <6>1, <6>2
        <5>2. CASE s # r.slot
          <6>1. a \notin On(s)
            BY <2>2, <3>4, <5>2 DEF On
          <6>2. On(s)' = On(s) \ {a}
            BY <2>4, <5>2
          <6>3. QED
            BY <6>1, <6>2
        <5>3. QED
          BY <5>1, <5>2
      <4>2. MirrorAt(s) => MirrorAt(s)'
        BY <1>2, <4>1 DEF MirrorAt, SlotExists
      <4>3. QED
        BY <1>4, <3>1, <3>4, <4>2 DEF MovingAt
    <3>5. QED
      BY <3>2, <3>3, <3>4
  <2>9. q.old = q.slot => ~Due(q.plan, "free") /\ (Due(q.plan, "occupy") => q.slot \in outdated)
    BY <1>3, <1>4 DEF Moving
  <2>10. q.slot = NoRow \/ SlotExists(q.slot)'
    BY <1>2, <1>4, <1>7 DEF KeyHolds, SlotExists
  <2>11. Moving(q)'
    BY <1>2, <1>4, <2>8, <2>9, <2>10 DEF Moving
  <2>12. q.plan = <<>> \/ SlotReq(q, Present')
    BY <1>4, <2>3 DEF SlotReq
  <2>13. QED
    BY <1>4, <2>1, <2>6, <2>7, <2>11, <2>12, CalmGoesOn
<1>8. QED
  BY <1>6, <1>7

LEMMA CalmNext ==
  ASSUME YardAssumption, NEW c \in Calls, CalmStep(c), ZoneOps(c) \/ AssetOps(c)
  PROVE  CalmInv'
<1>1. SoundInv
  BY DEF CalmStep, IInv
<1>2. ASSUME NEW kind \in NewKinds, CreateZone(c, kind) PROVE CalmInv'
  <2>1. LayoutReq(call'[c], 0) /\ Idle(c) /\ UNCHANGED <<slot, asset, outdated>>
    BY <1>1, <1>2, CreateZoneStep DEF CreateZone, YardAssumption, Kinds
  <2>2. QED
    BY <2>1, CalmStarts
<1>3. CASE GetLayout(c)
  <2>1. (~Idle(c)' => LayoutReq(call'[c], 0)) /\ Idle(c) /\ UNCHANGED <<slot, asset, outdated>>
    BY <1>1, <1>3, GetLayoutStep DEF GetLayout
  <2>2. QED
    BY <2>1, CalmStarts
<1>4. ASSUME NEW z \in Zones, InsertZone(c, z) \/ DeleteZone(c, z) PROVE CalmInv'
  BY <1>4, CalmInsertZone, CalmDeleteZone
<1>5. ASSUME NEW s \in Slots, InsertSlot(c, s) PROVE CalmInv'
  BY <1>5, CalmInsertSlot
<1>6. ASSUME NEW a \in Assets, NEW ident \in Idents \cup {None}, CreateAsset(c, a, ident)
      PROVE  CalmInv'
  BY <1>6, CalmCreateAsset
<1>7. ASSUME NEW ident \in Idents, GateRead(c, ident) PROVE CalmInv'
  <2>1. LayoutReq(call'[c], 0) /\ Idle(c) /\ UNCHANGED <<slot, asset, outdated>>
    BY <1>1, <1>7, GateReadStep DEF GateRead
  <2>2. QED
    BY <2>1, CalmStarts
<1>8. CASE PickSlot(c)
  <2>1. ~Idle(c) /\ Head(call[c].plan) = "pick"
    BY <1>8 DEF PickSlot, Runs
  <2>2. Mirror
    BY <2>1, CalmBefore, DoingWhat DEF Idle
  <2>3. /\ UNCHANGED <<slot, asset, outdated>> /\ FindReq(call'[c], Present)
        /\ call'[c].ident # None
        /\ call'[c].slot # NoRow => slot[call'[c].slot].status = "free"
    BY <1>1, <1>8, PickSlotStep
  <2>4. Aimed(call[c])'
    BY <2>3 DEF Aimed
  <2>5. QED
    BY <2>2, <2>3, <2>4, CalmFinds
<1>9. ASSUME NEW a \in Assets \cup {None}, FindByIdentifier(c, a) PROVE CalmInv'
  <2>1. ~Idle(c) /\ Head(call[c].plan) = "find"
    BY <1>9 DEF FindByIdentifier, Runs
  <2>2. FoundStep(c) /\ UNCHANGED <<zone, slot, asset, outdated>>
    BY <1>1, <1>9, FindByIdentifierStep
  <2>3. QED
    BY <2>1, <2>2, CalmFound
<1>10. ASSUME NEW a \in Assets, NEW s \in Slots \cup {NoRow}, DropAsset(c, a, s) PROVE CalmInv'
  <2>1. Idle(c)
    BY <1>10 DEF DropAsset
  <2>2. Mirror
    BY <2>1, CalmBefore
  <2>3. /\ UNCHANGED <<slot, asset>> /\ FindReq(call'[c], Present)
        /\ outdated' = outdated \cup Outdated(a, s)
        /\ call'[c].ident = None /\ call'[c].asset = a /\ call'[c].slot = s
    BY <1>1, <1>10, DropAssetStep
  <2>4. Aimed(call[c])'
    <3>1. Outdated(a, s)' = Outdated(a, s)
      BY <2>3 DEF Outdated, SlotExists, On, Present
    <3>2. QED
      BY <2>3, <3>1 DEF Aimed
  <2>5. QED
    BY <2>2, <2>3, <2>4, CalmFinds
<1>11. CASE FindAsset(c)
  <2>1. ~Idle(c) /\ Head(call[c].plan) = "find"
    BY <1>11 DEF FindAsset, Runs
  <2>2. FoundStep(c) /\ UNCHANGED <<zone, slot, asset, outdated>>
    BY <1>1, <1>11, FindAssetStep
  <2>3. QED
    BY <2>1, <2>2, CalmFound
<1>12. CASE FreeSlot(c)
  BY <1>12, CalmSlotWritten DEF FreeSlot, Runs
<1>13. CASE OccupySlot(c)
  BY <1>13, CalmSlotWritten DEF OccupySlot, Runs
<1>14. ASSUME NEW a \in Assets, AssignSlot(c, a) PROVE CalmInv'
  BY <1>14, CalmAssigned
<1>15. QED
  BY <1>2, <1>3, <1>4, <1>5, <1>6, <1>7, <1>8, <1>9, <1>10, <1>11, <1>12, <1>13, <1>14
     DEF ZoneOps, AssetOps

\* A step that no request overlaps is one of the only request there is.
LEMMA OnlyRequest ==
  ASSUME YardAssumption, IInv, Next, ~disturbed'
  PROVE  \E c \in Calls : CalmStep(c) /\ (ZoneOps(c) \/ AssetOps(c))
<1>1. PICK c \in Calls :
        \/ (ZoneOps(c) \/ AssetOps(c)) /\ disturbed' = (disturbed \/ Others(c))
        \/ CallFails(c) /\ disturbed' = TRUE
  BY DEF Next
<1>2. (ZoneOps(c) \/ AssetOps(c)) /\ ~disturbed /\ ~Others(c)
  BY <1>1 DEF IInv, SoundInv, TypeOK, Others
<1>3. SoundInv' /\ SoundStep(c)
  BY <1>2, NextSound, OpsSound DEF IInv
<1>4. QED
  BY <1>2, <1>3 DEF CalmStep, Others

-----------------------------------------------------------------------------
(* Theorems                                                                *)

\* Requests are what they can be and rows refer to rows, and until requests overlap or
\* one dies the slots and the assets are apart by what the one that runs has still to do,
\* and on the slots where a drop went by an outdated map.
THEOREM Invariance == Spec => []IInv
<1> USE YardAssumption
<1>1. Init => IInv
  <2> SUFFICES ASSUME Init PROVE IInv
    OBVIOUS
  <2>1. SoundInv
    BY InitSound
  <2>2. Present = {} /\ \A c \in Calls : Idle(c)
    BY IdleIsCall DEF Init, Present, Idle
  <2>3. Apart /\ GateOnce /\ Alone
    BY <2>2 DEF Apart, GateOnce, Alone
  <2>4. Mirror
    BY DEF Init, Mirror, MirrorAt, SlotExists
  <2>5. QED
    BY <2>1, <2>2, <2>3, <2>4 DEF IInv, CalmInv
<1>2. IInv /\ [Next]_vars => IInv'
  <2> SUFFICES ASSUME IInv, [Next]_vars PROVE IInv'
    OBVIOUS
  <2>1. SoundInv'
    BY NextSound DEF IInv
  <2>2. CASE UNCHANGED vars
    <3>1. Present' = Present /\ \A s : On(s)' = On(s)
      BY <2>2 DEF vars, Present, On
    <3>2. Apart' = Apart /\ GateOnce' = GateOnce /\ Mirror' = Mirror
      BY <2>2, <3>1 DEF vars, Apart, GateOnce, Mirror, MirrorAt, SlotExists
    <3>3. ASSUME NEW r, Moving(r) PROVE Moving(r)'
      <4>1. ASSUME NEW s \in Slots \ outdated PROVE MovingAt(r, s)'
        BY <2>2, <3>1, <3>3 DEF vars, Moving, MovingAt, MirrorAt, SlotExists
      <4>2. Known(r.ident)' = Known(r.ident)
        BY <2>2, <3>1 DEF vars, Known
      <4>3. QED
        BY <2>2, <3>3, <4>1, <4>2 DEF vars, Moving, SlotExists
    <3>4. ASSUME NEW r, Doing(r) PROVE Doing(r)'
      <4>1. Aimed(r) => Aimed(r)'
        BY <2>2, <3>1 DEF vars, Aimed, Outdated, SlotExists
      <4>2. QED
        BY <2>2, <3>1, <3>2, <3>3, <3>4, <4>1 DEF vars, Doing
    <3>5. call' = call /\ disturbed' = disturbed
      BY <2>2 DEF vars
    <3>6. Quiet' = Quiet /\ Alone' = Alone /\ \A c \in Calls : Idle(c)' <=> Idle(c)
      BY <3>5 DEF Quiet, Alone, Idle
    <3>7. CalmInv'
      <4> SUFFICES ASSUME ~disturbed
                   PROVE  /\ Apart' /\ GateOnce' /\ Alone' /\ (Quiet' => Mirror')
                          /\ \A c \in Calls : ~Idle(c)' => Doing(call[c])'
        BY <3>5 DEF CalmInv
      <4>1. ASSUME NEW c \in Calls, ~Idle(c)' PROVE Doing(call[c])'
        <5>1. PICK r : r = call[c]
          OBVIOUS
        <5>2. Doing(r)'
          BY <3>4, <3>6, <4>1, <5>1 DEF IInv, CalmInv
        <5>3. QED
          BY <3>5, <5>1, <5>2
      <4>2. QED
        BY <3>2, <3>6, <4>1 DEF IInv, CalmInv
    <3>8. QED
      BY <2>1, <3>7 DEF IInv
  <2>3. CASE Next /\ disturbed'
    BY <2>1, <2>3 DEF IInv, CalmInv
  <2>4. CASE Next /\ ~disturbed'
    BY <2>1, <2>4, OnlyRequest, CalmNext DEF IInv
  <2>5. QED
    BY <2>2, <2>3, <2>4
<1>3. QED
  BY <1>1, <1>2, PTL DEF Spec

\* Zones deleted while slots are inserted and assets assigned leave no slot without its
\* zone and no asset on a slot that is gone, however requests overlap and fail.
THEOREM ReferencesHold == Spec => []ReferencesSound
<1>1. IInv => ReferencesSound
  BY DEF IInv, SoundInv, ReferencesSound
<1>2. QED
  BY <1>1, Invariance, PTL

\* Unless requests have overlapped or one has died, one asset stands on a slot, slots
\* and assets agree once no request runs, and a vehicle the gate reads is one asset,
\* but for the slots where a drop went by an outdated map: neither the assets that leave
\* them nor those that are sent to them carry the mistake to another slot.
THEOREM ParkingHolds == Spec => []ParkingSound
<1>1. ASSUME NEW S, \A a, b \in S : a = b
      PROVE  Cardinality(S) <= 1
  <2>1. CASE S = {}
    BY <2>1, FS_EmptySet
  <2>2. CASE S # {}
    <3>1. PICK a : a \in S
      BY <2>2
    <3>2. S = {a}
      BY <1>1, <3>1
    <3>3. QED
      BY <3>2, FS_Singleton
  <2>3. QED
    BY <2>1, <2>2
<1>2. IInv => ParkingSound
  <2> SUFFICES ASSUME IInv, ~disturbed
               PROVE  /\ \A s \in Slots \ outdated : Cardinality(On(s)) <= 1
                      /\ Quiet => \A s \in Slots \ outdated :
                                   SlotExists(s) => (slot[s].status = "occupied" <=> On(s) # {})
                      /\ \A ident \in Idents : Cardinality(
                           {a \in Present : asset[a].ident = ident /\ asset[a].source = "gate"}) <= 1
    BY DEF ParkingSound, SharedOnlyByRace, SlotMirrorsAssets, OneGateAsset
  <2>1. Apart /\ GateOnce /\ (Quiet => Mirror)
    BY DEF IInv, CalmInv
  <2>2. ASSUME NEW s \in Slots \ outdated PROVE Cardinality(On(s)) <= 1
    <3>1. \A a, b \in On(s) : a = b
      BY <2>1 DEF On, Apart
    <3>2. QED
      BY <1>1, <3>1
  <2>3. ASSUME NEW ident \in Idents
        PROVE  Cardinality({a \in Present : asset[a].ident = ident /\ asset[a].source = "gate"}) <= 1
    <3> DEFINE same == {a \in Present : asset[a].ident = ident /\ asset[a].source = "gate"}
    <3>1. \A a, b \in same : a = b
      BY <2>1 DEF GateOnce
    <3> HIDE DEF same
    <3>2. Cardinality(same) <= 1
      BY <1>1, <3>1
    <3>3. QED
      BY <3>2 DEF same
  <2>4. QED
    BY <2>1, <2>2, <2>3 DEF Mirror, MirrorAt
<1>3. QED
  BY <1>2, Invariance, PTL

\* Unless requests have overlapped, no step takes the gate's mark back from an asset.
THEOREM CheckInHolds == Spec => CheckInKept
<1> USE YardAssumption
<1> DEFINE Kept == ~disturbed' => \A a \in Assets :
                     asset[a].status = "gate_in" => asset'[a].status = "gate_in"
<1>1. IInv /\ [Next]_vars => [Kept]_vars
  <2> SUFFICES ASSUME IInv, Next, ~disturbed'
               PROVE  \A a \in Assets : asset[a].status = "gate_in" => asset'[a].status = "gate_in"
    OBVIOUS
  <2>1. PICK c \in Calls : CalmStep(c) /\ (ZoneOps(c) \/ AssetOps(c))
    BY OnlyRequest
  <2>2. SoundInv
    BY DEF IInv
  <2>3. CASE UNCHANGED asset
    BY <2>3
  <2>4. ASSUME NEW z \in Zones, DeleteZone(c, z)
        PROVE  \A a \in Assets : asset'[a].status = asset[a].status
    BY <2>2, <2>4 DEF DeleteZone, SoundInv, TypeOK, AssetRow
  <2>5. ASSUME NEW b \in Assets, NEW ident \in Idents \cup {None}, CreateAsset(c, b, ident)
        PROVE  \A a \in Assets : asset[a].status = "gate_in" => asset'[a].status = "gate_in"
    BY <2>2, <2>5 DEF CreateAsset, Present, SoundInv, TypeOK
  <2>6. ASSUME NEW b \in Assets, AssignSlot(c, b), ~UNCHANGED asset
        PROVE  \A a \in Assets : asset[a].status = "gate_in" => asset'[a].status = "gate_in"
    <3>1. ~Idle(c) /\ Head(call[c].plan) = "assign"
      BY <2>6 DEF AssignSlot, Runs
    <3>2. SlotReq(call[c], Present) /\ Due(call[c].plan, "assign")
      BY <2>2, <3>1, MoveGoesOn
    <3>3. Moving(call[c])
      <4>1. Head(call[c].plan) \in {"free", "assign", "occupy"}
        BY <3>1
      <4>2. QED
        BY <2>1, <3>1, <4>1, CalmBefore, DoingWhat DEF Idle
    <3>4. Assigned(call[c], b)
      BY <2>2, <2>6, AssignSlotStep
    <3>5. \A a \in Assets \ {b} : asset'[a] = asset[a]
      BY <2>2, <3>4 DEF Assigned, SoundInv, TypeOK
    <3>6. asset[b].status = "gate_in" => asset'[b].status = "gate_in"
      BY <3>2, <3>3, <3>4 DEF Assigned, Moving, SlotReq
    <3>7. QED
      BY <3>5, <3>6
  <2>7. QED
    BY <2>1, <2>3, <2>4, <2>5, <2>6
       DEF ZoneOps, AssetOps, CreateZone, GetLayout, InsertZone, InsertSlot, GateRead, PickSlot,
           FindByIdentifier, DropAsset, FindAsset, FreeSlot, OccupySlot
<1>2. QED
  BY <1>1, Invariance, PTL DEF Spec, CheckInKept

=============================================================================
