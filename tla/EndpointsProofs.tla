--------------------------- MODULE EndpointsProofs ---------------------------
(***************************************************************************)
(* Proofs about Endpoints: how far the limit of the plan can be overrun,   *)
(* and what an update and a deletion leave alone.                          *)
(***************************************************************************)
EXTENDS Endpoints, FiniteSetTheorems, TLAPS

USE DEF apiVars, routeVars

-----------------------------------------------------------------------------
(* Types.                                                                   *)

\* The rows an update may write are rows, of the same project, and deleted only by
\* a delete.
LEMMA WrittenRows ==
    ASSUME NEW row \in Row, NEW op \in Changes, NEW new \in Written(row, op)
    PROVE  /\ new \in Row
           /\ new.project = row.project
           /\ op # "delete" => new.deleted = row.deleted
           /\ op # "status" => new.active = row.active
           /\ op = "delete" => new.deleted
           /\ row.secret = "set" => new.secret = "set"
<1>1. CASE op = "settings"
  <2>1. PICK mode \in Modes, typed \in {"nothing", "new"} :
            new = Saved(row, mode, SettingsSecret(typed))
    BY <1>1 DEF Written, SaveSettings
  <2> QED  BY <1>1, <2>1 DEF Saved, SettingsSecret, Row, Secrets
<1>2. CASE op = "status"
  BY <1>2 DEF Written, Row
<1>3. CASE op = "delete"
  BY <1>3 DEF Written, Row
<1> QED  BY <1>1, <1>2, <1>3 DEF Changes

\* A request that is under way is a record of its kind.
LEMMA CreateCall ==
    ASSUME TypeOK, NEW c \in Calls, Does(c, "create")
    PROVE  call[c] \in [op : {"create"}, project : Projects, used : Nat \cup {Unread},
                        plan : Limits \cup {Unread}]
  BY EndpointsAssumption DEF TypeOK, Does, Call, Changes

LEMMA ActiveIsFinite ==
    ASSUME NEW S \in SUBSET Ids
    PROVE  IsFiniteSet(S) /\ Cardinality(S) \in Nat
  BY EndpointsAssumption, FS_Subset, FS_CardinalityType

LEMMA CallsAreFinite ==
    /\ Cardinality(Calls) \in Nat /\ Cardinality(Calls) >= 1
    /\ \A S \in SUBSET Calls : /\ IsFiniteSet(S) /\ Cardinality(S) \in Nat
                               /\ Cardinality(S) <= Cardinality(Calls)
  BY EndpointsAssumption, FS_Subset, FS_CardinalityType, FS_EmptySet

LEMMA TypesStep ==
    ASSUME TypeOK, [Next]_vars
    PROVE  TypeOK'
<1> USE EndpointsAssumption DEF TypeOK
<1>1. ASSUME NEW c \in Calls, Begin(c) PROVE TypeOK'
  <2>1. PICK p \in Projects \ gone :
            call' \in {[call EXCEPT ![c] = new] : new \in
                [op : Changes, project : {p}] \cup
                [op : {"create"}, project : {p}, used : {Unread}, plan : {Unread}]}
    BY <1>1 DEF Begin
  <2>2. PICK new \in [op : Changes, project : {p}] \cup
                     [op : {"create"}, project : {p}, used : {Unread}, plan : {Unread}] :
            call' = [call EXCEPT ![c] = new]
    BY <2>1
  <2>3. new \in Call
    BY <2>2 DEF Call
  <2> QED  BY <1>1, <2>2, <2>3 DEF Begin
<1>2. ASSUME NEW c \in Calls, ReadPlan(c) PROVE TypeOK'
  <2>1. call'[c] \in Call
    BY <1>2, CreateCall DEF ReadPlan, Call
  <2> QED  BY <1>2, <2>1 DEF ReadPlan
<1>3. ASSUME NEW c \in Calls, CountActive(c) PROVE TypeOK'
  <2>1. call'[c] \in Call
    BY <1>3, CreateCall, ActiveIsFinite DEF CountActive, Call, Active
  <2> QED  BY <1>3, <2>1 DEF CountActive
<1>4. ASSUME NEW c \in Calls, Create(c) PROVE TypeOK'
  BY <1>4 DEF Create, NewRows
<1>5. ASSUME NEW c \in Calls, Refuse(c) PROVE TypeOK'
  BY <1>5 DEF Refuse
<1>6. ASSUME NEW c \in Calls, Write(c) PROVE TypeOK'
  <2>0. PICK e \in Ids : /\ Stands(e)
                         /\ \E row \in Written(endpoint[e], call[c].op) :
                              /\ endpoint' = [endpoint EXCEPT ![e] = row]
                              /\ resumed' \in {resumed, resumed + 1}
    BY <1>6 DEF Write, Matches
  <2>1. PICK row \in Written(endpoint[e], call[c].op) :
            endpoint' = [endpoint EXCEPT ![e] = row] /\ resumed' \in {resumed, resumed + 1}
    BY <2>0
  <2>2. row \in Row
    BY <1>6, <2>0, <2>1, WrittenRows DEF Write, Stands
  <2> QED  BY <1>6, <2>1, <2>2 DEF Write
<1>7. ASSUME NEW c \in Calls, NotWritten(c) PROVE TypeOK'
  BY <1>7 DEF NotWritten
<1>8. ASSUME NEW p \in Projects, DeleteProject(p) PROVE TypeOK'
  BY <1>8 DEF DeleteProject
<1>9. ASSUME ChangePlan PROVE TypeOK'
  BY <1>9 DEF ChangePlan
<1>10. ASSUME NEW d \in Deliveries, RouteStep(d) PROVE TypeOK'
  BY <1>10 DEF RouteStep, Arrive, Lookup, Enqueue, Reject, LogVerificationFailure
<1>11. ASSUME UNCHANGED vars PROVE TypeOK'
  BY <1>11 DEF vars
<1> QED
  BY <1>1, <1>2, <1>3, <1>4, <1>5, <1>6, <1>7, <1>8, <1>9, <1>10, <1>11 DEF Next, ApiStep

\* The rows, the plan and the requests of the API have the types of the code, for
\* any projects, endpoints, requests and plans.
THEOREM EndpointTypes == Spec => []TypeOK
<1>1. Init => TypeOK
  BY DEF Init, TypeOK
<1> QED  BY <1>1, TypesStep, PTL DEF Spec

-----------------------------------------------------------------------------
(* The limit.  A request that counted fewer than t endpoints may still create *)
(* one: with those that are active they are no more than t - 1, one per       *)
(* request, and what was resumed.                                             *)

CreateTypes ==
    \A c \in Calls : Does(c, "create") =>
        /\ call[c].plan \in Nat => call[c].plan <= highest
        /\ call[c].plan # Unread => call[c].plan \in Nat

Behind(t) ==
    {c \in Calls : Does(c, "create") /\ call[c].used # Unread /\ call[c].used < t}

Room(t) == t - 1 + Cardinality(Calls) + resumed

LimitInv ==
    /\ TypeOK
    /\ highest >= limit
    /\ CreateTypes
    /\ \A t \in Nat : t >= highest => Cardinality(Active) + Cardinality(Behind(t)) <= Room(t)

\* A step that adds nothing to either set keeps the bound.
LEMMA Narrower ==
    ASSUME LimitInv, TypeOK', highest' >= highest, resumed' = resumed,
           Active' \subseteq Active,
           \A t \in Nat : Behind(t)' \subseteq Behind(t)
    PROVE  \A t \in Nat : t >= highest' =>
               Cardinality(Active') + Cardinality(Behind(t)') <= Room(t)'
<1> SUFFICES ASSUME NEW t \in Nat, t >= highest'
             PROVE  Cardinality(Active') + Cardinality(Behind(t)') <= Room(t)'
  OBVIOUS
<1>1. t >= highest /\ highest \in Nat /\ highest' \in Nat /\ resumed \in Nat
  BY EndpointsAssumption DEF LimitInv, TypeOK
<1>2. Cardinality(Active) + Cardinality(Behind(t)) <= Room(t)
  BY <1>1 DEF LimitInv
<1>3. /\ Cardinality(Active') <= Cardinality(Active)
      /\ Cardinality(Active') \in Nat /\ Cardinality(Active) \in Nat
  <2>1. IsFiniteSet(Active) /\ Active' \in SUBSET Active
    BY ActiveIsFinite DEF Active
  <2> QED  BY <2>1, FS_Subset, FS_CardinalityType
<1>4. /\ Cardinality(Behind(t)') <= Cardinality(Behind(t))
      /\ Cardinality(Behind(t)') \in Nat /\ Cardinality(Behind(t)) \in Nat
  <2>1. IsFiniteSet(Behind(t)) /\ Behind(t)' \in SUBSET Behind(t)
    BY CallsAreFinite DEF Behind
  <2> QED  BY <2>1, FS_Subset, FS_CardinalityType
<1>5. Room(t) \in Int /\ Room(t)' = Room(t)
  BY <1>1, CallsAreFinite DEF Room
<1> QED  BY <1>2, <1>3, <1>4, <1>5

\* An endpoint more leaves the bound to a request less, or to a resumed endpoint.
LEMMA OneMore ==
    ASSUME LimitInv, TypeOK', NEW e \in Ids, Active' \subseteq Active \cup {e}
    PROVE  /\ Cardinality(Active') <= Cardinality(Active) + 1
           /\ Cardinality(Active') \in Nat /\ Cardinality(Active) \in Nat
<1>1. IsFiniteSet(Active) /\ Cardinality(Active) \in Nat
  BY ActiveIsFinite DEF Active
<1>2. /\ IsFiniteSet(Active \cup {e})
      /\ Cardinality(Active \cup {e}) <= Cardinality(Active) + 1
      /\ Cardinality(Active \cup {e}) \in Nat
  <2>1. /\ IsFiniteSet(Active \cup {e})
        /\ Cardinality(Active \cup {e}) =
              IF e \in Active THEN Cardinality(Active) ELSE Cardinality(Active) + 1
    BY <1>1, FS_AddElement
  <2> QED  BY <1>1, <2>1
<1>3. Cardinality(Active') <= Cardinality(Active \cup {e}) /\ Cardinality(Active') \in Nat
  BY <1>2, FS_Subset, FS_CardinalityType
<1> QED  BY <1>1, <1>2, <1>3

LEMMA CountActiveStep ==
    ASSUME LimitInv, TypeOK', NEW c \in Calls, CountActive(c)
    PROVE  LimitInv'
<1> USE DEF LimitInv
<1>0. /\ call[c] \in [op : {"create"}, project : Projects, used : Nat \cup {Unread},
                      plan : Limits \cup {Unread}]
      /\ call' = [call EXCEPT ![c].used = Cardinality(Active)]
      /\ Does(c, "create")
      /\ UNCHANGED <<gone, endpoint, limit, highest, resumed>>
  BY CreateCall DEF CountActive
<1>1. Active' = Active
  BY <1>0 DEF Active, Stands
<1>2. CreateTypes'
  <2>1. \A d \in Calls : /\ Does(d, "create")' => Does(d, "create")
                         /\ call'[d].plan = call[d].plan
    BY <1>0 DEF Does, TypeOK
  <2> QED  BY <1>0, <2>1 DEF CreateTypes
<1>3. ASSUME NEW t \in Nat, t >= highest'
      PROVE  Cardinality(Active') + Cardinality(Behind(t)') <= Room(t)'
  <2>1. Cardinality(Active) \in Nat /\ resumed \in Nat
    BY ActiveIsFinite DEF Active, TypeOK
  <2>2. CASE Cardinality(Active) < t
    <3>1. Cardinality(Behind(t)') <= Cardinality(Calls) /\ Cardinality(Behind(t)') \in Nat
      BY CallsAreFinite DEF Behind
    <3> QED  BY <1>0, <1>1, <2>1, <2>2, <3>1, CallsAreFinite DEF Room
  <2>3. CASE ~(Cardinality(Active) < t)
    <3>1. Behind(t)' \subseteq Behind(t)
      BY <1>0, <2>3 DEF Behind, Does, TypeOK
    <3>2. /\ Cardinality(Behind(t)') <= Cardinality(Behind(t))
          /\ Cardinality(Behind(t)') \in Nat /\ Cardinality(Behind(t)) \in Nat
      <4>1. IsFiniteSet(Behind(t)) /\ Behind(t)' \in SUBSET Behind(t)
        BY <3>1, CallsAreFinite DEF Behind
      <4> QED  BY <4>1, FS_Subset, FS_CardinalityType
    <3>3. Cardinality(Active) + Cardinality(Behind(t)) <= Room(t)
      BY <1>0, <1>3
    <3> QED  BY <1>0, <1>1, <2>1, <3>2, <3>3, CallsAreFinite DEF Room
  <2> QED  BY <2>2, <2>3
<1> QED  BY <1>0, <1>2, <1>3

\* The request that creates leaves the requests that may.
LEMMA CreateStep ==
    ASSUME LimitInv, TypeOK', NEW c \in Calls, Create(c)
    PROVE  LimitInv'
<1> USE DEF LimitInv
<1>0. /\ call[c] \in [op : {"create"}, project : Projects, used : Nat \cup {Unread},
                      plan : Limits \cup {Unread}]
      /\ Does(c, "create") /\ call[c].plan \in Nat /\ call[c].plan <= highest
      /\ call[c].used \in Nat /\ call[c].used < call[c].plan
  BY CreateCall, EndpointsAssumption DEF Create, WithinLimit, Checked, CreateTypes, Unread
<1>1. /\ call' = [call EXCEPT ![c] = Idle]
      /\ UNCHANGED <<gone, limit, highest, resumed>>
  BY DEF Create
<1>2. CreateTypes'
  BY <1>1 DEF CreateTypes, Does, TypeOK
<1>3. PICK e \in Ids : \E row \in NewRows(call[c].project) :
          endpoint[e] = NoRow /\ endpoint' = [endpoint EXCEPT ![e] = row]
  BY DEF Create
<1>4. Active' \subseteq Active \cup {e}
  BY <1>1, <1>3 DEF Active, Stands, TypeOK
<1>5. ASSUME NEW t \in Nat, t >= highest'
      PROVE  Cardinality(Active') + Cardinality(Behind(t)') <= Room(t)'
  <2>1. c \in Behind(t)
    BY <1>0, <1>1, <1>5, EndpointsAssumption DEF Behind, TypeOK, Unread
  <2>2. Behind(t)' = Behind(t) \ {c}
    BY <1>1 DEF Behind, Does, TypeOK
  <2>3. /\ Cardinality(Behind(t)') = Cardinality(Behind(t)) - 1
        /\ Cardinality(Behind(t)) \in Nat
    <3>1. IsFiniteSet(Behind(t)) /\ Cardinality(Behind(t)) \in Nat
      BY CallsAreFinite DEF Behind
    <3> QED  BY <2>1, <2>2, <3>1, FS_RemoveElement
  <2>4. Cardinality(Active) + Cardinality(Behind(t)) <= Room(t) /\ Room(t)' = Room(t)
    BY <1>1, <1>5 DEF Room
  <2>5. Room(t) \in Int
    BY CallsAreFinite DEF Room, TypeOK
  <2> QED  BY <1>4, <2>3, <2>4, <2>5, OneMore
<1> QED  BY <1>1, <1>2, <1>5

LEMMA WriteStep ==
    ASSUME LimitInv, TypeOK', NEW c \in Calls, Write(c)
    PROVE  LimitInv'
<1> USE DEF LimitInv
<1>0. /\ call[c].op \in Changes /\ call[c] # Idle
      /\ call' = [call EXCEPT ![c] = Idle]
      /\ UNCHANGED <<gone, limit, highest>>
  BY DEF Write
<1>1. PICK e \in Ids : /\ Stands(e)
                       /\ \E row \in Written(endpoint[e], call[c].op) :
                            /\ endpoint' = [endpoint EXCEPT ![e] = row]
                            /\ resumed' = IF row.active /\ ~endpoint[e].active
                                          THEN resumed + 1 ELSE resumed
  BY DEF Write, Matches
<1>2. PICK row \in Written(endpoint[e], call[c].op) :
          /\ endpoint' = [endpoint EXCEPT ![e] = row]
          /\ resumed' = IF row.active /\ ~endpoint[e].active THEN resumed + 1 ELSE resumed
  BY <1>1
<1>3. endpoint[e] \in Row /\ row \in Row /\ row.project = endpoint[e].project
  BY <1>0, <1>1, <1>2, WrittenRows DEF Stands, TypeOK
<1>4. CreateTypes'
  BY <1>0 DEF CreateTypes, Does, TypeOK
<1>5. \A t \in Nat : Behind(t)' \subseteq Behind(t)
  BY <1>0 DEF Behind, Does, TypeOK
<1>6. CASE row.active /\ ~endpoint[e].active
  <2>1. Active' \subseteq Active \cup {e} /\ resumed' = resumed + 1
    BY <1>0, <1>2, <1>6 DEF Active, Stands, TypeOK
  <2>2. ASSUME NEW t \in Nat, t >= highest'
        PROVE  Cardinality(Active') + Cardinality(Behind(t)') <= Room(t)'
    <3>1. /\ Cardinality(Behind(t)') <= Cardinality(Behind(t))
          /\ Cardinality(Behind(t)') \in Nat /\ Cardinality(Behind(t)) \in Nat
      <4>1. IsFiniteSet(Behind(t)) /\ Behind(t)' \in SUBSET Behind(t)
        BY <1>5, CallsAreFinite DEF Behind
      <4> QED  BY <4>1, FS_Subset, FS_CardinalityType
    <3>2. Cardinality(Active) + Cardinality(Behind(t)) <= Room(t)
      BY <1>0, <2>2
    <3>3. Room(t) \in Int /\ Room(t)' = Room(t) + 1
      BY <2>1, CallsAreFinite DEF Room, TypeOK
    <3> QED  BY <2>1, <3>1, <3>2, <3>3, OneMore
  <2> QED  BY <1>0, <1>4, <2>2
<1>7. CASE ~(row.active /\ ~endpoint[e].active)
  <2>1. Active' \subseteq Active
    BY <1>0, <1>1, <1>2, <1>3, <1>7 DEF Active, Stands, TypeOK
  <2>2. highest' >= highest /\ resumed' = resumed
    BY <1>0, <1>2, <1>7, EndpointsAssumption DEF TypeOK
  <2> QED  BY <1>0, <1>4, <1>5, <2>1, <2>2, Narrower
<1> QED  BY <1>6, <1>7

LEMMA LimitStep ==
    ASSUME LimitInv, [Next]_vars
    PROVE  LimitInv'
<1> USE EndpointsAssumption DEF LimitInv
<1>0. TypeOK'
  BY TypesStep
<1>1. ASSUME NEW c \in Calls, Begin(c) PROVE LimitInv'
  <2>1. PICK new : /\ call' = [call EXCEPT ![c] = new]
                   /\ \/ new.op \in Changes
                      \/ new.op = "create" /\ new.used = Unread /\ new.plan = Unread
    <3>1. PICK p \in Projects \ gone :
              call' \in {[call EXCEPT ![c] = new] : new \in
                  [op : Changes, project : {p}] \cup
                  [op : {"create"}, project : {p}, used : {Unread}, plan : {Unread}]}
      BY <1>1 DEF Begin
    <3> QED  BY <3>1
  <2>2. UNCHANGED <<gone, endpoint, limit, highest, resumed>>
    BY <1>1 DEF Begin
  <2>3. CreateTypes'
    BY <2>1, <2>2 DEF CreateTypes, Does, TypeOK, Unread, Changes
  <2>4. \A t \in Nat : Behind(t)' \subseteq Behind(t)
    BY <2>1 DEF Behind, Does, TypeOK, Changes
  <2>5. Active' = Active /\ highest' >= highest
    BY <2>2 DEF Active, Stands, TypeOK
  <2> QED  BY <1>0, <2>2, <2>3, <2>4, <2>5, Narrower
<1>2. ASSUME NEW c \in Calls, ReadPlan(c) PROVE LimitInv'
  <2>1. /\ call[c] \in [op : {"create"}, project : Projects, used : Nat \cup {Unread},
                        plan : Limits \cup {Unread}]
        /\ call' = [call EXCEPT ![c].plan = limit]
        /\ Does(c, "create")
        /\ UNCHANGED <<gone, endpoint, limit, highest, resumed>>
    BY <1>2, CreateCall DEF ReadPlan
  <2>2. CreateTypes'
    BY <2>1 DEF CreateTypes, Does, TypeOK, Unread
  <2>3. \A t \in Nat : Behind(t)' \subseteq Behind(t)
    <3>1. \A d \in Calls : /\ Does(d, "create")' => Does(d, "create")
                           /\ call'[d].used = call[d].used
      BY <2>1 DEF Does, TypeOK
    <3> QED  BY <3>1 DEF Behind
  <2>4. Active' = Active /\ highest' >= highest
    BY <2>1 DEF Active, Stands, TypeOK
  <2> QED  BY <1>0, <2>1, <2>2, <2>3, <2>4, Narrower
<1>3. ASSUME NEW c \in Calls, CountActive(c) PROVE LimitInv'
  BY <1>0, <1>3, CountActiveStep
<1>4. ASSUME NEW c \in Calls, Create(c) PROVE LimitInv'
  BY <1>0, <1>4, CreateStep
<1>5. ASSUME NEW c \in Calls, Refuse(c) \/ NotWritten(c) PROVE LimitInv'
  <2>1. call' = [call EXCEPT ![c] = Idle] /\ UNCHANGED <<gone, endpoint, limit, highest, resumed>>
    BY <1>5 DEF Refuse, NotWritten
  <2>2. CreateTypes'
    BY <2>1 DEF CreateTypes, Does, TypeOK
  <2>3. \A t \in Nat : Behind(t)' \subseteq Behind(t)
    BY <2>1 DEF Behind, Does, TypeOK
  <2>4. Active' = Active /\ highest' >= highest
    BY <2>1 DEF Active, Stands, TypeOK
  <2> QED  BY <1>0, <2>1, <2>2, <2>3, <2>4, Narrower
<1>6. ASSUME NEW c \in Calls, Write(c) PROVE LimitInv'
  BY <1>0, <1>6, WriteStep
<1>7. ASSUME NEW p \in Projects, DeleteProject(p) PROVE LimitInv'
  <2>1. gone' = gone \cup {p} /\ UNCHANGED <<endpoint, limit, call, highest, resumed>>
    BY <1>7 DEF DeleteProject
  <2>2. CreateTypes' /\ \A t \in Nat : Behind(t)' = Behind(t)
    BY <2>1 DEF CreateTypes, Behind, Does
  <2>3. Active' \subseteq Active /\ highest' >= highest
    BY <2>1 DEF Active, Stands, TypeOK
  <2> QED  BY <1>0, <2>1, <2>2, <2>3, Narrower
<1>8. ASSUME ChangePlan PROVE LimitInv'
  <2>1. /\ limit' \in Limits /\ highest' >= highest /\ highest' >= limit'
        /\ UNCHANGED <<gone, endpoint, call, resumed>>
    BY <1>8 DEF ChangePlan, TypeOK
  <2>2. \A t \in Nat : Behind(t)' = Behind(t)
    BY <2>1 DEF Behind, Does
  <2>3. CreateTypes'
    BY <1>0, <2>1 DEF CreateTypes, Does, TypeOK
  <2>4. Active' = Active
    BY <2>1 DEF Active, Stands
  <2> QED  BY <1>0, <2>1, <2>2, <2>3, <2>4, Narrower
<1>9. ASSUME UNCHANGED apiVars PROVE LimitInv'
  <2>1. CreateTypes' /\ Active' = Active /\ \A t \in Nat : Behind(t)' = Behind(t)
    BY <1>9 DEF CreateTypes, Behind, Does, Active, Stands
  <2> QED  BY <1>0, <1>9, <2>1, Narrower DEF TypeOK
<1>10. ASSUME NEW d \in Deliveries, RouteStep(d) PROVE UNCHANGED apiVars
  BY <1>10 DEF RouteStep, Arrive, Lookup, Enqueue, Reject, LogVerificationFailure
<1> QED
  BY <1>1, <1>2, <1>3, <1>4, <1>5, <1>6, <1>7, <1>8, <1>9, <1>10 DEF Next, ApiStep, vars

\* However many requests run at once, in whatever order, over whatever plans: the
\* active endpoints outnumber the best plan the user had by less than the requests
\* and the resumed endpoints.
THEOREM LimitOverrun == Spec => []OverrunIsBounded
<1>1. Init => LimitInv
  <2> SUFFICES ASSUME Init PROVE LimitInv
    OBVIOUS
  <2>1. TypeOK
    BY DEF Init, TypeOK
  <2>2. CreateTypes /\ Active = {} /\ \A t \in Nat : Behind(t) = {}
    BY DEF Init, CreateTypes, Active, Stands, Behind, Does
  <2>3. limit \in Nat /\ highest = limit /\ resumed = 0
    BY EndpointsAssumption DEF Init
  <2> QED  BY <2>1, <2>2, <2>3, FS_EmptySet, CallsAreFinite DEF LimitInv, Room
<1>2. LimitInv => OverrunIsBounded
  <2> SUFFICES ASSUME LimitInv PROVE OverrunIsBounded
    OBVIOUS
  <2>1. highest \in Nat /\ resumed \in Nat
    BY EndpointsAssumption DEF LimitInv, TypeOK
  <2>2. Cardinality(Active) + Cardinality(Behind(highest)) <= Room(highest)
    BY <2>1 DEF LimitInv
  <2>3. Cardinality(Behind(highest)) \in Nat /\ Cardinality(Active) \in Nat
    BY CallsAreFinite, ActiveIsFinite DEF Behind, Active
  <2> QED  BY <2>1, <2>2, <2>3, CallsAreFinite DEF OverrunIsBounded, Room
<1> QED  BY <1>1, <1>2, LimitStep, PTL DEF Spec

-----------------------------------------------------------------------------
(* What a deletion and an update leave alone.                               *)

\* A deleted endpoint stays deleted, and a secret stays set.
LEMMA RowsStep ==
    ASSUME TypeOK, [Next]_vars, NEW e \in Ids, endpoint[e] # NoRow
    PROVE  /\ endpoint'[e] # NoRow
           /\ endpoint[e].deleted => endpoint'[e].deleted
           /\ endpoint[e].secret = "set" => endpoint'[e].secret = "set"
<1> USE DEF TypeOK
<1>1. CASE UNCHANGED endpoint
  BY <1>1
<1>2. ASSUME NEW c \in Calls, Create(c)
      PROVE  endpoint'[e] = endpoint[e]
  BY <1>2 DEF Create
<1>3. CASE \E c \in Calls : Write(c)
  <2>1. PICK c \in Calls : Write(c)
    BY <1>3
  <2>2. PICK f \in Ids : Stands(f) /\ \E row \in Written(endpoint[f], call[c].op) :
                                          endpoint' = [endpoint EXCEPT ![f] = row]
    BY <2>1 DEF Write, Matches
  <2>3. PICK row \in Written(endpoint[f], call[c].op) : endpoint' = [endpoint EXCEPT ![f] = row]
    BY <2>2
  <2>4. endpoint[f] \in Row /\ ~endpoint[f].deleted /\ call[c].op \in Changes
    BY <2>1, <2>2 DEF Stands, Write
  <2>5. row \in Row /\ (endpoint[f].secret = "set" => row.secret = "set")
    BY <2>4, WrittenRows
  <2> QED  BY <2>3, <2>4, <2>5, EndpointsAssumption
<1>4. ASSUME NEW c \in Calls, ApiStep(c)
      PROVE  UNCHANGED endpoint \/ Create(c) \/ Write(c)
  BY <1>4 DEF ApiStep, Begin, ReadPlan, CountActive, Refuse, NotWritten
<1>5. ASSUME (\E p \in Projects : DeleteProject(p)) \/ ChangePlan
             \/ (\E d \in Deliveries : RouteStep(d)) \/ UNCHANGED vars
      PROVE  UNCHANGED endpoint
  BY <1>5 DEF DeleteProject, ChangePlan, RouteStep, Arrive, Lookup, Enqueue, Reject,
              LogVerificationFailure, vars
<1> QED  BY <1>1, <1>2, <1>3, <1>4, <1>5 DEF Next

\* No update of the web application loses a signing secret, whatever else it writes
\* and however many run (endpoint-settings-form.tsx:117).
THEOREM SecretsAreKept == Spec => SecretIsKept
<1>1. TypeOK /\ [Next]_vars =>
          [\A e \in Ids : endpoint[e] # NoRow /\ endpoint[e].secret = "set"
                            => endpoint'[e].secret = "set"]_vars
  BY RowsStep
<1> QED  BY <1>1, EndpointTypes, PTL DEF Spec, SecretIsKept

\* What a route found of an endpoint that was deleted before the request came.
RequestOK(d) ==
    request[d] # Idle =>
        /\ request[d].id \in Ids /\ endpoint[request[d].id] # NoRow
        /\ request[d].wasDeleted => endpoint[request[d].id].deleted
        /\ request[d].wasDeleted => request[d].found = NoRow

SilenceInv ==
    /\ TypeOK
    /\ request = [d \in Deliveries |-> request[d]]
    /\ \A d \in Deliveries : RequestOK(d)
    /\ DeletedEndpointIsSilent

LEMMA SilenceStep ==
    ASSUME SilenceInv, [Next]_vars
    PROVE  SilenceInv'
<1> USE DEF SilenceInv
<1>0. TypeOK'
  BY TypesStep
<1>1. \A d \in Deliveries : request[d] # Idle =>
          /\ endpoint'[request[d].id] # NoRow
          /\ request[d].wasDeleted => endpoint'[request[d].id].deleted
  BY RowsStep DEF RequestOK
<1>2. ASSUME UNCHANGED routeVars PROVE SilenceInv'
  BY <1>0, <1>1, <1>2 DEF RequestOK, DeletedEndpointIsSilent
<1>3. ASSUME NEW d \in Deliveries, Arrive(d) PROVE SilenceInv'
  <2>1. PICK e \in Ids : /\ endpoint[e] # NoRow
                         /\ request' = [request EXCEPT ![d] =
                                [id |-> e, found |-> NoRow,
                                 wasDeleted |-> endpoint[e].deleted]]
    BY <1>3 DEF Arrive
  <2>2. UNCHANGED <<apiVars, failedEvent, job>>
    BY <1>3 DEF Arrive
  <2>3. \A f \in Deliveries : RequestOK(f)'
    BY <2>1, <2>2 DEF RequestOK
  <2> QED  BY <1>0, <2>1, <2>2, <2>3 DEF DeletedEndpointIsSilent
<1>4. ASSUME NEW d \in Deliveries, Lookup(d) PROVE SilenceInv'
  <2>1. UNCHANGED <<apiVars, failedEvent, job>> /\ Looking(d)
    BY <1>4 DEF Lookup
  <2>2. CASE FindEndpoint(request[d].id)
    <3>1. request' = [request EXCEPT ![d].found = endpoint[request[d].id]]
      BY <1>4, <2>2 DEF Lookup
    <3>2. ~request[d].wasDeleted
      BY <2>1, <2>2 DEF FindEndpoint, Stands, RequestOK, Looking
    <3>3. \A f \in Deliveries : RequestOK(f)'
      BY <2>1, <3>1, <3>2 DEF RequestOK, Looking
    <3> QED  BY <1>0, <2>1, <3>1, <3>3 DEF DeletedEndpointIsSilent
  <2>3. CASE ~FindEndpoint(request[d].id)
    <3>1. request' = [request EXCEPT ![d] = Idle]
      BY <1>4, <2>3 DEF Lookup, Finished
    <3> QED  BY <1>0, <2>1, <3>1 DEF DeletedEndpointIsSilent, RequestOK
  <2> QED  BY <2>2, <2>3
<1>5. ASSUME NEW d \in Deliveries, Enqueue(d) PROVE SilenceInv'
  <2>1. /\ request' = [request EXCEPT ![d] = Idle]
        /\ UNCHANGED <<apiVars, failedEvent>>
    BY <1>5 DEF Enqueue, Finished
  <2>2. ~request[d].wasDeleted
    BY <1>5 DEF Enqueue, Found, RequestOK
  <2>3. DeletedEndpointIsSilent'
    BY <1>5, <2>2 DEF Enqueue, DeletedEndpointIsSilent
  <2> QED  BY <1>0, <2>1, <2>3 DEF RequestOK
<1>6. ASSUME NEW d \in Deliveries, Reject(d) \/ LogVerificationFailure(d)
      PROVE  SilenceInv'
  <2>1. request' = [request EXCEPT ![d] = Idle] /\ UNCHANGED <<apiVars, job>>
    BY <1>6 DEF Reject, LogVerificationFailure, Finished
  <2> QED  BY <1>0, <2>1 DEF RequestOK, DeletedEndpointIsSilent
<1>7. ASSUME (\E c \in Calls : ApiStep(c)) \/ (\E p \in Projects : DeleteProject(p))
             \/ ChangePlan \/ UNCHANGED vars
      PROVE  UNCHANGED routeVars
  BY <1>7 DEF ApiStep, Begin, ReadPlan, CountActive, Create, Refuse, Write, NotWritten,
              DeleteProject, ChangePlan, vars
<1> QED  BY <1>2, <1>3, <1>4, <1>5, <1>6, <1>7 DEF Next, RouteStep

\* No webhook is queued for an endpoint that was deleted before it came, for any
\* number of requests of the API and of the providers.
THEOREM DeletedEndpointsAreSilent == Spec => []DeletedEndpointIsSilent
<1>1. Init => SilenceInv
  BY DEF Init, SilenceInv, TypeOK, RequestOK, DeletedEndpointIsSilent
<1>2. SilenceInv => DeletedEndpointIsSilent
  BY DEF SilenceInv
<1> QED  BY <1>1, <1>2, SilenceStep, PTL DEF Spec

=============================================================================
