------------------------ MODULE ShardTopologyProofs -------------------------
(***************************************************************************)
(* No Shard is forgotten: the RootShard always catches up with the Shards  *)
(* there are, and while Shards are only added so does everybody else, for  *)
(* every number of Shards, events and failures.                            *)
(***************************************************************************)
EXTENDS ShardTopology, TLAPS

Steps == {"idle", "list", "publish", "statusList", "status"}

\* What a step of one pass can do to the control state and the lists.
LEMMA ControlType ==
  ASSUME Types
  PROVE  /\ Root \in Controllers /\ Proxy \in Controllers /\ Root # Proxy
         /\ Shards \subseteq Controllers /\ Present \subseteq Controllers
         /\ \A c \in Controllers : c # Root => AfterPublish(c) = "idle"
         /\ \A c \in Controllers : AfterPublish(c) \in Steps
         /\ AfterPublish(Root) = "statusList"
  BY DEF Types, Controllers, Root, Proxy, Present, AfterPublish, Steps

\* Every step keeps the types.
LEMMA TypesStep ==
  ASSUME Types, [Next]_vars
  PROVE  Types'
  <1> USE BoundAssumption, ControlType DEF Types, Steps
  <1>1. CASE UNCHANGED vars BY <1>1 DEF vars
  <1>2. ASSUME NEW s \in Shards, Create(s) \/ Delete(s) PROVE Types'
    BY <1>2 DEF Create, Delete, Bounds
  <1>7. ASSUME NEW s \in Shards, Finalize(s) PROVE Types'
    <2>1. NoInput \in [exists : BOOLEAN, shards : SUBSET Shards] BY DEF NoInput
    <2>2. input' \in [Controllers -> [exists : BOOLEAN, shards : SUBSET Shards]]
      BY <1>7, <2>1 DEF Finalize
    <2>3. shards' \in SUBSET Shards /\ deleting' \in SUBSET shards' /\ queue' \in SUBSET Controllers
      BY <1>7 DEF Finalize
    <2> QED BY <1>7, <2>2, <2>3 DEF Finalize, Bounds
  <1>3. ASSUME NEW c \in Controllers, Wake(c) \/ Begin(c) \/ Skip(c) \/ List(c) PROVE Types'
    BY <1>3 DEF Wake, Begin, Skip, List, Step, Bounds
  <1>4. ASSUME NEW c \in Controllers, Publish(c) PROVE Types'
    <2>1. [exists |-> TRUE, shards |-> listed[c]] \in [exists : BOOLEAN, shards : SUBSET Shards]
      OBVIOUS
    <2>2. input' \in [Controllers -> [exists : BOOLEAN, shards : SUBSET Shards]]
      BY <1>4, <2>1 DEF Publish
    <2>3. queue' \in SUBSET Controllers BY <1>4 DEF Publish
    <2> QED BY <1>4, <2>2, <2>3 DEF Publish, Step, Forget, Bounds
  <1>5. ASSUME NEW c \in Controllers, ListFails(c) \/ PublishFails(c) PROVE Types'
    <2>1. CASE ListFails(c) BY <2>1 DEF ListFails, Step, Forget
    <2>2. CASE PublishFails(c)
      <3>1. pc' \in [Controllers -> Steps] /\ listed' \in [Controllers -> SUBSET Shards]
        BY <2>2 DEF PublishFails, Step, Forget
      <3> QED BY <2>2, <3>1 DEF PublishFails
    <2> QED BY <1>5, <2>1, <2>2
  <1>6. CASE StatusList \/ PatchStatus \/ StatusFails
    BY <1>6 DEF StatusList, PatchStatus, StatusFails, Step, Forget, Bounds
  <1> QED BY <1>1, <1>2, <1>3, <1>4, <1>5, <1>6, <1>7 DEF Next, ShardWorker, RootWorker, Pass

\* A step of another object's pass leaves the RootShard's alone.
LEMMA OthersKeepRoot ==
  ASSUME RootInv, Types', NEW c \in Controllers, c # Root,
         Pass(c) \/ ListFails(c) \/ PublishFails(c)
  PROVE  RootInv'
  <1>1. /\ pc'[Root] = pc[Root] /\ listed'[Root] = listed[Root] /\ input'[Root] = input[Root]
        /\ (Root \in queue' <=> Root \in queue)
        /\ UNCHANGED <<shards, status>>
    BY ControlType DEF RootInv, Types, Pass, Begin, Skip, List, Publish, ListFails, PublishFails,
       Step, Forget, Bounds
  <1> QED BY <1>1 DEF RootInv, RootCurrent, Current

\* No creation or deletion of a Shard is lost on the RootShard: its status and
\* its CompiledRootShard catch up, whatever lands between the two lists of one
\* pass and whichever calls fail.
LEMMA RootInvStep ==
  ASSUME RootInv, [Next]_vars
  PROVE  RootInv'
  <1>1. Types' BY TypesStep DEF RootInv
  <1> USE <1>1, ControlType DEF RootInv, RootCurrent, Current
  <1>2. CASE UNCHANGED vars BY <1>2 DEF vars
  <1>3. ASSUME NEW s \in Shards, Create(s) \/ Delete(s) \/ Finalize(s) PROVE RootInv'
    <2>1. Root \in queue' BY <1>3 DEF Create, Delete, Finalize
    <2> QED BY <2>1
  <1>4. ASSUME NEW c \in Controllers, Wake(c) PROVE RootInv'
    BY <1>4 DEF Wake
  <1>5. CASE Begin(Root)
    <2>1. pc'[Root] = "list" BY <1>5 DEF Begin, Step, Types
    <2> QED BY <2>1
  <1>6. CASE Skip(Root) BY <1>6 DEF Skip, Present
  <1>7. CASE List(Root)
    <2>1. pc'[Root] = "publish" /\ listed'[Root] = shards /\ UNCHANGED shards
      BY <1>7 DEF List, Step, Types
    <2> QED BY <2>1
  <1>8. CASE Publish(Root)
    <2> DEFINE new == [exists |-> TRUE, shards |-> listed[Root]]
    <2>1. /\ pc[Root] = "publish" /\ pc'[Root] = "statusList" /\ UNCHANGED <<shards, status>>
          /\ input'[Root] = new
          /\ queue' = IF new = input[Root] THEN queue ELSE queue \cup {Root}
      BY <1>8 DEF Publish, Step, Types
    <2>2. Root \notin queue' => Root \notin queue BY <2>1
    <2> QED BY <2>1, <2>2
  <1>9. CASE ListFails(Root) \/ PublishFails(Root)
    <2>1. Root \in queue' BY <1>9 DEF ListFails, PublishFails
    <2> QED BY <2>1
  <1>10. CASE StatusList
    <2>1. /\ pc[Root] = "statusList" /\ pc'[Root] = "status" /\ listed'[Root] = shards
          /\ UNCHANGED <<shards, input, queue>>
      BY <1>10 DEF StatusList, Step, Types
    <2> QED BY <2>1
  <1>11. CASE PatchStatus
    <2>1. /\ pc[Root] = "status" /\ pc'[Root] = "idle" /\ status' = listed[Root]
          /\ (Root \notin queue' => Root \notin queue) /\ UNCHANGED <<shards, input>>
      BY <1>11 DEF PatchStatus, Step, Types
    <2> QED BY <2>1
  <1>12. CASE StatusFails
    <2>1. Root \in queue' BY <1>12 DEF StatusFails
    <2> QED BY <2>1
  <1>13. CASE Pass(Root) BY <1>13, <1>5, <1>6, <1>7, <1>8 DEF Pass
  <1>14. \A s \in Shards : s # Root BY ShardAssumption
  <1>15. CASE \E s \in Shards : Create(s) \/ Delete(s) BY <1>15, <1>3
  <1>16. CASE \E c \in Controllers : Wake(c) \/ ListFails(c) \/ PublishFails(c)
    BY <1>16, <1>4, <1>9, OthersKeepRoot
  <1>17. CASE ShardWorker BY <1>17, <1>3, <1>14, OthersKeepRoot DEF ShardWorker
  <1>18. CASE RootWorker BY <1>18, <1>10, <1>11, <1>13 DEF RootWorker
  <1>19. CASE Pass(Proxy) BY <1>19, OthersKeepRoot
  <1> QED BY <1>2, <1>12, <1>15, <1>16, <1>17, <1>18, <1>19 DEF Next

\* A reconciled RootShard without Shards names none.
LEMMA RootInvInit == Init => RootInv
  <1> SUFFICES ASSUME Init PROVE RootInv OBVIOUS
  <1>1. Root \in Controllers /\ Root \notin Shards BY ShardAssumption DEF Controllers
  <1>2. \A c \in Controllers : input[c] = [exists |-> c \notin Shards, shards |-> {}]
    BY DEF Init
  <1>3. input \in [Controllers -> [exists : BOOLEAN, shards : SUBSET Shards]]
    <2>1. \A c \in Controllers :
            [exists |-> c \notin Shards, shards |-> {}] \in [exists : BOOLEAN, shards : SUBSET Shards]
      BY ZenonT(20)
    <2> QED BY <2>1 DEF Init
  <1>4. Types BY <1>3, BoundAssumption DEF Init, Types
  <1>5. input[Root] = [exists |-> TRUE, shards |-> {}] BY <1>1, <1>2
  <1> QED BY <1>1, <1>4, <1>5 DEF Init, RootInv, RootCurrent, Current

\* The RootShard catches up with every creation and deletion of a Shard
\* (rootshard/controller.go:161-273, 276-325).
THEOREM RootCatchesUp == Spec => []RootCurrent
<1>1. RootInv /\ [Next]_vars => RootInv' BY RootInvStep
<1>2. RootInv => RootCurrent BY DEF RootInv
<1> QED BY <1>1, <1>2, RootInvInit, PTL DEF Spec

-----------------------------------------------------------------------------
(* While Shards are only added, everybody catches up.                      *)

\* A step that leaves Shards and status alone and takes no request away but
\* that of a pass which starts keeps those informed who were.
LEMMA PassKeepsGrowth ==
  ASSUME RootInv, OnlyGrown, NEW c \in Controllers, c # Root,
         Pass(c) \/ ListFails(c) \/ PublishFails(c)
  PROVE  OnlyGrown'
  <1> USE ControlType DEF OnlyGrown, RootInv
  <1>1. UNCHANGED <<shards, status, deleting>>
    BY DEF Pass, Begin, Skip, List, Publish, ListFails, PublishFails
  <1>2. \A d \in Controllers \ {c} :
          /\ pc'[d] = pc[d] /\ listed'[d] = listed[d] /\ input'[d] = input[d]
          /\ (d \in queue' <=> d \in queue)
    BY DEF Types, Pass, Begin, Skip, List, Publish, ListFails, PublishFails, Step, Forget
  <1>3. listed'[c] \subseteq shards
    BY DEF Types, Pass, Begin, Skip, List, Publish, ListFails, PublishFails, Step, Forget
  <1>4. pc'[c] \in {"idle", "list", "publish"}
    BY DEF Types, Pass, Begin, Skip, List, Publish, ListFails, PublishFails, Step
  <1>5. c \in Present /\ c \notin queue' /\ status = shards => Informed(c)'
    <2>1. CASE Begin(c) BY <2>1 DEF Begin, Step, Types, Informed
    <2>2. CASE Skip(c) BY <2>2 DEF Skip
    <2>3. CASE List(c) BY <2>3 DEF List, Step, Types, Informed
    <2>4. CASE Publish(c)
      <3> DEFINE new == [exists |-> TRUE, shards |-> listed[c]]
      <3>1. /\ pc[c] = "publish" /\ pc'[c] = "idle" /\ input'[c] = new
            /\ queue' = IF new = input[c] THEN queue ELSE queue \cup {c}
        BY <2>4 DEF Publish, Step, Types
      <3> QED BY <1>1, <3>1 DEF Informed, Current
    <2>5. CASE ListFails(c) \/ PublishFails(c) BY <2>5 DEF ListFails, PublishFails
    <2> QED BY <2>1, <2>2, <2>3, <2>4, <2>5 DEF Pass
  <1>6. \A d \in Present \ {Root} : d \notin queue' /\ status = shards => Informed(d)'
    <2> SUFFICES ASSUME NEW d \in Present \ {Root}, d \notin queue', status = shards, d # c
                 PROVE  Informed(d)'
      BY <1>5
    <2> QED BY <1>1, <1>2 DEF Informed, Current
  <1> QED BY <1>1, <1>2, <1>3, <1>4, <1>6 DEF Informed, Present

\* A step of the RootShard's pass either leaves the status alone or wakes everybody.
LEMMA RootKeepsGrowth ==
  ASSUME RootInv, OnlyGrown,
         Pass(Root) \/ ListFails(Root) \/ PublishFails(Root) \/ StatusList \/ PatchStatus
         \/ StatusFails
  PROVE  OnlyGrown'
  <1> USE ControlType DEF OnlyGrown, RootInv
  <1> USE DEF Pass, Begin, Skip, List, Publish, ListFails, PublishFails, StatusList, PatchStatus,
          StatusFails, Step, Forget
  <1>1. UNCHANGED <<shards, deleting>> OBVIOUS
  <1>2. \A d \in Controllers \ {Root} :
          pc'[d] = pc[d] /\ listed'[d] = listed[d] /\ input'[d] = input[d]
    BY DEF Types
  <1>3. listed'[Root] \subseteq shards BY DEF Types
  <1>4. status' \subseteq shards OBVIOUS
  <1>5. \A d \in Present \ {Root} : d \notin queue' => d \notin queue /\ status' = status
    <2>1. queue \ {Root} \subseteq queue' OBVIOUS
    <2>2. status' = status \/ Present \subseteq queue' OBVIOUS
    <2> QED BY <2>1, <2>2
  <1>6. \A d \in Present \ {Root} : d \notin queue' /\ status' = shards => Informed(d)'
    <2> SUFFICES ASSUME NEW d \in Present \ {Root}, d \notin queue', status' = shards
                 PROVE  Informed(d)'
      OBVIOUS
    <2>1. Informed(d) BY <1>5
    <2>2. pc'[d] = pc[d] /\ listed'[d] = listed[d] /\ input'[d] = input[d] BY <1>2
    <2> QED BY <1>1, <2>1, <2>2 DEF Informed, Current
  <1> QED BY <1>1, <1>2, <1>3, <1>4, <1>6 DEF Informed, Present

\* Until a Shard is deleted, every step keeps everybody informed or woken.
LEMMA GrowthStep ==
  ASSUME GrowthInv, [Next]_vars
  PROVE  GrowthInv'
  <1>1. RootInv' BY RootInvStep DEF GrowthInv
  <1>2. RootInv /\ Types /\ deletes \in Nat BY BoundAssumption DEF GrowthInv, RootInv, Types
  <1>3. ASSUME NEW s \in Shards, Delete(s) PROVE deletes' # 0
    BY <1>2, <1>3 DEF Delete
  <1>4. (\A s \in Shards : ~Delete(s)) => deletes' = deletes
    BY DEF Next, vars, Create, Wake, ListFails, PublishFails, ShardWorker, RootWorker, Pass,
           Finalize, Begin, Skip, List, Publish, StatusList, PatchStatus, StatusFails, Bounds
  <1> SUFFICES ASSUME deletes' = 0 PROVE OnlyGrown'
    BY <1>1 DEF GrowthInv
  <1>5. OnlyGrown /\ \A s \in Shards : ~Delete(s) BY <1>3, <1>4 DEF GrowthInv
  <1>6. CASE UNCHANGED vars BY <1>5, <1>6 DEF vars, OnlyGrown, Informed, Current, Present
  <1>7. ASSUME NEW s \in Shards, Create(s) PROVE OnlyGrown'
    <2>1. /\ shards' = shards \cup {s} /\ s \notin shards
          /\ UNCHANGED <<status, deleting, listed, pc>>
      BY <1>7 DEF Create
    <2>2. status' # shards' BY <1>5, <2>1 DEF OnlyGrown
    <2> QED BY <1>5, <2>1, <2>2 DEF OnlyGrown
  <1>8. ASSUME NEW s \in Shards PROVE ~Finalize(s)
    BY <1>5 DEF Finalize, OnlyGrown
  <1>9. ASSUME NEW c \in Controllers, Wake(c) PROVE OnlyGrown'
    BY <1>5, <1>9 DEF Wake, OnlyGrown, Informed, Current, Present
  <1>10. \A s \in Shards : s # Root /\ s \in Controllers
    BY ShardAssumption, <1>2, ControlType
  <1>11. Proxy # Root /\ Proxy \in Controllers BY <1>2, ControlType
  <1> QED BY <1>2, <1>5, <1>6, <1>7, <1>8, <1>9, <1>10, <1>11, PassKeepsGrowth, RootKeepsGrowth
         DEF Next, ShardWorker, RootWorker

\* Until a Shard is deleted, nobody is left with an old list once there is
\* nothing to do (rootshard/controller.go:317).
THEOREM GrowthReachesEveryone == Spec => []GrowthCurrent
<1>1. Init => GrowthInv
  <2> SUFFICES ASSUME Init PROVE GrowthInv OBVIOUS
  <2>1. RootInv BY RootInvInit
  <2>2. \A c \in Controllers : listed[c] = {} /\ pc[c] = "idle" BY DEF Init
  <2>3. Present = {Root, Proxy} BY DEF Init, Present
  <2>4. \A c \in {Root, Proxy} : input[c] = [exists |-> TRUE, shards |-> {}]
    BY ShardAssumption DEF Init, Controllers
  <2>5. \A c \in Present : Current(c) /\ pc[c] = "idle"
    BY <2>2, <2>3, <2>4 DEF Init, Current, Controllers
  <2>6. deleting = {} /\ status = {} /\ shards = {} BY DEF Init
  <2> QED BY <2>1, <2>2, <2>5, <2>6 DEF GrowthInv, OnlyGrown, Informed
<1>2. GrowthInv /\ [Next]_vars => GrowthInv' BY GrowthStep
<1>3. GrowthInv => GrowthCurrent
  <2> SUFFICES ASSUME GrowthInv, deletes = 0, AllIdle, NEW c \in Present \ deleting
               PROVE  Current(c)
    BY DEF GrowthCurrent, EveryoneCurrent
  <2>1. Root \in Controllers /\ c \in Controllers
    BY ControlType DEF GrowthInv, RootInv
  <2>2. status = shards /\ Current(Root) BY <2>1 DEF GrowthInv, RootInv, RootCurrent, AllIdle
  <2> QED BY <2>1, <2>2 DEF GrowthInv, OnlyGrown, Informed, AllIdle
<1> QED BY <1>1, <1>2, <1>3, PTL DEF Spec

=============================================================================
