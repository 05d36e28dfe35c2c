--------------------------- MODULE TimelockProofs ---------------------------
(***************************************************************************)
(* Proofs about the timelock, for any people, buffers, instructions,       *)
(* delays and sizes of an account record.                                  *)
(***************************************************************************)
EXTENDS Timelock, TLAPS

BufferType == [exec : Executors \cup {"none"}, op : Ops \cup {NoBuffer.op},
               approvedAt : Nat, approver : People \cup {Nobody},
               rent : People \cup {Nobody}]

(* The time an approved buffer was on display is the time since its        *)
(* approval, and a buffer that does not exist is blank.                    *)
AgeOK == \A b \in Buffers :
            /\ Approved(b) => buf[b].approvedAt + age[b] = now
            /\ ~Approved(b) => age[b] = 0
            /\ buf[b].exec = "none" => buf[b] = NoBuffer

Inv == TypeOK /\ AgeOK

USE DEF Op

(* An instruction of the store changes the store only, within its type.    *)
LEMMA InvokeType ==
    ASSUME TypeOK, NEW p \in Principals, NEW o \in Ops, Invoke(p, o)
    PROVE  /\ authority' \in Principals /\ nextAuthority' \in Principals
           /\ roles' \subseteq Principals \X Roles
           /\ provider' \in Providers
           /\ restarted' \in BOOLEAN
<1> USE OpsAssumption DEF TypeOK
<1>1. CASE GrantRole(p, o)
  BY <1>1 DEF GrantRole
<1>2. CASE RevokeRole(p, o)
  BY <1>2 DEF RevokeRole
<1>3. CASE TransferStoreAuthority(p, o)
  BY <1>3 DEF TransferStoreAuthority
<1>4. CASE AcceptStoreAuthority(p)
  BY <1>4 DEF AcceptStoreAuthority
<1>5. CASE SetExpectedProvider(p, o)
  BY <1>5 DEF SetExpectedProvider
<1>6. CASE UpdateLastRestartedSlot(p)
  BY <1>6 DEF UpdateLastRestartedSlot
<1> QED BY <1>1, <1>2, <1>3, <1>4, <1>5, <1>6 DEF Invoke

(* A blank buffer is well typed and not approved.                          *)
LEMMA NoBufferType == NoBuffer \in BufferType /\ NoBuffer.approver = Nobody
BY DEF NoBuffer, BufferType

(* Closing buffers keeps the buffers well typed and the display exact.     *)
LEMMA CloseKeeps ==
    ASSUME Inv, NEW B \in SUBSET Buffers, CloseBuffers(B), now' = now
    PROVE  /\ buf' \in [Buffers -> BufferType]
           /\ age' \in [Buffers -> Nat]
           /\ AgeOK'
<1>1. buf \in [Buffers -> BufferType] /\ age \in [Buffers -> Nat]
  BY DEF Inv, TypeOK, BufferType
<1>2. /\ buf' \in [Buffers -> BufferType]
      /\ age' \in [Buffers -> Nat]
  BY <1>1, NoBufferType DEF CloseBuffers
<1>3. ASSUME NEW b \in Buffers
      PROVE  /\ Approved(b)' => buf'[b].approvedAt + age'[b] = now'
             /\ ~Approved(b)' => age'[b] = 0
             /\ buf'[b].exec = "none" => buf'[b] = NoBuffer
  <2>1. CASE b \in B
    <3>1. buf'[b] = NoBuffer /\ age'[b] = 0
      BY <2>1 DEF CloseBuffers
    <3> QED BY <3>1, NoBufferType DEF Approved
  <2>2. CASE b \notin B
    <3>1. buf'[b] = buf[b] /\ age'[b] = age[b]
      BY <2>2 DEF CloseBuffers
    <3> QED BY <3>1 DEF Approved, Inv, AgeOK
  <2> QED BY <2>1, <2>2
<1> QED BY <1>2, <1>3 DEF AgeOK

(* The invariant holds initially.                                          *)
LEMMA InvInit == Init => Inv
<1> SUFFICES ASSUME Init PROVE Inv
  OBVIOUS
<1>1. TypeOK
  <2>1. buf \in [Buffers -> BufferType] /\ age \in [Buffers -> Nat]
    BY NoBufferType DEF Init
  <2>2. 0 \in 0..MaxDelay /\ 0 \in 0..MaxTime
    BY NumbersAssumption
  <2>3. /\ authority \in Principals /\ nextAuthority \in Principals
        /\ roles \subseteq Principals \X Roles
    BY PeopleAssumption, BaseRolesAssumption DEF Init, Principals
  <2> QED BY <2>1, <2>2, <2>3 DEF Init, TypeOK, BufferType
<1>2. AgeOK
  BY NoBufferType DEF Init, AgeOK, Approved
<1> QED BY <1>1, <1>2 DEF Inv

(* Every step keeps the invariant.                                         *)
LEMMA InvStep == Inv /\ [Next]_vars => Inv'
<1> SUFFICES ASSUME Inv, [Next]_vars PROVE Inv'
  OBVIOUS
<1> USE DEF Inv
<1>0. /\ buf \in [Buffers -> BufferType] /\ age \in [Buffers -> Nat]
      /\ People \subseteq Principals /\ Executors \subseteq Principals
      /\ now \in Nat /\ MaxTime \in Nat /\ MaxDelay \in Nat
  BY NumbersAssumption DEF TypeOK, BufferType, Principals
<1>1. ASSUME NEW p \in People, NEW o \in Ops, StoreCall(p, o) PROVE Inv'
  <2>1. TypeOK'
    BY <1>0, <1>1, InvokeType DEF StoreCall, timelock, TypeOK
  <2>2. AgeOK'
    BY <1>1 DEF StoreCall, timelock, AgeOK, Approved
  <2> QED BY <2>1, <2>2
<1>2. ASSUME ClusterRestart PROVE Inv'
  BY <1>2 DEF ClusterRestart, timelock, TypeOK, AgeOK, Approved
<1>3. ASSUME NEW e \in Executors, InitializeExecutor(e) PROVE Inv'
  BY <1>3 DEF InitializeExecutor, store, TypeOK, AgeOK, Approved
<1>4. ASSUME NEW p \in People, NEW d \in 0..MaxDelay, InitializeConfig(p, d)
      PROVE  Inv'
  <2>1. /\ authority' \in Principals /\ nextAuthority' = nextAuthority
        /\ roles' = roles /\ provider' = provider /\ restarted' = restarted
    BY <1>4 DEF InitializeConfig, AcceptStoreAuthority, store, TypeOK
  <2>2. TypeOK'
    BY <1>4, <2>1 DEF InitializeConfig, TypeOK
  <2>3. AgeOK'
    BY <1>4 DEF InitializeConfig, AgeOK, Approved
  <2> QED BY <2>2, <2>3
<1>5. ASSUME NEW p \in People, NEW d \in 0..MaxDelay, IncreaseDelay(p, d)
      PROVE  Inv'
  <2>1. delay' \in 0..MaxDelay
    BY <1>0, <1>5 DEF IncreaseDelay, TypeOK
  <2>2. TypeOK'
    BY <1>5, <2>1 DEF IncreaseDelay, store, TypeOK
  <2>3. AgeOK'
    BY <1>5 DEF IncreaseDelay, AgeOK, Approved
  <2> QED BY <2>2, <2>3
<1>6. ASSUME NEW p \in People, NEW b \in Buffers, NEW e \in Executors,
             NEW o \in Ops, CreateInstructionBuffer(p, b, e, o)
      PROVE  Inv'
  <2> DEFINE n == [NoBuffer EXCEPT !.exec = e, !.op = o, !.rent = p]
  <2>1. /\ n \in BufferType /\ n.approver = Nobody /\ n.exec = e
        /\ e # "none"
    BY DEF NoBuffer, BufferType, Executors
  <2>2. buf' = [buf EXCEPT ![b] = n]
    BY <1>6 DEF CreateInstructionBuffer
  <2> HIDE DEF n
  <2>3. buf' \in [Buffers -> BufferType]
    BY <1>0, <2>1, <2>2
  <2>4. age[b] = 0
    BY <1>6, NoBufferType DEF CreateInstructionBuffer, AgeOK, Approved
  <2>5. TypeOK'
    BY <1>6, <2>3 DEF CreateInstructionBuffer, store, TypeOK, BufferType
  <2>6. AgeOK'
    BY <1>0, <1>6, <2>1, <2>2, <2>4
    DEF CreateInstructionBuffer, AgeOK, Approved
  <2> QED BY <2>5, <2>6
<1>7. ASSUME NEW p \in People, NEW e \in Executors, NEW B \in SUBSET Buffers,
             ApproveInstructions(p, e, B)
      PROVE  Inv'
  <2>1. ASSUME NEW b \in B
        PROVE  /\ buf'[b] \in BufferType
               /\ buf'[b].approver = p /\ buf'[b].approvedAt = now
               /\ buf'[b].exec = e /\ age[b] = 0
    <3>1. buf'[b] = [buf[b] EXCEPT !.approvedAt = now, !.approver = p]
      BY <1>7 DEF ApproveInstructions
    <3>2. buf[b] \in BufferType /\ buf[b].exec = e
      BY <1>0, <1>7 DEF ApproveInstructions
    <3>3. age[b] = 0
      BY <1>7 DEF ApproveInstructions, AgeOK
    <3> QED BY <1>0, <3>1, <3>2, <3>3 DEF BufferType
  <2>2. ASSUME NEW b \in Buffers \ B PROVE buf'[b] = buf[b]
    BY <1>7 DEF ApproveInstructions
  <2>3. buf' \in [Buffers -> BufferType]
    BY <1>0, <1>7, <2>1, <2>2 DEF ApproveInstructions
  <2>4. TypeOK'
    BY <1>7, <2>3 DEF ApproveInstructions, store, TypeOK, BufferType
  <2>5. age' = age /\ now' = now /\ e # "none" /\ p # Nobody
    BY <1>7, PeopleAssumption
    DEF ApproveInstructions, Executors, Principals
  <2>6. AgeOK'
    BY <1>0, <2>1, <2>2, <2>5 DEF AgeOK, Approved
  <2> QED BY <2>4, <2>6
<1>8. ASSUME NEW p \in People, NEW r \in People, NEW e \in Executors,
             NEW B \in SUBSET Buffers, CancelInstructions(p, e, r, B)
      PROVE  Inv'
  <2>1. CloseBuffers(B) /\ now' = now
    BY <1>8 DEF CancelInstructions
  <2>2. /\ buf' \in [Buffers -> BufferType] /\ age' \in [Buffers -> Nat]
        /\ AgeOK'
    BY <2>1, CloseKeeps
  <2>3. TypeOK'
    BY <1>8, <2>2 DEF CancelInstructions, store, TypeOK, BufferType
  <2> QED BY <2>2, <2>3
<1>9. ASSUME NEW p \in People, NEW b \in Buffers, ExecuteInstruction(p, b)
      PROVE  Inv'
  <2>1. CloseBuffers({b}) /\ now' = now
    BY <1>9 DEF ExecuteInstruction
  <2>2. /\ buf' \in [Buffers -> BufferType] /\ age' \in [Buffers -> Nat]
        /\ AgeOK'
    BY <2>1, CloseKeeps
  <2>3. /\ buf[b].exec \in Principals /\ buf[b].op \in Ops
        /\ Invoke(buf[b].exec, buf[b].op)
    <3>1. buf[b] \in BufferType /\ buf[b].exec # "none"
      BY <1>0, <1>9 DEF ExecuteInstruction
    <3>2. Invoke(buf[b].exec, buf[b].op)
      BY <1>9 DEF ExecuteInstruction
    <3>3. buf[b].op # NoBuffer.op
      BY <3>2 DEF Invoke, NoBuffer, GrantRole, RevokeRole,
                  TransferStoreAuthority, SetExpectedProvider
    <3> QED BY <1>0, <3>1, <3>2, <3>3 DEF BufferType
  <2>4. TypeOK'
    BY <1>9, <2>2, <2>3, InvokeType DEF ExecuteInstruction, TypeOK, BufferType
  <2> QED BY <2>2, <2>4
<1>10. ASSUME NEW p \in People, NEW o \in Ops, BypassRevokeRole(p, o)
       PROVE  Inv'
  <2>1. Invoke("ADMIN", o) /\ "ADMIN" \in Principals
    BY <1>0, <1>10 DEF BypassRevokeRole, Invoke, Executors
  <2>2. TypeOK'
    BY <1>10, <2>1, InvokeType DEF BypassRevokeRole, timelock, TypeOK
  <2>3. AgeOK'
    BY <1>10 DEF BypassRevokeRole, timelock, AgeOK, Approved
  <2> QED BY <2>2, <2>3
<1>11. ASSUME NEW p \in People, NEW o \in Ops,
              BypassSetExpectedPriceProvider(p, o)
       PROVE  Inv'
  <2>1. Invoke("MARKET_KEEPER", o) /\ "MARKET_KEEPER" \in Principals
    BY <1>0, <1>11 DEF BypassSetExpectedPriceProvider, Invoke, Executors
  <2>2. TypeOK'
    BY <1>11, <2>1, InvokeType
    DEF BypassSetExpectedPriceProvider, timelock, TypeOK
  <2>3. AgeOK'
    BY <1>11 DEF BypassSetExpectedPriceProvider, timelock, AgeOK, Approved
  <2> QED BY <2>2, <2>3
<1>12. ASSUME Tick PROVE Inv'
  <2>1. age' \in [Buffers -> Nat] /\ now' \in 0..MaxTime
    BY <1>0, <1>12 DEF Tick, TypeOK
  <2>2. TypeOK'
    BY <1>12, <2>1 DEF Tick, store, TypeOK
  <2>3. ASSUME NEW b \in Buffers
        PROVE  /\ Approved(b)' => buf'[b].approvedAt + age'[b] = now'
               /\ ~Approved(b)' => age'[b] = 0
               /\ buf'[b].exec = "none" => buf'[b] = NoBuffer
    <3>1. buf' = buf /\ age'[b] = (IF Approved(b) THEN age[b] + 1 ELSE 0)
      BY <1>12 DEF Tick
    <3>2. buf[b].approvedAt \in Nat /\ age[b] \in Nat
      BY <1>0 DEF BufferType
    <3>3. now' = now + 1
      BY <1>12 DEF Tick
    <3> QED BY <1>0, <3>1, <3>2, <3>3 DEF AgeOK, Approved
  <2> QED BY <2>2, <2>3 DEF AgeOK
<1>13. CASE UNCHANGED vars
  BY <1>13 DEF vars, store, timelock, TypeOK, AgeOK, Approved
<1> QED
  BY <1>1, <1>2, <1>3, <1>4, <1>5, <1>6, <1>7, <1>8, <1>9, <1>10, <1>11,
     <1>12, <1>13 DEF Next

(* The store and the timelock keep their types; in particular the delay    *)
(* stays within a u32 (TimelockConfig::increase_delay).                    *)
THEOREM TypeCorrect == Spec => []TypeOK
<1>1. Spec => []Inv
  BY InvInit, InvStep, PTL DEF Spec
<1> QED BY <1>1, PTL DEF Inv

-----------------------------------------------------------------------------
(* Under the ADMIN wallet no person is an administrator, and of the        *)
(* executors only ADMIN is.                                                *)
LEMMA OnlyTheWallet ==
    ASSUME Governed, NEW p \in Principals, HasAdminRole(p)
    PROVE  p = "ADMIN"
BY DEF Governed, HasAdminRole

(* What an instruction of the store may do to roles and to the authority,  *)
(* and who must have signed it.                                            *)
LEMMA InvokeEffect ==
    ASSUME NEW p \in Principals, NEW o \in Ops, Governed, Invoke(p, o)
    PROVE  /\ \A g \in roles' \ roles : p = "ADMIN" /\ o = Grant(g)
           /\ \A g \in roles \ roles' : p = "ADMIN" /\ o = Revoke(g)
           /\ nextAuthority' # nextAuthority =>
                 /\ p = "ADMIN" /\ o.kind = "transfer"
                 /\ o.who = nextAuthority'
<1>0. o = Op(o.kind, o.who, o.role)
  BY OpsAssumption
<1>1. CASE GrantRole(p, o)
  <2>1. p = "ADMIN"
    BY <1>1, OnlyTheWallet DEF GrantRole
  <2>2. \A g \in roles' \ roles : o = Grant(g)
    BY <1>0, <1>1 DEF GrantRole, Grant
  <2> QED BY <1>1, <2>1, <2>2 DEF GrantRole
<1>2. CASE RevokeRole(p, o)
  <2>1. p = "ADMIN"
    BY <1>2, OnlyTheWallet DEF RevokeRole
  <2>2. \A g \in roles \ roles' : o = Revoke(g)
    BY <1>0, <1>2 DEF RevokeRole, Revoke
  <2> QED BY <1>2, <2>1, <2>2 DEF RevokeRole
<1>3. CASE TransferStoreAuthority(p, o)
  BY <1>3, OnlyTheWallet DEF TransferStoreAuthority
<1>4. CASE AcceptStoreAuthority(p)
  BY <1>4 DEF AcceptStoreAuthority
<1>5. CASE SetExpectedProvider(p, o)
  BY <1>5 DEF SetExpectedProvider
<1>6. CASE UpdateLastRestartedSlot(p)
  BY <1>6 DEF UpdateLastRestartedSlot
<1> QED BY <1>1, <1>2, <1>3, <1>4, <1>5, <1>6 DEF Invoke

(* A buffer that execute_instruction runs was announced.                   *)
LEMMA ExecuteAnnounced ==
    ASSUME Inv, NEW p \in People, NEW b \in Buffers, ExecuteInstruction(p, b)
    PROVE  /\ buf[b].exec \in Principals /\ buf[b].op \in Ops
           /\ Invoke(buf[b].exec, buf[b].op)
           /\ Announced(buf[b].op)
<1>0. buf[b] \in BufferType /\ age[b] \in Nat /\ delay \in Nat /\ now \in Nat
  BY NumbersAssumption DEF Inv, TypeOK, BufferType
<1>1. Invoke(buf[b].exec, buf[b].op) /\ buf[b].exec # "none"
  BY DEF ExecuteInstruction
<1>2. buf[b].op # NoBuffer.op
  BY <1>1 DEF Invoke, NoBuffer, GrantRole, RevokeRole,
              TransferStoreAuthority, SetExpectedProvider
<1>3. buf[b].exec \in Principals /\ buf[b].op \in Ops
  BY <1>0, <1>1, <1>2 DEF BufferType, Principals
<1>4. /\ Approved(b) /\ now >= buf[b].approvedAt + delay
      /\ buf'[b] = NoBuffer
  BY DEF ExecuteInstruction, IsExecutable, CloseBuffers
<1>5. buf[b].approvedAt + age[b] = now /\ buf[b].approvedAt \in Nat
  BY <1>0, <1>4 DEF Inv, AgeOK, BufferType
<1>6. age[b] >= delay
  BY <1>0, <1>4, <1>5
<1> QED BY <1>1, <1>3, <1>4, <1>6 DEF Announced

(* Every step of a governed store that changes roles or the next authority *)
(* runs an announced instruction, or is the bypass revocation of a role    *)
(* that may be revoked without notice.                                     *)
LEMMA GovernedStep ==
    ASSUME Inv, [Next]_vars, Governed
    PROVE  /\ \A g \in roles' \ roles : Announced(Grant(g))
           /\ \A g \in roles \ roles' :
                 g[2] \in NotBypassable => Announced(Revoke(g))
           /\ nextAuthority' # nextAuthority =>
                 \E o \in Ops : /\ o.kind = "transfer"
                                /\ o.who = nextAuthority'
                                /\ Announced(o)
<1>0. /\ People \subseteq Principals /\ "ADMIN" \notin People
      /\ "ADMIN" \in Principals
  BY PeopleAssumption DEF Principals, Executors
<1> DEFINE Goal == /\ \A g \in roles' \ roles : Announced(Grant(g))
                   /\ \A g \in roles \ roles' :
                         g[2] \in NotBypassable => Announced(Revoke(g))
                   /\ nextAuthority' # nextAuthority =>
                         \E o \in Ops : /\ o.kind = "transfer"
                                        /\ o.who = nextAuthority'
                                        /\ Announced(o)
<1>1. ASSUME NEW p \in People, NEW o \in Ops, StoreCall(p, o) PROVE Goal
  BY <1>0, <1>1, InvokeEffect DEF StoreCall
<1>2. ASSUME NEW p \in People, NEW b \in Buffers, ExecuteInstruction(p, b)
      PROVE  Goal
  <2> DEFINE o == buf[b].op
  <2>1. /\ \A g \in roles' \ roles : o = Grant(g)
        /\ \A g \in roles \ roles' : o = Revoke(g)
        /\ nextAuthority' # nextAuthority =>
              o.kind = "transfer" /\ o.who = nextAuthority'
    BY <1>2, ExecuteAnnounced, InvokeEffect
  <2>2. o \in Ops /\ Announced(o)
    BY <1>2, ExecuteAnnounced
  <2> HIDE DEF o
  <2> QED BY <2>1, <2>2
<1>3. ASSUME NEW p \in People, NEW o \in Ops, BypassRevokeRole(p, o)
      PROVE  Goal
  <2>1. /\ roles' = roles \ {<<o.who, o.role>>}
        /\ nextAuthority' = nextAuthority /\ o.role \notin NotBypassable
    BY <1>3 DEF BypassRevokeRole, RevokeRole
  <2> QED BY <2>1
<1>4. ASSUME roles' = roles, nextAuthority' = nextAuthority PROVE Goal
  BY <1>4
<1>5. ASSUME UNCHANGED vars PROVE Goal
  BY <1>4, <1>5 DEF vars, store
<1>6. ASSUME ClusterRestart \/ Tick
             \/ \E e \in Executors : InitializeExecutor(e)
      PROVE  Goal
  BY <1>4, <1>6 DEF ClusterRestart, Tick, InitializeExecutor, store
<1>7. ASSUME NEW p \in People, NEW d \in 0..MaxDelay,
             InitializeConfig(p, d) \/ IncreaseDelay(p, d)
      PROVE  Goal
  BY <1>4, <1>7 DEF InitializeConfig, IncreaseDelay, AcceptStoreAuthority,
                    store
<1>8. ASSUME NEW p \in People, NEW e \in Executors, NEW b \in Buffers,
             NEW o \in Ops, CreateInstructionBuffer(p, b, e, o)
      PROVE  Goal
  BY <1>4, <1>8 DEF CreateInstructionBuffer, store
<1>9. ASSUME NEW p \in People, NEW o \in Ops,
             BypassSetExpectedPriceProvider(p, o)
      PROVE  Goal
  BY <1>4, <1>9 DEF BypassSetExpectedPriceProvider, SetExpectedProvider
<1>10. ASSUME NEW p \in People, NEW e \in Executors, NEW B \in SUBSET Buffers,
              ApproveInstructions(p, e, B)
       PROVE  Goal
  BY <1>4, <1>10 DEF ApproveInstructions, store
<1>11. ASSUME NEW p \in People, NEW r \in People, NEW e \in Executors,
              NEW B \in SUBSET Buffers, CancelInstructions(p, e, r, B)
       PROVE  Goal
  BY <1>4, <1>11 DEF CancelInstructions, store
<1> HIDE DEF Goal
<1>12. Goal
  BY <1>1, <1>2, <1>3, <1>5, <1>6, <1>7, <1>8, <1>9, <1>10, <1>11 DEF Next
<1> QED BY <1>12 DEF Goal

(* Nobody gains a role, and no authority is named, behind the delay: once  *)
(* the ADMIN wallet governs the store, every grant and every transfer was  *)
(* on display in an approved buffer for the delay in force.                *)
THEOREM PowerAnnounced == Spec => PowerIsAnnounced
<1>1. Spec => []Inv
  BY InvInit, InvStep, PTL DEF Spec
<1>2. Inv /\ [Next]_vars =>
        [Governed =>
           /\ \A g \in roles' \ roles : Announced(Grant(g))
           /\ nextAuthority' # nextAuthority =>
                 \E o \in Ops : /\ o.kind = "transfer"
                                /\ o.who = nextAuthority'
                                /\ Announced(o)]_vars
  BY GovernedStep
<1> QED BY <1>1, <1>2, PTL DEF Spec, PowerIsAnnounced

(* The roles the timelock rests on are taken away only after the delay:    *)
(* the bypass revoke_role does not reach them, and nothing else is faster. *)
THEOREM ProtectedKept == Spec => ProtectedRolesKept
<1>1. Spec => []Inv
  BY InvInit, InvStep, PTL DEF Spec
<1>2. Inv /\ [Next]_vars =>
        [Governed => \A g \in roles \ roles' :
                        g[2] \in NotBypassable => Announced(Revoke(g))]_vars
  BY GovernedStep
<1> QED BY <1>1, <1>2, PTL DEF Spec, ProtectedRolesKept

(* Only a signer with MARKET_KEEPER changes the price provider.            *)
LEMMA ProviderEffect ==
    ASSUME NEW p \in Principals, NEW o \in Ops, ~restarted, Invoke(p, o),
           provider' # provider
    PROVE  <<p, "MARKET_KEEPER">> \in roles
BY DEF Invoke, GrantRole, RevokeRole, TransferStoreAuthority,
       AcceptStoreAuthority, SetExpectedProvider, UpdateLastRestartedSlot,
       HasRole

(* A step that changes the provider while only executor wallets hold       *)
(* MARKET_KEEPER has a holder of __TLD_MARKET_KEEPER behind it.            *)
LEMMA ProviderStep ==
    ASSUME Inv, [Next]_vars, provider' # provider, ~restarted,
           \A p \in People \cup {"ADMIN"} : <<p, "MARKET_KEEPER">> \notin roles
    PROVE  \E p \in People : <<p, "__TLD_MARKET_KEEPER">> \in roles
<1> DEFINE Goal == \E p \in People : <<p, "__TLD_MARKET_KEEPER">> \in roles
<1>0. People \subseteq Principals
  BY DEF Principals
<1>1. ASSUME NEW p \in People, NEW o \in Ops, StoreCall(p, o) PROVE FALSE
  BY <1>0, <1>1, ProviderEffect DEF StoreCall
<1>2. ASSUME NEW p \in People, NEW b \in Buffers, ExecuteInstruction(p, b)
      PROVE  Goal
  <2>1. /\ buf[b].exec \in Principals
        /\ <<buf[b].exec, "MARKET_KEEPER">> \in roles
    BY <1>2, ExecuteAnnounced, ProviderEffect
  <2>2. buf[b].exec # "ADMIN"
    BY <2>1
  <2>3. <<buf[b].approver, "__TLD_MARKET_KEEPER">> \in roles
    BY <1>2, <2>2
    DEF ExecuteInstruction, ApproverTrusted, HasRole, TimelockedRole
  <2>4. buf[b].approver \in People
    BY <1>2 DEF Inv, TypeOK, ExecuteInstruction, ApproverTrusted, Approved
  <2> QED BY <2>3, <2>4
<1>3. ASSUME NEW p \in People, NEW o \in Ops,
             BypassSetExpectedPriceProvider(p, o)
      PROVE  Goal
  BY <1>3 DEF BypassSetExpectedPriceProvider, HasRole
<1>4. ASSUME UNCHANGED vars PROVE FALSE
  BY <1>4 DEF vars, store
<1>5. ASSUME ClusterRestart \/ Tick
             \/ \E e \in Executors : InitializeExecutor(e)
      PROVE  FALSE
  BY <1>5 DEF ClusterRestart, Tick, InitializeExecutor, store
<1>6. ASSUME NEW p \in People, NEW d \in 0..MaxDelay,
             InitializeConfig(p, d) \/ IncreaseDelay(p, d)
      PROVE  FALSE
  BY <1>6 DEF InitializeConfig, IncreaseDelay, AcceptStoreAuthority, store
<1>7. ASSUME NEW p \in People, NEW e \in Executors, NEW b \in Buffers,
             NEW o \in Ops, CreateInstructionBuffer(p, b, e, o)
      PROVE  FALSE
  BY <1>7 DEF CreateInstructionBuffer, store
<1>8. ASSUME NEW p \in People, NEW e \in Executors, NEW B \in SUBSET Buffers,
             ApproveInstructions(p, e, B)
      PROVE  FALSE
  BY <1>8 DEF ApproveInstructions, store
<1>9. ASSUME NEW p \in People, NEW r \in People, NEW e \in Executors,
              NEW B \in SUBSET Buffers, CancelInstructions(p, e, r, B)
       PROVE  FALSE
  BY <1>9 DEF CancelInstructions, store
<1>10. ASSUME NEW p \in People, NEW o \in Ops, BypassRevokeRole(p, o)
       PROVE  FALSE
  BY <1>10 DEF BypassRevokeRole, RevokeRole
<1> HIDE DEF Goal
<1>11. Goal
  BY <1>1, <1>2, <1>3, <1>4, <1>5, <1>6, <1>7, <1>8, <1>9, <1>10 DEF Next
<1> QED BY <1>11 DEF Goal

(* The buffers of approvers who lost __TLD_MARKET_KEEPER are dead: with    *)
(* nobody left in that role, no wallet changes the price provider.         *)
THEOREM ApproverPowerless == Spec => RevokedApproverPowerless
<1>1. Spec => []Inv
  BY InvInit, InvStep, PTL DEF Spec
<1>2. Inv /\ [Next]_vars =>
        [(/\ provider' # provider /\ ~restarted
          /\ \A p \in People \cup {"ADMIN"} :
                <<p, "MARKET_KEEPER">> \notin roles)
         => \E p \in People : <<p, "__TLD_MARKET_KEEPER">> \in roles]_vars
  BY ProviderStep
<1> QED BY <1>1, <1>2, PTL DEF Spec, RevokedApproverPowerless
=============================================================================
