------------------------------ MODULE Timelock ------------------------------
(***************************************************************************)
(* The timelock program (programs/gmsol-timelock) and the part of the      *)
(* store it governs: the store's authority, its role table and the         *)
(* expected price provider of a token.                                     *)
(*                                                                         *)
(* An executor is an account with a wallet that only this program signs    *)
(* for.  A keeper puts an instruction in a buffer; a holder of the         *)
(* executor's timelocked role approves it; once the delay has passed, any  *)
(* keeper may have the wallet sign it.  initialize_config makes the wallet *)
(* of the ADMIN executor the authority of the store.                       *)
(*                                                                         *)
(* An instruction that fails changes nothing, so only its successful runs  *)
(* are steps.  Every role named here exists and is enabled.                *)
(***************************************************************************)
EXTENDS Naturals, FiniteSets

CONSTANTS People,       \* addresses that sign for themselves
          Deployer,     \* the authority the store was initialized with
          Providers,    \* price providers
          Buffers,      \* addresses of instruction buffers
          Ops,          \* store instructions that may be called or buffered
          BaseRoles,    \* the roles granted before the timelock is set up
          Nobody,       \* DEFAULT_PUBKEY
          MaxDelay,     \* u32::MAX
          AccountSize,  \* InstructionAccount::INIT_SPACE
          MaxTime,      \* bound on the clock
          MayRestart    \* TRUE if the cluster may restart

Executors == {"ADMIN", "MARKET_KEEPER"}
Roles == {"TIMELOCK_ADMIN", "TIMELOCK_KEEPER", "__TLD_ADMIN",
          "__TLD_MARKET_KEEPER", "MARKET_KEEPER", "RESTART_ADMIN"}

(* The wallet of an executor is named after it.                            *)
Principals == People \cup Executors

Op(k, x, r) == [kind |-> k, who |-> x, role |-> r]
Grant(g) == Op("grant", g[1], g[2])
Revoke(g) == Op("revoke", g[1], g[2])

ASSUME PeopleAssumption == /\ Nobody \notin Principals
                           /\ People \cap Executors = {}
                           /\ Deployer \in People
ASSUME OpsAssumption ==
    \A o \in Ops :
        /\ o = Op(o.kind, o.who, o.role)
        /\ \/ /\ o.kind \in {"grant", "revoke"}
              /\ o.who \in Principals /\ o.role \in Roles
           \/ o.kind = "transfer" /\ o.who \in Principals
           \/ o.kind = "provider" /\ o.who \in Providers
           \/ o.kind \in {"accept", "acknowledge"}
ASSUME BaseRolesAssumption == BaseRoles \subseteq Principals \X Roles
ASSUME NumbersAssumption == /\ MaxDelay \in Nat /\ MaxTime \in Nat
                            /\ AccountSize \in Nat \ {0}

VARIABLES
    authority, nextAuthority,   \* of the store
    roles,                      \* RoleStore: <<address, role>>
    provider,                   \* TokenConfig.expected_provider
    restarted,                  \* the store is older than the last restart
    executors,                  \* executor accounts that exist
    configured, delay,          \* TimelockConfig
    buf,                        \* instruction buffers
    now,                        \* Clock.unix_timestamp
    \* history
    age                         \* for how many ticks was the approved buffer
                                \* on display

store == <<authority, nextAuthority, roles, provider, restarted>>
timelock == <<executors, configured, delay, buf, age>>
vars == <<store, timelock, now>>

NoBuffer == [exec |-> "none", op |-> Op("none", Nobody, "none"),
             approvedAt |-> 0, approver |-> Nobody, rent |-> Nobody]

Init == /\ authority = Deployer /\ nextAuthority = Deployer
        /\ roles = BaseRoles
        /\ provider \in Providers
        /\ restarted = FALSE
        /\ executors = {}
        /\ configured = FALSE /\ delay = 0
        /\ buf = [b \in Buffers |-> NoBuffer]
        /\ now = 0
        /\ age = [b \in Buffers |-> 0]

-----------------------------------------------------------------------------
(* The store.                                                              *)

(* Store::has_role: after a restart RESTART_ADMIN stands for every role.   *)
HasRole(p, r) == <<p, IF restarted THEN "RESTART_ADMIN" ELSE r>> \in roles

(* Store::has_admin_role.                                                  *)
HasAdminRole(p) ==
    p = authority \/ (restarted /\ <<p, "RESTART_ADMIN">> \in roles)

GrantRole(p, o) ==
    /\ o.kind = "grant"
    /\ HasAdminRole(p)
    /\ <<o.who, o.role>> \notin roles
    /\ roles' = roles \cup {<<o.who, o.role>>}
    /\ UNCHANGED <<authority, nextAuthority, provider, restarted>>

RevokeRole(p, o) ==
    /\ o.kind = "revoke"
    /\ HasAdminRole(p)
    /\ <<o.who, o.role>> \in roles
    /\ roles' = roles \ {<<o.who, o.role>>}
    /\ UNCHANGED <<authority, nextAuthority, provider, restarted>>

TransferStoreAuthority(p, o) ==
    /\ o.kind = "transfer"
    /\ HasAdminRole(p)
    /\ nextAuthority # o.who
    /\ nextAuthority' = o.who
    /\ UNCHANGED <<authority, roles, provider, restarted>>

AcceptStoreAuthority(p) ==
    /\ p = nextAuthority
    /\ ~restarted
    /\ authority # nextAuthority
    /\ authority' = nextAuthority
    /\ UNCHANGED <<nextAuthority, roles, provider, restarted>>

SetExpectedProvider(p, o) ==
    /\ o.kind = "provider"
    /\ HasRole(p, "MARKET_KEEPER")
    /\ provider # o.who
    /\ provider' = o.who
    /\ UNCHANGED <<authority, nextAuthority, roles, restarted>>

UpdateLastRestartedSlot(p) ==
    /\ HasAdminRole(p)
    /\ restarted
    /\ restarted' = FALSE
    /\ UNCHANGED <<authority, nextAuthority, roles, provider>>

(* The instruction o of the store program, signed by p.                    *)
Invoke(p, o) ==
    \/ GrantRole(p, o)
    \/ RevokeRole(p, o)
    \/ TransferStoreAuthority(p, o)
    \/ o.kind = "accept" /\ AcceptStoreAuthority(p)
    \/ SetExpectedProvider(p, o)
    \/ o.kind = "acknowledge" /\ UpdateLastRestartedSlot(p)

(* A person calls the store without the timelock.                          *)
StoreCall(p, o) == Invoke(p, o) /\ UNCHANGED <<timelock, now>>

ClusterRestart == /\ MayRestart /\ ~restarted
                  /\ restarted' = TRUE
                  /\ UNCHANGED <<authority, nextAuthority, roles, provider,
                                 timelock, now>>

-----------------------------------------------------------------------------
(* Configuration of the timelock.                                          *)

(* Anybody may create the executor account of a role.                      *)
InitializeExecutor(e) ==
    /\ e \notin executors
    /\ executors' = executors \cup {e}
    /\ UNCHANGED <<store, configured, delay, buf, now, age>>

InitializeConfig(p, d) ==
    /\ ~configured
    /\ "ADMIN" \in executors
    /\ \A r \in {"TIMELOCK_ADMIN", "TIMELOCK_KEEPER", "__TLD_ADMIN"} :
          HasRole(p, r)
    /\ IF authority = "ADMIN" THEN UNCHANGED store
                              ELSE AcceptStoreAuthority("ADMIN")
    /\ configured' = TRUE
    /\ delay' = d
    /\ UNCHANGED <<executors, buf, now, age>>

IncreaseDelay(p, delta) ==
    /\ configured
    /\ HasRole(p, "TIMELOCK_ADMIN")
    /\ delta # 0
    /\ delay + delta <= MaxDelay
    /\ delay' = delay + delta
    /\ UNCHANGED <<store, executors, configured, buf, now, age>>

-----------------------------------------------------------------------------
(* Instruction buffers.                                                    *)

(* The accounts each store instruction takes.                              *)
NumAccounts(o) == CASE o.kind \in {"grant", "revoke"} -> 2
                    [] o.kind = "transfer" -> 3
                    [] o.kind = "provider" -> 3
                    [] OTHER -> 2

(* load_instruction: what follows the data must be as long as the number   *)
(* of accounts.  It is counted in bytes, and an account takes AccountSize  *)
(* of them.                                                                *)
BufferLoads(n) == n * AccountSize = n

CreateInstructionBuffer(p, b, e, o) ==
    /\ HasRole(p, "TIMELOCK_KEEPER")
    /\ e \in executors
    /\ buf[b].exec = "none"
    /\ BufferLoads(NumAccounts(o))
    /\ buf' = [buf EXCEPT ![b] = [NoBuffer EXCEPT !.exec = e, !.op = o,
                                                   !.rent = p]]
    /\ UNCHANGED <<store, executors, configured, delay, now, age>>

(* roles::timelocked_role.                                                 *)
TimelockedRole(e) == IF e = "ADMIN" THEN "__TLD_ADMIN"
                                    ELSE "__TLD_MARKET_KEEPER"

Approved(b) == buf[b].approver # Nobody

(* approve_instruction, and approve_instructions for several buffers.      *)
ApproveInstructions(p, e, B) ==
    /\ e \in executors
    /\ HasRole(p, TimelockedRole(e))
    /\ \A b \in B : buf[b].exec = e /\ ~Approved(b)
    /\ buf' = [b \in Buffers |->
                  IF b \in B THEN [buf[b] EXCEPT !.approvedAt = now,
                                                 !.approver = p]
                             ELSE buf[b]]
    /\ UNCHANGED <<store, executors, configured, delay, now, age>>

(* The accounts of the buffers in B are closed.                            *)
CloseBuffers(B) ==
    /\ buf' = [b \in Buffers |-> IF b \in B THEN NoBuffer ELSE buf[b]]
    /\ age' = [b \in Buffers |-> IF b \in B THEN 0 ELSE age[b]]

(* cancel_instruction, and cancel_instructions for buffers that share the  *)
(* executor and the rent receiver.                                         *)
CancelInstructions(p, e, r, B) ==
    /\ HasRole(p, "TIMELOCK_ADMIN")
    /\ e \in executors
    /\ \A b \in B : buf[b].exec = e /\ buf[b].rent = r
    /\ CloseBuffers(B)
    /\ UNCHANGED <<store, executors, configured, delay, now>>

(* Mutant: the comparison of is_executable is turned around.               *)
IsExecutableBefore(b) == Approved(b) /\ now <= buf[b].approvedAt + delay

(* InstructionHeader::is_executable.                                       *)
IsExecutable(b) == Approved(b) /\ now >= buf[b].approvedAt + delay

(* Mutant: the approver is not asked for the role again.                   *)
ApproverOnceTrusted(b) == Approved(b)

(* The approver still has the role that approved the buffer.               *)
ApproverTrusted(b) ==
    Approved(b) /\ HasRole(buf[b].approver, TimelockedRole(buf[b].exec))

ExecuteInstruction(p, b) ==
    /\ HasRole(p, "TIMELOCK_KEEPER")
    /\ configured
    /\ buf[b].exec # "none"
    /\ BufferLoads(NumAccounts(buf[b].op))
    /\ ApproverTrusted(b)
    /\ IsExecutable(b)
    /\ Invoke(buf[b].exec, buf[b].op)
    /\ CloseBuffers({b})
    /\ UNCHANGED <<executors, configured, delay, now>>

-----------------------------------------------------------------------------
(* Instructions that bypass the delay.                                     *)

NotBypassable == {"__TLD_ADMIN", "TIMELOCK_ADMIN", "TIMELOCK_KEEPER"}

(* Mutant: every role may be revoked without the delay.                    *)
BypassRevokeAnyRole(p, o) ==
    /\ HasRole(p, "__TLD_ADMIN")
    /\ "ADMIN" \in executors
    /\ RevokeRole("ADMIN", o)
    /\ UNCHANGED <<timelock, now>>

BypassRevokeRole(p, o) ==
    /\ HasRole(p, "__TLD_ADMIN")
    /\ "ADMIN" \in executors
    /\ o.role \notin NotBypassable
    /\ RevokeRole("ADMIN", o)
    /\ UNCHANGED <<timelock, now>>

BypassSetExpectedPriceProvider(p, o) ==
    /\ HasRole(p, "__TLD_MARKET_KEEPER")
    /\ "MARKET_KEEPER" \in executors
    /\ SetExpectedProvider("MARKET_KEEPER", o)
    /\ UNCHANGED <<timelock, now>>

-----------------------------------------------------------------------------
(* Time passes; whoever watches the chain sees every approved buffer.      *)
Tick == /\ now < MaxTime
        /\ now' = now + 1
        /\ age' = [b \in Buffers |-> IF Approved(b) THEN age[b] + 1 ELSE 0]
        /\ UNCHANGED <<store, executors, configured, delay, buf>>

Next ==
    \/ \E p \in People, o \in Ops : StoreCall(p, o)
    \/ ClusterRestart
    \/ \E e \in Executors : InitializeExecutor(e)
    \/ \E p \in People, d \in 0..MaxDelay : InitializeConfig(p, d)
    \/ \E p \in People, d \in 0..MaxDelay : IncreaseDelay(p, d)
    \/ \E p \in People, b \in Buffers, e \in Executors, o \in Ops :
          CreateInstructionBuffer(p, b, e, o)
    \/ \E p \in People, e \in Executors, B \in SUBSET Buffers :
          ApproveInstructions(p, e, B)
    \/ \E p, r \in People, e \in Executors, B \in SUBSET Buffers :
          CancelInstructions(p, e, r, B)
    \/ \E p \in People, b \in Buffers : ExecuteInstruction(p, b)
    \/ \E p \in People, o \in Ops : BypassRevokeRole(p, o)
    \/ \E p \in People, o \in Ops : BypassSetExpectedPriceProvider(p, o)
    \/ Tick

Spec == Init /\ [][Next]_vars

-----------------------------------------------------------------------------
(* The state of the store and of the timelock is well formed; the delay    *)
(* (TimelockConfig.delay, increase_delay) fits in a u32.                   *)
TypeOK ==
    /\ authority \in Principals /\ nextAuthority \in Principals
    /\ roles \subseteq Principals \X Roles
    /\ provider \in Providers
    /\ restarted \in BOOLEAN
    /\ executors \subseteq Executors
    /\ configured \in BOOLEAN /\ delay \in 0..MaxDelay
    /\ buf \in [Buffers -> [exec : Executors \cup {"none"},
                            op : Ops \cup {NoBuffer.op}, approvedAt : Nat,
                            approver : People \cup {Nobody},
                            rent : People \cup {Nobody}]]
    /\ now \in 0..MaxTime
    /\ age \in [Buffers -> Nat]

(* The store answers to the wallet of the ADMIN executor.                  *)
Governed == authority = "ADMIN" /\ ~restarted

(* o is carried out by this step, from an approved buffer that has been on *)
(* display for at least the delay in force.                                *)
Announced(o) == \E b \in Buffers : /\ buf[b].op = o /\ Approved(b)
                                   /\ age[b] >= delay
                                   /\ buf'[b] = NoBuffer

(* Once initialize_config has handed the store to the ADMIN wallet, nobody *)
(* gains a role and no new authority is named unless an approved buffer    *)
(* said so for the whole delay: approval, delay changes, cancellations and *)
(* the bypass instructions open no shorter way.  While the store has not   *)
(* acknowledged a restart, RESTART_ADMIN may act at once.                  *)
PowerIsAnnounced ==
    [][Governed =>
         /\ \A g \in roles' \ roles : Announced(Grant(g))
         /\ nextAuthority' # nextAuthority =>
               \E o \in Ops : /\ o.kind = "transfer"
                              /\ o.who = nextAuthority'
                              /\ Announced(o)]_vars

(* The roles the timelock itself rests on (NOT_BYPASSABLE_ROLES) are never *)
(* taken away without notice: the bypass revoke_role does not reach them.  *)
ProtectedRolesKept ==
    [][Governed => \A g \in roles \ roles' :
                      g[2] \in NotBypassable => Announced(Revoke(g))]_vars

(* When only executor wallets hold MARKET_KEEPER, the price provider of a  *)
(* token changes only while somebody still holds __TLD_MARKET_KEEPER: once *)
(* the last of them has been revoked, the buffers they approved are dead   *)
(* (the approver is asked for the role again by execute_instruction).      *)
RevokedApproverPowerless ==
    [][(/\ provider' # provider /\ ~restarted
        /\ \A p \in People \cup {"ADMIN"} : <<p, "MARKET_KEEPER">> \notin roles)
       => \E p \in People : <<p, "__TLD_MARKET_KEEPER">> \in roles]_vars

(* "Ensure at least one address can create and execute timelocked          *)
(* instructions" (instructions/config.rs): once the timelock is configured *)
(* and no restart is pending, an address with the role TIMELOCK_KEEPER can *)
(* have a buffer with some instruction of the store.                       *)
KeeperCanPropose ==
    configured /\ ~restarted =>
        \A p \in People : HasRole(p, "TIMELOCK_KEEPER") =>
            \E o \in Ops : BufferLoads(NumAccounts(o))
=============================================================================
