----------------------------- MODULE StoreRoles -----------------------------
(***************************************************************************)
(* The permissions of the store program: the tables of roles and members   *)
(* (states/roles.rs), the authority and the receiver with their two-step   *)
(* transfers, and the slot of the last restart (states/store.rs).          *)
(*                                                                         *)
(* A role gets the index of the next free bit when it is first enabled and *)
(* keeps it; a member is a bitmap over the indices.  Both tables are fixed *)
(* maps.  An instruction is checked and executed in one step; `served'     *)
(* shows who called it in which role until it returns.  Instructions with  *)
(* no effect on this state are calls of Invoke.                            *)
(***************************************************************************)
EXTENDS Access, FixedMap

CONSTANTS Users,        \* public keys, as numbers
          Roles,        \* names of roles, RESTART_ADMIN among them
          KeyOf,        \* the hash of a role's name, as a number
          FirstAuthority,
          MaxRoles,     \* MAX_ROLES
          MaxMembers,   \* MAX_MEMBERS
          MaxSlot,      \* bound on restarts of the cluster
          MaxOffers,    \* bound on transfers of the authority and the receiver
          NoCall

ASSUME StoreRolesAssumption ==
    /\ Users \subseteq Nat /\ FirstAuthority \in Users
    /\ "RESTART_ADMIN" \in Roles
    /\ KeyOf \in [Roles -> Nat]
    /\ \A r, s \in Roles : KeyOf[r] = KeyOf[s] => r = s
    /\ {MaxRoles, MaxMembers, MaxSlot, MaxOffers} \subseteq Nat

VARIABLES
    roles,          \* RoleMap: the index of each known role, and whether it
                    \* is enabled
    members,        \* Members: the bits set for each member
    authority, nextAuthority,
    receiver, nextReceiver,
    restartSlot,    \* Store.last_restarted_slot
    lastRestart,    \* the sysvar LastRestartSlot
    offers,         \* counts the offers made
    served          \* history: the call being served

tables == <<roles, members>>
authorities == <<authority, nextAuthority, receiver, nextReceiver, offers>>
storeVars == <<tables, authorities, restartSlot, lastRestart, served>>

StoreRolesInit ==
    /\ roles = EmptyMap
    /\ members = EmptyMap
    /\ authority = FirstAuthority /\ nextAuthority = authority
    /\ receiver = authority /\ nextReceiver = receiver
    /\ restartSlot = 0
    /\ lastRestart = restartSlot
    /\ offers = 0
    /\ served = NoCall

(***************************************************************************)
(* RoleStore::has_role, Store::has_role, Store::has_admin_role and the     *)
(* checks of Authenticate built from them.                                 *)
(***************************************************************************)
Known(r) == r \in Roles /\ Present(roles, KeyOf[r])
Metadata(r) == Get(roles, KeyOf[r])
RoleIndex(r) == Metadata(r).index
EnabledRole(r) == Known(r) /\ Metadata(r).enabled

HasBitOfKnown(u, r) == /\ Present(members, u) /\ Known(r)
                       /\ RoleIndex(r) \in Get(members, u)
HasBit(u, r) == /\ Present(members, u)
                /\ EnabledRole(r)
                /\ RoleIndex(r) \in Get(members, u)

HasRestarted == restartSlot # lastRestart
HasRole(u, r) == HasBit(u, IF HasRestarted THEN "RESTART_ADMIN" ELSE r)
HasAdminRole(u) == \/ u = authority
                   \/ HasRestarted /\ HasBit(u, "RESTART_ADMIN")

Only(u, r) == CASE r = "signer" -> TRUE
                [] r = "ADMIN" -> HasAdminRole(u)
                [] OTHER -> HasRole(u, r)

Call(u, instruction) ==
    /\ served = NoCall
    /\ Only(u, RequiredRole[instruction])
    /\ served' = [by |-> u, as |-> RequiredRole[instruction]]

Return == /\ served # NoCall
          /\ served' = NoCall
          /\ UNCHANGED <<tables, authorities, restartSlot, lastRestart>>

(***************************************************************************)
(* The role table.                                                         *)
(***************************************************************************)
NewIndexOfEnabled == Cardinality({i \in DOMAIN roles : roles[i].value.enabled})
NewIndex == Len(roles)

RolesWith(r) ==
    IF Known(r) THEN Set(roles, KeyOf[r], [Metadata(r) EXCEPT !.enabled = TRUE])
    ELSE Inserted(roles, KeyOf[r], [index |-> NewIndex, enabled |-> TRUE])
\* Disabling an unknown role succeeds and changes nothing.
RolesWithout(r) ==
    IF Known(r) THEN Set(roles, KeyOf[r], [Metadata(r) EXCEPT !.enabled = FALSE])
    ELSE roles

EnableRole(u, r) ==
    /\ Call(u, "enable_role")
    /\ IF Known(r) THEN ~EnabledRole(r) ELSE Insertable(roles, KeyOf[r], MaxRoles)
    /\ roles' = RolesWith(r)
    /\ UNCHANGED <<members, authorities, restartSlot, lastRestart>>

DisableRole(u, r) ==
    /\ Call(u, "disable_role")
    /\ Known(r) => EnabledRole(r)
    /\ roles' = RolesWithout(r)
    /\ UNCHANGED <<members, authorities, restartSlot, lastRestart>>

MembersWith(member, r) ==
    IF Present(members, member)
    THEN Set(members, member, Get(members, member) \cup {RoleIndex(r)})
    ELSE Inserted(members, member, {RoleIndex(r)})

GrantRole(u, member, r) ==
    /\ Call(u, "grant_role")
    /\ EnabledRole(r)
    /\ IF Present(members, member) THEN RoleIndex(r) \notin Get(members, member)
       ELSE Insertable(members, member, MaxMembers)
    /\ members' = MembersWith(member, r)
    /\ UNCHANGED <<roles, authorities, restartSlot, lastRestart>>

\* A role is revoked whether or not it is enabled; a member without roles
\* leaves the table.
LastRole(member, r) == Get(members, member) = {RoleIndex(r)}
MembersWithout(member, r) ==
    IF LastRole(member, r) THEN Removed(members, member)
    ELSE Set(members, member, Get(members, member) \ {RoleIndex(r)})

RevokeRole(u, member, r) ==
    /\ Call(u, "revoke_role")
    /\ HasBitOfKnown(member, r)
    /\ LastRole(member, r) => Removable(members, member, MaxMembers)
    /\ members' = MembersWithout(member, r)
    /\ UNCHANGED <<roles, authorities, restartSlot, lastRestart>>

(***************************************************************************)
(* The authority, the receiver and restarts.                               *)
(***************************************************************************)
Offer == offers < MaxOffers /\ offers' = offers + 1

TransferStoreAuthority(u, next) ==
    /\ Call(u, "transfer_store_authority")
    /\ Offer
    /\ next # nextAuthority
    /\ nextAuthority' = next
    /\ UNCHANGED <<tables, authority, receiver, nextReceiver, restartSlot, lastRestart>>

Acceptable(u) == u = nextAuthority /\ ~HasRestarted
AcceptStoreAuthority(u) ==
    /\ Call(u, "accept_store_authority")
    /\ Acceptable(u)
    /\ authority # nextAuthority
    /\ authority' = nextAuthority
    /\ UNCHANGED <<tables, nextAuthority, receiver, nextReceiver, offers, restartSlot, lastRestart>>

TransferReceiver(u, next) ==
    /\ Call(u, "transfer_receiver")
    /\ u = receiver
    /\ ~HasRestarted
    /\ Offer
    /\ next # nextReceiver
    /\ nextReceiver' = next
    /\ UNCHANGED <<tables, authority, nextAuthority, receiver, restartSlot, lastRestart>>

AcceptReceiver(u) ==
    /\ Call(u, "accept_receiver")
    /\ u = nextReceiver
    /\ ~HasRestarted
    /\ receiver # nextReceiver
    /\ receiver' = nextReceiver
    /\ UNCHANGED <<tables, authority, nextAuthority, nextReceiver, offers, restartSlot, lastRestart>>

\* The cluster restarts between two instructions.
Restart == /\ served = NoCall
           /\ lastRestart < MaxSlot
           /\ lastRestart' = lastRestart + 1
           /\ UNCHANGED <<tables, authorities, restartSlot, served>>

UpdateLastRestartedSlot(u) ==
    /\ Call(u, "update_last_restarted_slot")
    /\ HasRestarted
    /\ restartSlot' = lastRestart
    /\ UNCHANGED <<tables, authorities, lastRestart>>

\* Every other instruction: its effect is the business of the other modules.
OtherRoles == {RequiredRole[i] : i \in Instructions \ Administrative}

Invoke(u, r) ==
    /\ served = NoCall
    /\ Only(u, r)
    /\ served' = [by |-> u, as |-> r]
    /\ UNCHANGED <<tables, authorities, restartSlot, lastRestart>>

StoreRolesNext ==
    \/ \E u \in Users :
         \/ \E r \in Roles : \/ EnableRole(u, r)
                             \/ DisableRole(u, r)
                             \/ \E v \in Users : GrantRole(u, v, r) \/ RevokeRole(u, v, r)
         \/ \E v \in Users : TransferStoreAuthority(u, v) \/ TransferReceiver(u, v)
         \/ AcceptStoreAuthority(u)
         \/ AcceptReceiver(u)
         \/ UpdateLastRestartedSlot(u)
         \/ \E r \in OtherRoles : Invoke(u, r)
    \/ Restart
    \/ Return

StoreRolesSpec == StoreRolesInit /\ [][StoreRolesNext]_storeVars

(***************************************************************************)
(* The permissions of AccessControl, read off the two tables.              *)
(***************************************************************************)
Holders == [r \in Roles |-> {u \in Users : HasBitOfKnown(u, r)}]
Control == INSTANCE AccessControl WITH
    Callable <- {RequiredRole[i] : i \in Instructions},
    holders <- Holders,
    enabled <- {r \in Roles : EnabledRole(r)},
    successor <- nextAuthority,
    outdated <- HasRestarted

\* The tables of roles.rs implement plain sets of holders: an index belongs
\* to one role, whatever was disabled and enabled before it (enable_role),
\* removing a member or inserting one never moves the bits of another
\* (FixedMap), and no instruction is served to a caller without the role at
\* that moment, through restarts and transfers of the authority.
ImplementsAccessControl == Control!Spec
=============================================================================
