---------------------------- MODULE AccessControl ----------------------------
(***************************************************************************)
(* What the store promises about permissions, without the tables of        *)
(* StoreRoles: a role has holders, an admin may grant, revoke, enable and  *)
(* disable it, and a call is served only to who is permitted to make it.   *)
(* After a restart of the cluster, until an admin has acknowledged it, the *)
(* holders of RESTART_ADMIN have every role and everybody else has none.   *)
(***************************************************************************)
EXTENDS FiniteSets
CONSTANTS Users,
          Roles,      \* that can be granted
          Callable,   \* what instructions ask for: "ADMIN", "signer" or a role
          NoCall
VARIABLES holders,    \* of each role
          enabled,    \* roles
          authority, successor,
          outdated,   \* the store does not know of the last restart
          served      \* the call being served: who makes it, in which role

permissions == <<holders, enabled>>
vars == <<permissions, authority, successor, outdated, served>>

Holds(u, r) == r \in enabled /\ u \in holders[r]

Permitted(u, r) ==
    CASE r = "signer" -> TRUE
      [] r = "ADMIN" -> u = authority \/ (outdated /\ Holds(u, "RESTART_ADMIN"))
      [] OTHER -> Holds(u, IF outdated THEN "RESTART_ADMIN" ELSE r)

\* An empty store: no role is known, so none is enabled or held.
Init == /\ holders = [r \in Roles |-> {}]
        /\ enabled = {}
        /\ authority \in Users
        /\ successor = authority
        /\ outdated = FALSE
        /\ served = NoCall

Enable(r) == /\ r \notin enabled
             /\ enabled' = enabled \cup {r}
             /\ UNCHANGED holders
Disable(r) == /\ r \in enabled
              /\ enabled' = enabled \ {r}
              /\ UNCHANGED holders
Grant(u, r) == /\ r \in enabled
               /\ u \notin holders[r]
               /\ holders' = [holders EXCEPT ![r] = @ \cup {u}]
               /\ UNCHANGED enabled
Revoke(u, r) == /\ u \in holders[r]
                /\ holders' = [holders EXCEPT ![r] = @ \ {u}]
                /\ UNCHANGED enabled

ChangePermissions ==
    /\ \E r \in Roles : \/ Enable(r)
                        \/ Disable(r)
                        \/ \E u \in Users : Grant(u, r) \/ Revoke(u, r)
    /\ UNCHANGED <<authority, successor, outdated>>
Acknowledge == /\ outdated /\ outdated' = FALSE
               /\ UNCHANGED <<permissions, authority, successor>>
NameSuccessor == /\ \E u \in Users \ {successor} : successor' = u
                 /\ UNCHANGED <<permissions, authority, outdated>>

Serve(u, r) == /\ served = NoCall
               /\ Permitted(u, r)
               /\ served' = [by |-> u, as |-> r]
Return == /\ served # NoCall
          /\ served' = NoCall
          /\ UNCHANGED <<permissions, authority, successor, outdated>>

\* Only a call of an admin changes the permissions.
Administer(u) == /\ Serve(u, "ADMIN")
                 /\ ChangePermissions \/ Acknowledge \/ NameSuccessor
Act(u, r) == /\ Serve(u, r)
             /\ UNCHANGED <<permissions, authority, successor, outdated>>
Succeed == /\ Serve(successor, "signer")
           /\ ~outdated /\ authority # successor
           /\ authority' = successor
           /\ UNCHANGED <<permissions, successor, outdated>>
Restart == /\ served = NoCall
           /\ outdated' = TRUE
           /\ UNCHANGED <<permissions, authority, successor, served>>

Next == \/ \E u \in Users : \/ Administer(u)
                            \/ \E r \in Callable : Act(u, r)
        \/ Succeed \/ Restart \/ Return
Spec == Init /\ [][Next]_vars
==============================================================================
