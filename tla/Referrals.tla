------------------------------ MODULE Referrals ------------------------------
(***************************************************************************)
(* User accounts, referral codes and their transfers (states/user.rs,      *)
(* instructions/user.rs).  An account of a user points to the code the     *)
(* user owns and to the user who referred them; an account of a code       *)
(* points to its owner and to who may take it over.  Codes created by an   *)
(* older version of the program are migrated first                         *)
(* (instructions/migration/referral_code.rs).  Rent and the bytes of a     *)
(* code are left out.                                                      *)
(***************************************************************************)
EXTENDS Naturals, FiniteSets
CONSTANTS People, Codes,
          Legacy,   \* codes of the older version: code -> owner
          Nobody, NoCode

ASSUME ReferralsAssumption ==
    /\ IsFiniteSet(People)
    /\ Nobody \notin People /\ NoCode \notin Codes
    /\ DOMAIN Legacy \subseteq Codes
    /\ \A c \in DOMAIN Legacy : Legacy[c] \in People
    /\ \A c, d \in DOMAIN Legacy : Legacy[c] = Legacy[d] => c = d

VARIABLES
    user,       \* UserHeader of each person: init, Referral
    code,       \* ReferralCodeV2 of each code; v1 is the older version
    promised    \* history: to whom the owner of a code has promised it

referralVars == <<user, code, promised>>

NoUserAccount == [init |-> FALSE, code |-> NoCode, referrer |-> Nobody, referees |-> 0]
NoCodeAccount == [version |-> "none", owner |-> Nobody, next |-> Nobody]

ReferralsInit ==
    /\ user = [p \in People |->
                 IF \E c \in DOMAIN Legacy : Legacy[c] = p
                 THEN [NoUserAccount EXCEPT !.init = TRUE,
                        !.code = CHOOSE c \in DOMAIN Legacy : Legacy[c] = p]
                 ELSE NoUserAccount]
    /\ code = [c \in Codes |->
                 IF c \in DOMAIN Legacy
                 THEN [version |-> "v1", owner |-> Legacy[c], next |-> Nobody]
                 ELSE NoCodeAccount]
    /\ promised = [c \in Codes |-> Nobody]

PrepareUser(p) ==
    /\ ~user[p].init
    /\ user' = [user EXCEPT ![p].init = TRUE]
    /\ UNCHANGED <<code, promised>>

NewCode(owner) == [version |-> "v2", owner |-> owner, next |-> owner]

InitializeReferralCode(p, c) ==
    /\ code[c].version = "none"
    /\ user[p].init
    /\ user[p].code = NoCode
    /\ code' = [code EXCEPT ![c] = NewCode(p)]
    /\ user' = [user EXCEPT ![p].code = c]
    /\ UNCHANGED promised

MigrateReferralCode(c) ==
    /\ code[c].version = "v1"
    /\ code' = [code EXCEPT ![c] = NewCode(@.owner)]
    /\ UNCHANGED <<user, promised>>

\* The constraints that an account p owns the code c, from both sides.
Owns(p, c) == /\ code[c].version = "v2"
              /\ code[c].owner = p
              /\ user[p].code = c

MayReferAnyone(p, r) == r # p
MayRefer(p, r) == r # p /\ user[r].referrer # p

SetReferrer(p, c, r) ==
    /\ user[p].init /\ user[r].init
    /\ Owns(r, c)
    /\ MayRefer(p, r)
    /\ user[p].referrer = Nobody
    /\ user' = [user EXCEPT ![p].referrer = r, ![r].referees = @ + 1]
    /\ UNCHANGED <<code, promised>>

\* unchecked_transfer_code and unchecked_complete_code_transfer.
CanReceiveAny(p, r) == r # p /\ user[p].init /\ user[r].init
CanReceive(p, r) == /\ r # p
                    /\ user[p].init /\ user[r].init
                    /\ user[r].code = NoCode

TransferReferralCode(p, c, r) ==
    /\ Owns(p, c)
    /\ CanReceive(p, r)
    /\ code[c].next # r
    /\ code' = [code EXCEPT ![c].next = r]
    /\ promised' = [promised EXCEPT ![c] = r]
    /\ UNCHANGED user

CancelReferralCodeTransfer(p, c) ==
    /\ Owns(p, c)
    /\ code[c].next # p
    /\ code' = [code EXCEPT ![c].next = p]
    /\ promised' = [promised EXCEPT ![c] = Nobody]
    /\ UNCHANGED user

AcceptedSwapped(c, p, r) == [c EXCEPT !.owner = r, !.next = p]
Accepted(c, p, r) == [c EXCEPT !.owner = r]

AcceptReferralCode(p, c, r) ==
    /\ Owns(p, c)
    /\ CanReceive(p, r)
    /\ r = code[c].next
    /\ user' = [user EXCEPT ![r].code = c, ![p].code = NoCode]
    /\ code' = [code EXCEPT ![c] = Accepted(@, p, r)]
    /\ promised' = [promised EXCEPT ![c] = Nobody]

ReferralsNext ==
    \/ \E p \in People : PrepareUser(p)
    \/ \E c \in Codes :
         \/ MigrateReferralCode(c)
         \/ \E p \in People :
              \/ InitializeReferralCode(p, c)
              \/ CancelReferralCodeTransfer(p, c)
              \/ \E r \in People : \/ SetReferrer(p, c, r)
                                   \/ TransferReferralCode(p, c, r)
                                   \/ AcceptReferralCode(p, c, r)

ReferralsSpec == ReferralsInit /\ [][ReferralsNext]_referralVars

------------------------------------------------------------------------------
\* A code and its owner point to each other, however the code is offered,
\* offered again, taken back and accepted late: nobody loses a code to a
\* second one and two accounts never claim the same code.
CodesOwnedOnce ==
    /\ \A c \in Codes : code[c].version # "none" => user[code[c].owner].code = c
    /\ \A p \in People : user[p].code # NoCode => code[user[p].code].owner = p

GoesToPromised ==
    \A c \in Codes : (code[c].owner # Nobody /\ code'[c].owner # code[c].owner)
                        => code'[c].owner = promised[c]

\* A code changes hands only to whom its present owner has promised it, and
\* has not taken the promise back: an offer of an earlier owner is void.
TransfersArePromised == [][GoesToPromised]_referralVars

\* The count a referrer's rewards may be based on is the number of users it
\* referred, and nobody refers who referred them, although codes change
\* hands between the referrals.
ReferralsCounted ==
    \A p \in People :
      /\ user[p].referees = Cardinality({q \in People : user[q].referrer = p})
      /\ user[p].referrer # Nobody => user[user[p].referrer].referrer # p
==============================================================================
