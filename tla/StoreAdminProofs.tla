-------------------------- MODULE StoreAdminProofs --------------------------
(***************************************************************************)
(* What is proved about the administration of a store, for any people,     *)
(* roles, codes, tokens, prices and markets: referrals, the oracle, the    *)
(* configuration of markets, the lamports of orders on positions, and the  *)
(* tables of roles and members.                                            *)
(***************************************************************************)
EXTENDS StoreRoles, Referrals, Oracle, MarketConfig, PositionOrders, NumberTheorems

-----------------------------------------------------------------------------
(* Referrals.                                                              *)

UserAccounts == [init : BOOLEAN, code : Codes \cup {NoCode},
                 referrer : People \cup {Nobody}, referees : Nat]
CodeAccounts == [version : {"none", "v1", "v2"}, owner : People \cup {Nobody},
                 next : People \cup {Nobody}]

ReferralsTypeOK ==
    /\ user \in [People -> UserAccounts]
    /\ code \in [Codes -> CodeAccounts]

\* An account of a code has an owner, and whoever may take it over and is not
\* the owner was promised it.
CodesHaveOwners == \A c \in Codes : code[c].version = "none" <=> code[c].owner = Nobody
OffersArePromised ==
    \A c \in Codes : code[c].version = "v2" =>
                        code[c].next = code[c].owner \/ code[c].next = promised[c]

ReferralsInv ==
    /\ ReferralsTypeOK
    /\ promised \in [Codes -> People \cup {Nobody}]
    /\ CodesHaveOwners
    /\ OffersArePromised
    /\ CodesOwnedOnce
    /\ ReferralsCounted

LEMMA ReferralsInvInit == ReferralsInit => ReferralsInv
<1> SUFFICES ASSUME ReferralsInit PROVE ReferralsInv
  OBVIOUS
<1>1. ASSUME NEW p \in People
      PROVE  /\ user[p] \in UserAccounts
             /\ user[p].referrer = Nobody /\ user[p].referees = 0
             /\ user[p].code # NoCode =>
                   user[p].code \in DOMAIN Legacy /\ Legacy[user[p].code] = p
             /\ \A c \in DOMAIN Legacy : Legacy[c] = p => user[p].code = c
  <2>1. CASE \E c \in DOMAIN Legacy : Legacy[c] = p
    <3> DEFINE d == CHOOSE c \in DOMAIN Legacy : Legacy[c] = p
    <3>1. d \in DOMAIN Legacy /\ Legacy[d] = p
      BY <2>1
    <3>2. user[p] = [NoUserAccount EXCEPT !.init = TRUE, !.code = d]
      BY <2>1 DEF ReferralsInit
    <3>3. d \in Codes
      BY <3>1, ReferralsAssumption
    <3> HIDE DEF d
    <3>4. user[p] = [init |-> TRUE, code |-> d, referrer |-> Nobody, referees |-> 0]
      BY <3>2 DEF NoUserAccount
    <3>5. user[p] \in UserAccounts
      BY <3>3, <3>4 DEF UserAccounts
    <3>6. user[p].code = d /\ user[p].referrer = Nobody /\ user[p].referees = 0
      BY <3>4
    <3> QED BY <3>1, <3>5, <3>6, ReferralsAssumption
  <2>2. CASE ~\E c \in DOMAIN Legacy : Legacy[c] = p
    <3>1. user[p] = NoUserAccount
      BY <2>2 DEF ReferralsInit
    <3> QED BY <2>2, <3>1 DEF NoUserAccount, UserAccounts
  <2> QED BY <2>1, <2>2
<1>2. ASSUME NEW c \in Codes
      PROVE  /\ code[c] \in CodeAccounts
             /\ code[c].version # "v2"
             /\ c \in DOMAIN Legacy => code[c].owner = Legacy[c] /\ code[c].version = "v1"
             /\ c \notin DOMAIN Legacy => code[c].owner = Nobody /\ code[c].version = "none"
  BY ReferralsAssumption DEF ReferralsInit, NoCodeAccount, CodeAccounts
<1>3. ReferralsTypeOK
  BY <1>1, <1>2 DEF ReferralsInit, ReferralsTypeOK
<1>4. CodesHaveOwners /\ OffersArePromised
  BY <1>2, ReferralsAssumption DEF CodesHaveOwners, OffersArePromised
<1>5. CodesOwnedOnce
  BY <1>1, <1>2, ReferralsAssumption DEF CodesOwnedOnce
<1>6. ReferralsCounted
  <2>1. ASSUME NEW p \in People PROVE {q \in People : user[q].referrer = p} = {}
    BY <1>1, ReferralsAssumption
  <2> QED BY <1>1, <2>1, FS_EmptySet DEF ReferralsCounted
<1> QED BY <1>3, <1>4, <1>5, <1>6 DEF ReferralsInit, ReferralsInv

\* Owning a code, from both sides, as the accounts of an instruction require it.
LEMMA OwnsFacts ==
  ASSUME ReferralsInv, NEW p \in People, NEW c \in Codes, Owns(p, c)
  PROVE  /\ \A d \in Codes : code[d].owner = p => d = c
         /\ \A q \in People : user[q].code = c => q = p
<1>1. \A d \in Codes : code[d].owner = p => code[d].version # "none"
  BY ReferralsAssumption DEF ReferralsInv, CodesHaveOwners
<1> QED BY <1>1, ReferralsAssumption DEF ReferralsInv, CodesOwnedOnce, Owns

\* Steps that change only codes: who owns them and refers whom stays.
LEMMA CountedSame ==
  ASSUME ReferralsInv,
         \A p \in People : /\ user'[p].referrer = user[p].referrer
                           /\ user'[p].referees = user[p].referees
  PROVE  ReferralsCounted'
<1>1. ASSUME NEW p \in People
      PROVE  {q \in People : user'[q].referrer = p} = {q \in People : user[q].referrer = p}
  OBVIOUS
<1>2. \A p \in People : user[p].referrer \in People \cup {Nobody}
  BY DEF ReferralsInv, ReferralsTypeOK, UserAccounts
<1> SUFFICES ASSUME NEW p \in People
             PROVE  /\ user'[p].referees = Cardinality({q \in People : user'[q].referrer = p})
                    /\ user'[p].referrer # Nobody => user'[user'[p].referrer].referrer # p
  BY DEF ReferralsCounted
<1>3. user[p].referees = Cardinality({q \in People : user[q].referrer = p})
  BY DEF ReferralsInv, ReferralsCounted
<1>4. user[p].referrer # Nobody => user[user[p].referrer].referrer # p
  BY DEF ReferralsInv, ReferralsCounted
<1>5. user'[p].referees = Cardinality({q \in People : user'[q].referrer = p})
  BY <1>1, <1>3
<1>6. user'[p].referrer # Nobody => user'[user'[p].referrer].referrer # p
  BY <1>2, <1>4
<1> QED BY <1>5, <1>6

\* Steps that leave the codes and who refers whom alone.
LEMMA ReferralsSame ==
  ASSUME ReferralsInv, ReferralsTypeOK', UNCHANGED <<code, promised>>,
         \A p \in People : /\ user'[p].code = user[p].code
                           /\ user'[p].referrer = user[p].referrer
                           /\ user'[p].referees = user[p].referees
  PROVE  ReferralsInv'
<1>1. CodesHaveOwners' /\ OffersArePromised'
  BY DEF ReferralsInv, CodesHaveOwners, OffersArePromised
<1>2. CodesOwnedOnce'
  <2>1. \A c \in Codes : code[c].version # "none" => code[c].owner \in People
    BY DEF ReferralsInv, CodesHaveOwners, ReferralsTypeOK, CodeAccounts
  <2> QED BY <2>1 DEF ReferralsInv, CodesOwnedOnce
<1>3. ReferralsCounted'
  BY CountedSame
<1> QED BY <1>1, <1>2, <1>3 DEF ReferralsInv

LEMMA SetReferrerCounts ==
  ASSUME ReferralsInv, NEW p \in People, NEW c \in Codes, NEW r \in People, SetReferrer(p, c, r)
  PROVE  ReferralsInv'
<1>1. /\ r # p /\ user[r].referrer # p /\ user[p].referrer = Nobody
      /\ user' = [user EXCEPT ![p].referrer = r, ![r].referees = @ + 1]
      /\ UNCHANGED <<code, promised>>
  BY DEF SetReferrer, MayRefer
<1>2. user \in [People -> UserAccounts] /\ user[r].referees \in Nat
  BY DEF ReferralsInv, ReferralsTypeOK, UserAccounts
<1>3. /\ user'[p] = [user[p] EXCEPT !.referrer = r]
      /\ user'[r] = [user[r] EXCEPT !.referees = user[r].referees + 1]
      /\ \A q \in People \ {p, r} : user'[q] = user[q]
      /\ DOMAIN user' = People /\ user' = [q \in People |-> user'[q]]
  BY <1>1, <1>2
<1>4. /\ user'[p] \in UserAccounts /\ user'[r] \in UserAccounts
      /\ user'[p].code = user[p].code /\ user'[r].code = user[r].code
      /\ user'[p].referrer = r /\ user'[r].referrer = user[r].referrer
      /\ user'[p].referees = user[p].referees /\ user'[r].referees = user[r].referees + 1
  BY <1>2, <1>3 DEF UserAccounts
<1>5. ReferralsTypeOK'
  BY <1>1, <1>2, <1>3, <1>4 DEF ReferralsInv, ReferralsTypeOK
<1>6. CodesHaveOwners' /\ OffersArePromised'
  BY <1>1 DEF ReferralsInv, CodesHaveOwners, OffersArePromised
<1>7. CodesOwnedOnce'
  <2>1. \A q \in People : user'[q].code = user[q].code
    BY <1>3, <1>4
  <2>2. \A d \in Codes : code[d].version # "none" => code[d].owner \in People
    BY DEF ReferralsInv, CodesHaveOwners, ReferralsTypeOK, CodeAccounts
  <2> QED BY <1>1, <2>1, <2>2 DEF ReferralsInv, CodesOwnedOnce
<1>8. ReferralsCounted'
  <2> DEFINE Referred(x) == {q \in People : user[q].referrer = x}
             New(x) == {q \in People : user'[q].referrer = x}
  <2>1. New(r) = Referred(r) \cup {p} /\ p \notin Referred(r)
    BY <1>1, <1>3, <1>4, ReferralsAssumption
  <2>2. \A x \in People \ {r} : New(x) = Referred(x)
    BY <1>1, <1>3, <1>4, ReferralsAssumption
  <2>3. IsFiniteSet(Referred(r))
    BY FS_Subset, ReferralsAssumption
  <2> HIDE DEF New, Referred
  <2>4. Cardinality(New(r)) = Cardinality(Referred(r)) + 1
    BY <2>1, <2>3, FS_AddElement
  <2>5. \A x \in People : user[x].referees = Cardinality(Referred(x))
    BY DEF ReferralsInv, ReferralsCounted, Referred
  <2>6. \A x \in People : user'[x].referees = Cardinality(New(x))
    BY <1>1, <1>3, <1>4, <2>2, <2>4, <2>5
  <2>7. \A x \in People : user'[x].referrer # Nobody => user'[user'[x].referrer].referrer # x
    <3> SUFFICES ASSUME NEW x \in People, user'[x].referrer # Nobody,
                        user'[user'[x].referrer].referrer = x
                 PROVE  FALSE
      OBVIOUS
    <3>1. \A q \in People : user'[q].referrer = IF q = p THEN r ELSE user[q].referrer
      BY <1>1, <1>3, <1>4
    <3>2. \A q \in People : user[q].referrer \in People \cup {Nobody}
      BY <1>2 DEF UserAccounts
    <3>3. \A q \in People : user[q].referrer # Nobody => user[user[q].referrer].referrer # q
      BY DEF ReferralsInv, ReferralsCounted
    <3>4. CASE x = p
      BY <1>1, <3>1, <3>4
    <3>5. CASE x # p
      <4>1. user'[x].referrer = user[x].referrer /\ user[x].referrer \in People
        BY <3>1, <3>2, <3>5
      <4>2. CASE user[x].referrer = p
        BY <1>1, <3>1, <4>1, <4>2
      <4>3. CASE user[x].referrer # p
        BY <3>1, <3>3, <4>1, <4>3, ReferralsAssumption
      <4> QED BY <4>2, <4>3
    <3> QED BY <3>4, <3>5
  <2> QED BY <2>6, <2>7 DEF ReferralsCounted, New
<1> QED BY <1>1, <1>5, <1>6, <1>7, <1>8 DEF ReferralsInv

LEMMA ReferralsInvStep == ReferralsInv /\ [ReferralsNext]_referralVars => ReferralsInv'
<1> SUFFICES ASSUME ReferralsInv, [ReferralsNext]_referralVars PROVE ReferralsInv'
  OBVIOUS
<1>0. /\ user \in [People -> UserAccounts] /\ code \in [Codes -> CodeAccounts]
      /\ promised \in [Codes -> People \cup {Nobody}]
  BY DEF ReferralsInv, ReferralsTypeOK
<1>1. ASSUME NEW p \in People, PrepareUser(p) PROVE ReferralsInv'
  <2>1. user' = [user EXCEPT ![p] = [user[p] EXCEPT !.init = TRUE]] /\ UNCHANGED <<code, promised>>
    BY <1>1 DEF PrepareUser
  <2>2. [user[p] EXCEPT !.init = TRUE] \in UserAccounts
    BY <1>0 DEF UserAccounts
  <2>3. ReferralsTypeOK'
    BY <1>0, <2>1, <2>2 DEF ReferralsTypeOK
  <2>4. \A q \in People : /\ user'[q].code = user[q].code
                          /\ user'[q].referrer = user[q].referrer
                          /\ user'[q].referees = user[q].referees
    BY <1>0, <2>1 DEF UserAccounts
  <2> QED BY <2>1, <2>3, <2>4, ReferralsSame
<1>2. ASSUME NEW c \in Codes, MigrateReferralCode(c) PROVE ReferralsInv'
  <2> DEFINE p == code[c].owner
  <2>1. code[c].version = "v1" /\ code' = [code EXCEPT ![c] = NewCode(p)]
        /\ UNCHANGED <<user, promised>>
    BY <1>2 DEF MigrateReferralCode
  <2>2. p \in People
    BY <1>0, <2>1 DEF ReferralsInv, CodesHaveOwners, CodeAccounts
  <2>3. code'[c] = NewCode(p) /\ \A d \in Codes \ {c} : code'[d] = code[d]
    BY <1>0, <2>1
  <2>4. ReferralsTypeOK'
    BY <1>0, <2>1, <2>2 DEF ReferralsTypeOK, NewCode, CodeAccounts
  <2>5. CodesHaveOwners' /\ OffersArePromised'
    BY <2>1, <2>2, <2>3, ReferralsAssumption
       DEF ReferralsInv, CodesHaveOwners, OffersArePromised, NewCode
  <2>6. CodesOwnedOnce'
    BY <2>1, <2>3 DEF ReferralsInv, CodesOwnedOnce, NewCode
  <2>7. ReferralsCounted'
    BY <2>1, CountedSame
  <2> QED BY <1>0, <2>1, <2>4, <2>5, <2>6, <2>7 DEF ReferralsInv
<1>3. ASSUME NEW p \in People, NEW c \in Codes, InitializeReferralCode(p, c) PROVE ReferralsInv'
  <2>1. /\ code[c].version = "none" /\ user[p].code = NoCode
        /\ code' = [code EXCEPT ![c] = NewCode(p)]
        /\ user' = [user EXCEPT ![p] = [user[p] EXCEPT !.code = c]]
        /\ UNCHANGED promised
    BY <1>3 DEF InitializeReferralCode
  <2>2. code'[c] = NewCode(p) /\ \A d \in Codes \ {c} : code'[d] = code[d]
    BY <1>0, <2>1
  <2>3. user'[p] = [user[p] EXCEPT !.code = c] /\ \A q \in People \ {p} : user'[q] = user[q]
    BY <1>0, <2>1
  <2>4. /\ user'[p] \in UserAccounts /\ user'[p].code = c
        /\ user'[p].referrer = user[p].referrer /\ user'[p].referees = user[p].referees
    BY <1>0, <2>3 DEF UserAccounts
  <2>5. ReferralsTypeOK'
    <3>1. user' \in [People -> UserAccounts]
      BY <1>0, <2>1, <2>3, <2>4
    <3>2. code' \in [Codes -> CodeAccounts]
      BY <1>0, <2>1 DEF NewCode, CodeAccounts
    <3> QED BY <3>1, <3>2 DEF ReferralsTypeOK
  <2>6. CodesHaveOwners' /\ OffersArePromised'
    BY <2>1, <2>2, ReferralsAssumption
       DEF ReferralsInv, CodesHaveOwners, OffersArePromised, NewCode
  <2>7. CodesOwnedOnce'
    <3>1. code[c].owner = Nobody /\ \A q \in People : user[q].code # c
      BY <2>1, ReferralsAssumption DEF ReferralsInv, CodesHaveOwners, CodesOwnedOnce
    <3>2. \A d \in Codes : code[d].version # "none" => code[d].owner \in People /\ code[d].owner # p
      BY <1>0, <2>1, ReferralsAssumption
         DEF ReferralsInv, CodesHaveOwners, CodesOwnedOnce, CodeAccounts
    <3> QED BY <2>1, <2>2, <2>3, <2>4, <3>1, <3>2 DEF ReferralsInv, CodesOwnedOnce, NewCode
  <2>8. ReferralsCounted'
    BY <2>3, <2>4, CountedSame
  <2> QED BY <1>0, <2>1, <2>5, <2>6, <2>7, <2>8 DEF ReferralsInv
<1>4. ASSUME NEW c \in Codes, NEW x \in People, NEW y \in People \cup {Nobody}, UNCHANGED user,
             code' = [code EXCEPT ![c] = [code[c] EXCEPT !.next = x]],
             promised' = [promised EXCEPT ![c] = y], x = y \/ x = code[c].owner
      PROVE  ReferralsInv'
  <2>1. code'[c] = [code[c] EXCEPT !.next = x] /\ \A d \in Codes \ {c} : code'[d] = code[d]
    BY <1>0, <1>4
  <2>2. /\ code'[c] \in CodeAccounts /\ code'[c].next = x
        /\ code'[c].owner = code[c].owner /\ code'[c].version = code[c].version
    BY <1>0, <2>1 DEF CodeAccounts
  <2>3. ReferralsTypeOK' /\ promised' \in [Codes -> People \cup {Nobody}]
    BY <1>0, <1>4, <2>1, <2>2 DEF ReferralsTypeOK
  <2>4. CodesHaveOwners' /\ CodesOwnedOnce'
    BY <1>4, <2>1, <2>2 DEF ReferralsInv, CodesHaveOwners, CodesOwnedOnce
  <2>5. OffersArePromised'
    BY <1>0, <1>4, <2>1, <2>2 DEF ReferralsInv, OffersArePromised
  <2>6. ReferralsCounted'
    BY <1>4, CountedSame
  <2> QED BY <2>3, <2>4, <2>5, <2>6 DEF ReferralsInv
<1>5. ASSUME NEW p \in People, NEW c \in Codes, CancelReferralCodeTransfer(p, c) PROVE ReferralsInv'
  BY <1>4, <1>5 DEF CancelReferralCodeTransfer, Owns
<1>6. ASSUME NEW p \in People, NEW c \in Codes, NEW r \in People, TransferReferralCode(p, c, r)
      PROVE  ReferralsInv'
  BY <1>4, <1>6 DEF TransferReferralCode
<1>7. ASSUME NEW p \in People, NEW c \in Codes, NEW r \in People, SetReferrer(p, c, r)
      PROVE  ReferralsInv'
  BY <1>7, SetReferrerCounts
<1>8. ASSUME NEW p \in People, NEW c \in Codes, NEW r \in People, AcceptReferralCode(p, c, r)
      PROVE  ReferralsInv'
  <2>1. /\ Owns(p, c) /\ r # p /\ user[r].code = NoCode /\ r = code[c].next
        /\ user' = [user EXCEPT ![r].code = c, ![p].code = NoCode]
        /\ code' = [code EXCEPT ![c] = [code[c] EXCEPT !.owner = r]]
        /\ promised' = [promised EXCEPT ![c] = Nobody]
    BY <1>8 DEF AcceptReferralCode, CanReceive, Accepted
  <2>2. /\ user'[p] = [user[p] EXCEPT !.code = NoCode] /\ user'[r] = [user[r] EXCEPT !.code = c]
        /\ \A q \in People \ {p, r} : user'[q] = user[q]
        /\ user' = [q \in People |-> user'[q]]
    BY <1>0, <2>1
  <2>3. /\ user'[p] \in UserAccounts /\ user'[r] \in UserAccounts
        /\ user'[p].code = NoCode /\ user'[r].code = c
        /\ user'[p].referrer = user[p].referrer /\ user'[p].referees = user[p].referees
        /\ user'[r].referrer = user[r].referrer /\ user'[r].referees = user[r].referees
    BY <1>0, <2>2 DEF UserAccounts
  <2>4. code'[c] = [code[c] EXCEPT !.owner = r] /\ \A d \in Codes \ {c} : code'[d] = code[d]
    BY <1>0, <2>1
  <2>5. /\ code'[c] \in CodeAccounts /\ code'[c].owner = r /\ code'[c].next = r
        /\ code'[c].version = "v2"
    BY <1>0, <2>1, <2>4 DEF CodeAccounts, Owns
  <2>6. ReferralsTypeOK' /\ promised' \in [Codes -> People \cup {Nobody}]
    <3>1. user' \in [People -> UserAccounts]
      BY <1>0, <2>2, <2>3
    <3>2. code' \in [Codes -> CodeAccounts]
      BY <1>0, <2>1, <2>4, <2>5
    <3> QED BY <1>0, <2>1, <3>1, <3>2 DEF ReferralsTypeOK
  <2>7. CodesHaveOwners' /\ OffersArePromised'
    BY <1>0, <2>1, <2>4, <2>5, ReferralsAssumption
       DEF ReferralsInv, CodesHaveOwners, OffersArePromised
  <2>8. CodesOwnedOnce'
    <3>1. /\ \A d \in Codes : code[d].owner = p => d = c
          /\ \A q \in People : user[q].code = c => q = p
      BY <2>1, OwnsFacts
    <3>2. \A d \in Codes : code[d].version # "none" =>
             code[d].owner \in People /\ code[d].owner # r /\ user[code[d].owner].code = d
      BY <1>0, <2>1, ReferralsAssumption
         DEF ReferralsInv, CodesHaveOwners, CodesOwnedOnce, CodeAccounts
    <3>3. \A d \in Codes : code'[d].version # "none" => user'[code'[d].owner].code = d
      <4> SUFFICES ASSUME NEW d \in Codes, code'[d].version # "none"
                   PROVE  user'[code'[d].owner].code = d
        OBVIOUS
      <4>1. CASE d = c
        BY <2>3, <2>5, <4>1
      <4>2. CASE d # c
        <5>1. code'[d] = code[d]
          BY <2>4, <4>2
        <5>2. code[d].owner \in People \ {p, r} /\ user[code[d].owner].code = d
          BY <3>1, <3>2, <4>2, <5>1
        <5> QED BY <2>2, <5>1, <5>2
      <4> QED BY <4>1, <4>2
    <3>4. \A q \in People : user'[q].code # NoCode => code'[user'[q].code].owner = q
      <4> SUFFICES ASSUME NEW q \in People, user'[q].code # NoCode
                   PROVE  code'[user'[q].code].owner = q
        OBVIOUS
      <4>1. CASE q = r
        BY <2>3, <2>5, <4>1
      <4>2. CASE q # r
        <5>1. q # p /\ user'[q] = user[q] /\ user[q].code \in Codes /\ user[q].code # c
          BY <1>0, <2>2, <2>3, <3>1, <4>2 DEF UserAccounts
        <5> QED BY <2>4, <5>1 DEF ReferralsInv, CodesOwnedOnce
      <4> QED BY <4>1, <4>2
    <3> QED BY <3>3, <3>4 DEF CodesOwnedOnce
  <2>9. ReferralsCounted'
    BY <2>2, <2>3, CountedSame
  <2> QED BY <2>6, <2>7, <2>8, <2>9 DEF ReferralsInv
<1>9. CASE UNCHANGED referralVars
  BY <1>0, <1>9, ReferralsSame DEF referralVars, ReferralsTypeOK
<1> QED BY <1>1, <1>2, <1>3, <1>5, <1>6, <1>7, <1>8, <1>9 DEF ReferralsNext

\* A code changes its owner only when it is accepted, and only towards whom
\* it is offered to.
LEMMA ReferralsStepPromised ==
  ReferralsInv /\ [ReferralsNext]_referralVars => GoesToPromised
<1> SUFFICES ASSUME ReferralsInv, [ReferralsNext]_referralVars PROVE GoesToPromised
  OBVIOUS
<1>0. code \in [Codes -> CodeAccounts]
  BY DEF ReferralsInv, ReferralsTypeOK
<1>1. ASSUME UNCHANGED code PROVE GoesToPromised
  BY <1>1 DEF GoesToPromised
<1>2. ASSUME NEW c \in Codes, MigrateReferralCode(c) PROVE GoesToPromised
  BY <1>0, <1>2 DEF MigrateReferralCode, NewCode, GoesToPromised
<1>3. ASSUME NEW c \in Codes, NEW p \in People, InitializeReferralCode(p, c) PROVE GoesToPromised
  <2>1. code[c].owner = Nobody
    BY <1>3 DEF InitializeReferralCode, ReferralsInv, CodesHaveOwners
  <2> QED BY <1>0, <1>3, <2>1 DEF InitializeReferralCode, GoesToPromised
<1>4. ASSUME NEW c \in Codes, NEW x, code' = [code EXCEPT ![c].next = x] PROVE GoesToPromised
  BY <1>0, <1>4 DEF GoesToPromised, CodeAccounts
<1>5. ASSUME NEW c \in Codes, NEW p \in People, NEW r \in People, AcceptReferralCode(p, c, r)
      PROVE  GoesToPromised
  <2>1. /\ code[c].version = "v2" /\ code[c].owner = p /\ r # p /\ r = code[c].next
        /\ code' = [code EXCEPT ![c] = [code[c] EXCEPT !.owner = r]]
    BY <1>5 DEF AcceptReferralCode, Accepted, CanReceive, Owns
  <2>2. r = promised[c]
    BY <2>1 DEF ReferralsInv, OffersArePromised
  <2>3. code'[c].owner = r /\ \A d \in Codes \ {c} : code'[d] = code[d]
    BY <1>0, <2>1 DEF CodeAccounts
  <2> QED BY <2>2, <2>3 DEF GoesToPromised
<1> QED BY <1>1, <1>2, <1>3, <1>4, <1>5
    DEF ReferralsNext, referralVars, PrepareUser, CancelReferralCodeTransfer, SetReferrer,
        TransferReferralCode

\* The invariant of the referral accounts.
THEOREM ReferralsInvariant == ReferralsSpec => []ReferralsInv
<1> QED BY ReferralsInvInit, ReferralsInvStep, PTL DEF ReferralsSpec

\* However codes are offered, taken back and accepted by any number of people,
\* a code and its owner point to each other.
THEOREM CodesAreOwnedOnce == ReferralsSpec => []CodesOwnedOnce
<1>1. ReferralsInv => CodesOwnedOnce
  BY DEF ReferralsInv
<1> QED BY <1>1, ReferralsInvariant, PTL

\* The number of referees of an account is the number of users it referred,
\* and nobody refers who referred them.
THEOREM ReferralsAreCounted == ReferralsSpec => []ReferralsCounted
<1>1. ReferralsInv => ReferralsCounted
  BY DEF ReferralsInv
<1> QED BY <1>1, ReferralsInvariant, PTL

\* accept_referral_code gives a code only to whom its present owner offers it.
THEOREM OnlyPromisedTransfers == ReferralsSpec => TransfersArePromised
<1> QED BY ReferralsInvariant, ReferralsStepPromised, PTL DEF ReferralsSpec, TransfersArePromised

-----------------------------------------------------------------------------
(* The oracle.                                                             *)

FeedAccounts == [exists : BOOLEAN, open : BOOLEAN, ts : Nat, slot : Nat, publishedAt : Nat]
PositionTimes == [open : BOOLEAN, increasedAt : Nat, decreasedAt : Nat]
Requests == [kind : Kinds, updatedAt : Nat, slot : Nat, validFrom : Nat,
             trigger : Triggers \union {0}]

OracleTypeOK ==
    /\ clockSlot \in Nat
    /\ DOMAIN tokenMap \subseteq Tokens
    /\ \A t \in DOMAIN tokenMap : tokenMap[t] \in TokenConfigs
    /\ amounts \in Amounts
    /\ priceFeeds \in [CustomFeeds -> FeedAccounts]
    /\ request # NoRequest => request \in Requests
    /\ position \in PositionTimes
    /\ controllerHolds \in BOOLEAN

OracleInv == OracleTypeOK /\ PricesNotLeftBehind /\ ExecutedOnFreshPrices

LEMMA NowIsNat == OracleTypeOK => Now \in Nat
BY OracleAssumption DEF OracleTypeOK, Now

\* What an account of a feed shows has a time and a slot.
LEMMA ObservationsTyped ==
  ASSUME OracleTypeOK, NEW f, NEW provider, NEW o \in Observations(f, provider)
  PROVE  o.ts \in Nat /\ o.slot \in Nat
<1>1. Now \in Nat /\ clockSlot \in Nat
  BY NowIsNat DEF OracleTypeOK
<1>2. CASE provider = "ChainlinkDataStreams"
  <2>1. f \in CustomFeeds /\ o = [ts |-> priceFeeds[f].ts, slot |-> priceFeeds[f].slot]
    BY <1>2 DEF Observations, PriceFeedObservations
  <2>2. priceFeeds[f].ts \in Nat /\ priceFeeds[f].slot \in Nat
    BY <2>1 DEF OracleTypeOK, FeedAccounts
  <2> QED BY <2>1, <2>2
<1>3. CASE provider # "ChainlinkDataStreams"
  <2>1. o \in [ts : 0..Now, slot : 0..clockSlot]
    BY <1>3 DEF Observations, ExternalObservations
  <2>2. o.ts \in 0..Now /\ o.slot \in 0..clockSlot
    BY <2>1
  <2> QED BY <1>1, <2>2
<1> QED BY <1>2, <1>3

\* What the checks of Oracle::set_prices_from_remaining_accounts establish.
LEMMA LoadableFacts ==
  ASSUME OracleTypeOK, NEW tokens \in SUBSET Tokens, NEW observed \in Loadable(tokens)
  PROVE  /\ oracle.cleared
         /\ DOMAIN observed = tokens /\ tokens # {}
         /\ \A t \in tokens : /\ observed[t].ts \in Nat /\ observed[t].slot \in Nat
                              /\ AdjustedTs(t, observed[t]) \in Int
                              /\ AdjustedTs(t, observed[t]) <= observed[t].ts
                              /\ ValidateOne(t, observed[t])
         /\ InRange(observed)
<1> DEFINE accepted == [t \in tokens |-> AcceptablePrices(t)]
<1>1. /\ tokens # {} /\ oracle.cleared
      /\ \A t \in tokens : HasFeed(t)
      /\ observed \in {x \in [tokens -> UNION {accepted[t] : t \in tokens}] :
                         (\A t \in tokens : x[t] \in accepted[t]) /\ InRange(x)}
  BY DEF Loadable
<1>2. DOMAIN observed = tokens /\ InRange(observed)
      /\ \A t \in tokens : observed[t] \in accepted[t]
  BY <1>1
<1>3. ASSUME NEW t \in tokens
      PROVE  /\ observed[t].ts \in Nat /\ observed[t].slot \in Nat
             /\ AdjustedTs(t, observed[t]) \in Int
             /\ AdjustedTs(t, observed[t]) <= observed[t].ts
             /\ ValidateOne(t, observed[t])
  <2>1. observed[t] \in AcceptablePrices(t)
    BY <1>2
  <2>2. observed[t] \in Observations(ExpectedFeed(t).feed, tokenMap[t].provider)
        /\ ValidateOne(t, observed[t])
    BY <2>1 DEF AcceptablePrices
  <2>3. observed[t].ts \in Nat /\ observed[t].slot \in Nat
    BY <2>2, ObservationsTyped
  <2>4. tokenMap[t] \in TokenConfigs
    BY <1>1 DEF HasFeed, OracleTypeOK
  <2>5. ExpectedFeed(t) \in FeedConfigs
    BY <2>4 DEF ExpectedFeed, TokenConfigs
  <2>6. ExpectedFeed(t).adjustment \in Nat
    BY <2>5 DEF FeedConfigs
  <2> QED BY <2>2, <2>3, <2>6 DEF AdjustedTs
<1> QED BY <1>1, <1>2, <1>3

\* The window merged over the tokens encloses the time of each.
LEMMA MergedWindow ==
  ASSUME OracleTypeOK, NEW tokens \in SUBSET Tokens, NEW observed \in Loadable(tokens)
  PROVE  /\ MinTs(observed) \in Int /\ MaxTs(observed) \in Int /\ MinSlot(observed) \in Int
         /\ \A t \in tokens : /\ MinTs(observed) <= AdjustedTs(t, observed[t])
                              /\ AdjustedTs(t, observed[t]) <= MaxTs(observed)
                              /\ MinSlot(observed) <= observed[t].slot
<1> DEFINE adjusted == [t \in tokens |-> AdjustedTs(t, observed[t])]
           slots == [t \in tokens |-> observed[t].slot]
           A == {AdjustedTs(t, observed[t]) : t \in tokens}
           S == {observed[t].slot : t \in tokens}
<1>1. /\ DOMAIN observed = tokens /\ tokens # {}
      /\ \A t \in tokens : AdjustedTs(t, observed[t]) \in Int /\ observed[t].slot \in Nat
  BY LoadableFacts
<1>2. IsFiniteSet(tokens)
  BY FS_Subset, OracleAssumption
<1>3. IsFiniteSet(A)
  <2>1. IsFiniteSet({adjusted[t] : t \in tokens})
    BY <1>2, FiniteImage
  <2>2. {adjusted[t] : t \in tokens} = A
    OBVIOUS
  <2> QED BY <2>1, <2>2
<1>4. IsFiniteSet(S)
  <2>1. IsFiniteSet({slots[t] : t \in tokens})
    BY <1>2, FiniteImage
  <2>2. {slots[t] : t \in tokens} = S
    OBVIOUS
  <2> QED BY <2>1, <2>2
<1>5. A \subseteq Int /\ A # {} /\ S \subseteq Int /\ S # {}
  BY <1>1
<1>6. MinTs(observed) = Min(A) /\ MaxTs(observed) = Max(A) /\ MinSlot(observed) = Min(S)
  BY <1>1 DEF MinTs, MaxTs, MinSlot
<1>7. \A t \in tokens : AdjustedTs(t, observed[t]) \in A /\ observed[t].slot \in S
  OBVIOUS
<1> HIDE DEF A, S
<1>8. /\ Min(A) \in A /\ \A x \in A : Min(A) <= x
      /\ Max(A) \in A /\ \A x \in A : x <= Max(A)
  BY <1>3, <1>5, MinOfFinite, MaxOfFinite
<1>9. Min(S) \in S /\ \A x \in S : Min(S) <= x
  BY <1>4, <1>5, MinOfFinite
<1> QED BY <1>5, <1>6, <1>7, <1>8, <1>9

\* Max of two and of three times.
LEMMA LatestOfTwo ==
  ASSUME NEW a \in Nat, NEW b \in Nat
  PROVE  Latest({a, b}) \in Nat /\ a <= Latest({a, b}) /\ b <= Latest({a, b})
<1>1. IsFiniteSet({a}) /\ {a, b} = {a} \cup {b}
  BY FS_Singleton
<1>2. IsFiniteSet({a, b}) /\ {a, b} \subseteq Int
  BY <1>1, FS_AddElement
<1>3. Max({a, b}) \in {a, b} /\ \A x \in {a, b} : x <= Max({a, b})
  BY <1>2, MaxOfFinite
<1> QED BY <1>3 DEF Latest

LEMMA LatestOfThree ==
  ASSUME NEW a \in Nat, NEW b \in Nat, NEW c \in Nat
  PROVE  /\ Latest({a, b, c}) \in Nat
         /\ a <= Latest({a, b, c}) /\ b <= Latest({a, b, c}) /\ c <= Latest({a, b, c})
<1>1. IsFiniteSet({a}) /\ {a, b} = {a} \cup {b} /\ {a, b, c} = {a, b} \cup {c}
  BY FS_Singleton
<1>2. IsFiniteSet({a, b})
  BY <1>1, FS_AddElement
<1>3. IsFiniteSet({a, b, c}) /\ {a, b, c} \subseteq Int
  BY <1>1, <1>2, FS_AddElement
<1>4. Max({a, b, c}) \in {a, b, c} /\ \A x \in {a, b, c} : x <= Max({a, b, c})
  BY <1>3, MaxOfFinite
<1> QED BY <1>4 DEF Latest

\* What Oracle::validate_time establishes for each token: the merged window
\* lies after the request and the position, so the time of every token does.
LEMMA AfterValidateTime ==
  ASSUME OracleTypeOK, NEW kind, request # NoRequest \/ kind = "Liquidation",
         kind = request.kind \/ kind = "Liquidation",
         NEW tokens \in SUBSET Tokens, NEW observed \in Loadable(tokens),
         NotTooEarly(kind, LoadedOracle(observed)), NEW t \in tokens
  PROVE  /\ kind \notin CutKinds => /\ observed[t].ts >= request.updatedAt
                                    /\ observed[t].slot >= request.slot
         /\ kind \in LimitKinds => observed[t].ts >= request.validFrom
         /\ kind \in DecreaseKinds \union {"Liquidation"} =>
                observed[t].ts >= position.increasedAt
         /\ kind = "Liquidation" => observed[t].ts >= position.decreasedAt
<1>1. /\ MinTs(observed) \in Int /\ MinSlot(observed) \in Int
      /\ MinTs(observed) <= AdjustedTs(t, observed[t]) /\ MinSlot(observed) <= observed[t].slot
  BY MergedWindow
<1>2. /\ observed[t].ts \in Nat /\ observed[t].slot \in Nat
      /\ AdjustedTs(t, observed[t]) \in Int /\ AdjustedTs(t, observed[t]) <= observed[t].ts
  BY LoadableFacts
<1>3. MinTs(observed) <= observed[t].ts
  BY <1>1, <1>2
<1>4. /\ kind \notin CutKinds => MinSlot(observed) >= request.slot
      /\ kind # "AutoDeleveraging" => MinTs(observed) >= OracleUpdatedAfter(kind)
  BY DEF NotTooEarly, LoadedOracle
<1>5. position.increasedAt \in Nat /\ position.decreasedAt \in Nat
  BY DEF OracleTypeOK, PositionTimes
<1>6. CASE kind = "Liquidation"
  <2>1. OracleUpdatedAfter(kind) = Latest({position.increasedAt, position.decreasedAt})
    BY <1>6 DEF OracleUpdatedAfter
  <2>2. /\ Latest({position.increasedAt, position.decreasedAt}) \in Nat
        /\ position.increasedAt <= Latest({position.increasedAt, position.decreasedAt})
        /\ position.decreasedAt <= Latest({position.increasedAt, position.decreasedAt})
    BY <1>5, LatestOfTwo
  <2>3. position.increasedAt <= observed[t].ts /\ position.decreasedAt <= observed[t].ts
    BY <1>1, <1>2, <1>3, <1>4, <1>5, <1>6, <2>1, <2>2
  <2> QED BY <1>2, <1>5, <1>6, <2>3 DEF CutKinds, LimitKinds, DecreaseKinds
<1>7. CASE kind # "Liquidation"
  <2> DEFINE u == request.updatedAt  v == request.validFrom  p == position.increasedAt
             m == OracleUpdatedAfter(kind)
  <2>1. request \in Requests /\ kind = request.kind
    BY <1>7 DEF OracleTypeOK
  <2>2. u \in Nat /\ v \in Nat /\ request.slot \in Nat /\ kind \notin CutKinds
    BY <2>1, OracleAssumption DEF Requests
  <2>3. /\ Latest({u, p, v}) \in Nat /\ u <= Latest({u, p, v}) /\ p <= Latest({u, p, v})
        /\ v <= Latest({u, p, v})
    BY <1>5, <2>2, LatestOfThree
  <2>4. /\ Latest({u, v}) \in Nat /\ u <= Latest({u, v}) /\ v <= Latest({u, v})
        /\ Latest({u, p}) \in Nat /\ u <= Latest({u, p}) /\ p <= Latest({u, p})
    BY <1>5, <2>2, LatestOfTwo
  <2>5. /\ kind = "MarketDecrease" => m = Latest({u, p})
        /\ kind \in {"LimitDecrease", "StopLossDecrease"} => m = Latest({u, p, v})
        /\ kind \in {"LimitSwap", "LimitIncrease"} => m = Latest({u, v})
        /\ kind \notin {"MarketDecrease", "LimitDecrease", "StopLossDecrease",
                        "LimitSwap", "LimitIncrease"} => m = u
    BY <1>7 DEF OracleUpdatedAfter
  <2>6. MinTs(observed) >= m /\ MinSlot(observed) >= request.slot
    BY <1>4, <2>2 DEF CutKinds
  <2> HIDE DEF u, v, p, m
  <2>7. u <= m /\ m \in Int
    BY <2>2, <2>3, <2>4, <2>5
  <2>8. kind \in LimitKinds => v <= m
    BY <2>3, <2>4, <2>5 DEF LimitKinds
  <2>9. kind \in DecreaseKinds => p <= m
    BY <2>3, <2>4, <2>5 DEF DecreaseKinds
  <2>10. p \in Nat
    BY <1>5 DEF p
  <2>11. /\ observed[t].ts >= u /\ observed[t].slot >= request.slot
         /\ kind \in LimitKinds => observed[t].ts >= v
         /\ kind \in DecreaseKinds => observed[t].ts >= p
    BY <1>1, <1>2, <1>3, <2>2, <2>6, <2>7, <2>8, <2>9, <2>10
  <2> QED BY <1>7, <2>11 DEF u, v, p
<1> QED BY <1>6, <1>7

\* An instruction that runs with prices and leaves the clock and the
\* configuration alone.
LEMMA UsesFreshPrices ==
  ASSUME OracleTypeOK, NEW kind, NEW tokens \in SUBSET Tokens, NEW observed \in Loadable(tokens),
         used' = Use(kind, observed), UNCHANGED <<clockSlot, feedState>>,
         \/ /\ kind = request.kind /\ request # NoRequest
            /\ NotTooEarly(kind, LoadedOracle(observed))
            /\ NotExpired(kind, LoadedOracle(observed))
         \/ kind = "Liquidation" /\ NotTooEarly(kind, LoadedOracle(observed))
         \/ kind \in OtherUses \union {"AutoDeleveraging"}
  PROVE  ExecutedOnFreshPrices'
<1>1. /\ used'.kind = kind /\ used'.observed = observed /\ used'.request = request
      /\ used'.position = position
  BY DEF Use
<1>2. Now' = Now /\ amounts' = amounts /\ tokenMap' = tokenMap
  BY DEF Now, feedState
<1>3. DOMAIN observed = tokens
  BY LoadableFacts
<1> SUFFICES ASSUME NEW t \in tokens
             PROVE  /\ Fresh(observed[t])'
                    /\ \A u \in tokens : CloseTogether(t, u)'
                    /\ kind \in Kinds => AfterRequest(observed[t])'
                    /\ kind \in Kinds \ LimitKinds => BeforeExpiration(t)'
                    /\ kind \in DecreaseKinds \union {"Liquidation"} => AfterPosition(observed[t])'
  BY <1>1, <1>3 DEF ExecutedOnFreshPrices
<1>4. \A u \in tokens : /\ observed[u].ts \in Nat /\ observed[u].slot \in Nat
                        /\ AdjustedTs(u, observed[u]) \in Int
                        /\ AdjustedTs(u, observed[u]) <= observed[u].ts
                        /\ ValidateOne(u, observed[u])
  BY LoadableFacts
<1>5. /\ amounts.oracle_max_age \in Nat /\ amounts.oracle_max_future_timestamp_excess \in Nat
      /\ amounts.oracle_max_timestamp_range \in Nat /\ amounts.request_expiration \in Nat
      /\ Now \in Nat
  BY NowIsNat DEF OracleTypeOK, Amounts
<1>6. /\ MinTs(observed) \in Int /\ MaxTs(observed) \in Int
      /\ \A u \in tokens : /\ MinTs(observed) <= AdjustedTs(u, observed[u])
                           /\ AdjustedTs(u, observed[u]) <= MaxTs(observed)
  BY MergedWindow
<1>7. \A u \in tokens : AdjustedTs(u, observed[u])' = AdjustedTs(u, observed[u])
  BY <1>2 DEF AdjustedTs, ExpectedFeed
<1>8. Fresh(observed[t])'
  BY <1>2, <1>4, <1>5 DEF Fresh, ValidateOne
<1>9. ASSUME NEW u \in tokens PROVE CloseTogether(t, u)'
  <2>1. MaxTs(observed) - MinTs(observed) <= amounts.oracle_max_timestamp_range
    BY LoadableFacts DEF InRange
  <2>2. AdjustedTs(t, observed[t]) - AdjustedTs(u, observed[u])
           <= amounts.oracle_max_timestamp_range
    BY <1>4, <1>5, <1>6, <2>1
  <2> QED BY <1>1, <1>2, <2>2 DEF CloseTogether, AdjustedTs, ExpectedFeed
<1>10. CASE kind = request.kind /\ request # NoRequest
            /\ NotTooEarly(kind, LoadedOracle(observed)) /\ NotExpired(kind, LoadedOracle(observed))
  <2>1. request \in Requests /\ kind \in Kinds /\ kind \notin CutKinds
    BY <1>10, OracleAssumption DEF OracleTypeOK, Requests
  <2>2. /\ observed[t].ts >= request.updatedAt /\ observed[t].slot >= request.slot
        /\ kind \in LimitKinds => observed[t].ts >= request.validFrom
        /\ kind \in DecreaseKinds => observed[t].ts >= position.increasedAt
    BY <1>10, <2>1, AfterValidateTime
  <2>3. AfterRequest(observed[t])'
    BY <1>1, <2>2 DEF AfterRequest
  <2>4. kind \in DecreaseKinds => AfterPosition(observed[t])'
    BY <1>1, <2>1, <2>2 DEF AfterPosition, CutKinds
  <2>5. ASSUME kind \notin LimitKinds PROVE BeforeExpiration(t)'
    <3>1. MaxTs(observed) <= request.updatedAt + amounts.request_expiration
      BY <1>10, <2>1, <2>5 DEF NotExpired, Expires, RequestExpirationAt, LoadedOracle
    <3>2. request.updatedAt \in Nat
      BY <2>1 DEF Requests
    <3>3. AdjustedTs(t, observed[t]) <= request.updatedAt + amounts.request_expiration
      BY <1>4, <1>5, <1>6, <3>1, <3>2
    <3> QED BY <1>1, <1>2, <3>3 DEF BeforeExpiration, AdjustedTs, ExpectedFeed
  <2> QED BY <1>8, <1>9, <2>1, <2>3, <2>4, <2>5 DEF CutKinds
<1>11. CASE kind = "Liquidation" /\ NotTooEarly(kind, LoadedOracle(observed))
  <2>1. kind \notin Kinds
    BY <1>11, OracleAssumption DEF CutKinds
  <2>2. observed[t].ts >= position.increasedAt /\ observed[t].ts >= position.decreasedAt
    BY <1>11, AfterValidateTime
  <2> QED BY <1>1, <1>8, <1>9, <2>1, <2>2 DEF AfterPosition
<1>12. CASE kind \in OtherUses \union {"AutoDeleveraging"}
  <2>1. kind \notin Kinds /\ kind \notin DecreaseKinds \union {"Liquidation"}
    BY <1>12, OracleAssumption DEF CutKinds, OtherUses, DecreaseKinds
  <2> QED BY <1>8, <1>9, <2>1
<1> QED BY <1>10, <1>11, <1>12

LEMMA OracleInvInit == OracleInit => OracleInv
<1> SUFFICES ASSUME OracleInit PROVE OracleInv
  OBVIOUS
<1>1. PICK known \in InitialTokens : tokenMap = [t \in known |-> InitialConfig[t]]
  BY DEF OracleInit
<1>2. known \subseteq Tokens
  BY <1>1, ConfigurationAssumption
<1>3. DOMAIN tokenMap \subseteq Tokens /\ \A t \in DOMAIN tokenMap : tokenMap[t] \in TokenConfigs
  BY <1>1, <1>2, ConfigurationAssumption
<1>4. priceFeeds \in [CustomFeeds -> FeedAccounts] /\ position \in PositionTimes
  BY DEF OracleInit, NoFeedAccount, FeedAccounts, NoPosition, PositionTimes
<1>5. OracleTypeOK
  BY <1>3, <1>4, ConfigurationAssumption DEF OracleInit, OracleTypeOK
<1>6. PricesNotLeftBehind /\ ExecutedOnFreshPrices
  BY DEF OracleInit, PricesNotLeftBehind, ExecutedOnFreshPrices
<1> QED BY <1>5, <1>6 DEF OracleInv

\* Changes of the token map and of the amounts.
LEMMA ConfigureTyped ==
  ASSUME OracleTypeOK, NEW map, NEW new, Configure(map, new),
         DOMAIN map \subseteq Tokens, \A t \in DOMAIN map : map[t] \in TokenConfigs,
         new \in Amounts
  PROVE  OracleTypeOK' /\ used' = NoUse /\ UNCHANGED <<oracle, controllerHolds>>
BY DEF Configure, OracleTypeOK

LEMMA ConfigureTokensTyped ==
  ASSUME OracleTypeOK, ConfigureTokens
  PROVE  OracleTypeOK' /\ used' = NoUse /\ UNCHANGED <<oracle, controllerHolds>>
<1> DEFINE Goal == OracleTypeOK' /\ used' = NoUse /\ UNCHANGED <<oracle, controllerHolds>>
<1>0. /\ DOMAIN tokenMap \subseteq Tokens /\ \A t \in DOMAIN tokenMap : tokenMap[t] \in TokenConfigs
      /\ amounts \in Amounts
  BY DEF OracleTypeOK
<1>1. ASSUME NEW t \in Tokens, NEW c \in ConfigChoices, NEW new \in BOOLEAN, PushWith(t, c, new)
      PROVE  Goal
  <2> DEFINE map == [u \in DOMAIN tokenMap \union {t} |-> IF u = t THEN c ELSE tokenMap[u]]
  <2>1. DOMAIN map \subseteq Tokens /\ \A u \in DOMAIN map : map[u] \in TokenConfigs
    BY <1>0, ConfigurationAssumption
  <2>2. Configure(map, amounts)
    BY <1>1 DEF PushWith
  <2> HIDE DEF map
  <2> QED BY <1>0, <2>1, <2>2, ConfigureTyped
<1>2. ASSUME NEW t \in DOMAIN tokenMap, NEW c \in TokenConfigs,
             Configure([tokenMap EXCEPT ![t] = c], amounts)
      PROVE  Goal
  <2> DEFINE map == [tokenMap EXCEPT ![t] = c]
  <2>1. DOMAIN map \subseteq Tokens /\ \A u \in DOMAIN map : map[u] \in TokenConfigs
    BY <1>0
  <2> HIDE DEF map
  <2> QED BY <1>0, <1>2, <2>1, ConfigureTyped DEF map
<1>3. ASSUME NEW t \in Tokens, NEW enable \in BOOLEAN, ToggleTokenConfig(t, enable) PROVE Goal
  <2>1. t \in DOMAIN tokenMap
        /\ Configure([tokenMap EXCEPT ![t] = [tokenMap[t] EXCEPT !.enabled = enable]], amounts)
    BY <1>3 DEF ToggleTokenConfig
  <2>2. [tokenMap[t] EXCEPT !.enabled = enable] \in TokenConfigs
    BY <1>0, <2>1 DEF TokenConfigs
  <2> QED BY <1>2, <2>1, <2>2
<1>4. ASSUME NEW t \in Tokens, NEW provider \in Providers, SetExpectedProviderOf(t, provider)
      PROVE  Goal
  <2>1. t \in DOMAIN tokenMap
        /\ Configure([tokenMap EXCEPT ![t] = [tokenMap[t] EXCEPT !.provider = provider]], amounts)
    BY <1>4 DEF SetExpectedProviderOf
  <2>2. [tokenMap[t] EXCEPT !.provider = provider] \in TokenConfigs
    BY <1>0, <2>1 DEF TokenConfigs
  <2> QED BY <1>2, <2>1, <2>2
<1>5. ASSUME NEW t \in Tokens, NEW provider \in Providers, NEW f \in FeedChoices,
             SetFeedConfig(t, provider, f)
      PROVE  Goal
  <2> DEFINE feeds == [tokenMap[t].feeds EXCEPT ![provider] = f]
  <2>1. t \in DOMAIN tokenMap
        /\ Configure([tokenMap EXCEPT ![t] = [tokenMap[t] EXCEPT !.feeds = feeds]], amounts)
    BY <1>5 DEF SetFeedConfig
  <2>2. feeds \in [Providers -> FeedConfigs]
    BY <1>0, <2>1, ConfigurationAssumption DEF TokenConfigs
  <2> HIDE DEF feeds
  <2>3. [tokenMap[t] EXCEPT !.feeds = feeds] \in TokenConfigs
    BY <1>0, <2>1, <2>2 DEF TokenConfigs
  <2> QED BY <1>2, <2>1, <2>3
<1> QED BY <1>1, <1>3, <1>4, <1>5 DEF ConfigureTokens, PushToTokenMap, PushToTokenMapSynthetic

\* Steps that run with no prices and leave the oracle account alone.
LEMMA OracleUntouched ==
  ASSUME OracleInv, OracleTypeOK', used' = NoUse, UNCHANGED <<oracle, controllerHolds>>
  PROVE  OracleInv'
<1>1. PricesNotLeftBehind'
  BY DEF OracleInv, PricesNotLeftBehind
<1>2. ExecutedOnFreshPrices'
  BY DEF ExecutedOnFreshPrices
<1> QED BY <1>1, <1>2 DEF OracleInv

\* Loaded prices replace an oracle that is clear, so the controller holds none.
LEMMA ClearToLoad ==
  ASSUME OracleInv, NEW tokens \in SUBSET Tokens, NEW observed \in Loadable(tokens)
  PROVE  controllerHolds = FALSE /\ oracle = ClearedOracle
<1>1. oracle.cleared
  BY LoadableFacts DEF OracleInv
<1> QED BY <1>1 DEF OracleInv, OracleTypeOK, PricesNotLeftBehind

LEMMA RunWithPricesStep ==
  ASSUME OracleInv, NEW observed \in Loadable(MarketTokens)
  PROVE  /\ request # NoRequest /\ (ExecuteRequest(observed) \/ GiveUpRequest(observed))
               => OracleInv'
         /\ \A kind \in CutKinds : PositionCut(kind, observed) => OracleInv'
         /\ \A exceeded \in BOOLEAN : UpdateAdl(observed, exceeded) => OracleInv'
<1> DEFINE loaded == LoadedOracle(observed)
<1>0. OracleTypeOK /\ MarketTokens \in SUBSET Tokens /\ Now \in Nat
  BY OracleAssumption, NowIsNat DEF OracleInv
<1>1. controllerHolds = FALSE
  BY <1>0, ClearToLoad
<1>2. /\ OnIncreased \in PositionTimes /\ OnDecreased \in PositionTimes
      /\ NoPosition \in PositionTimes
  BY <1>0 DEF OnIncreased, OnDecreased, NoPosition, PositionTimes, OracleTypeOK
<1>3. ASSUME oracle' = AfterPrices, UNCHANGED controllerHolds PROVE PricesNotLeftBehind'
  BY <1>1, <1>3 DEF AfterPrices, PricesNotLeftBehind
<1>4. ASSUME request # NoRequest, ExecuteRequest(observed) PROVE OracleInv'
  <2>1. /\ NotTooEarly(request.kind, loaded) /\ NotExpired(request.kind, loaded)
        /\ position' \in PositionsAfter(request.kind)
        /\ used' = Use(request.kind, observed) /\ request' = NoRequest /\ oracle' = AfterPrices
        /\ UNCHANGED <<clockSlot, feedState, priceFeeds, controllerHolds, adl>>
    BY <1>4 DEF ExecuteRequest
  <2>2. position' \in PositionTimes
    BY <1>0, <1>2, <2>1 DEF PositionsAfter, OracleTypeOK
  <2>3. OracleTypeOK'
    BY <1>0, <2>1, <2>2 DEF OracleTypeOK, feedState
  <2>4. ExecutedOnFreshPrices'
    BY <1>0, <1>4, <2>1, UsesFreshPrices
  <2> QED BY <1>3, <2>1, <2>3, <2>4 DEF OracleInv
<1>5. ASSUME GiveUpRequest(observed) PROVE OracleInv'
  <2>1. /\ used' = NoUse /\ request' = NoRequest /\ oracle' = AfterPrices
        /\ UNCHANGED <<clockSlot, feedState, priceFeeds, controllerHolds, position, adl>>
    BY <1>5 DEF GiveUpRequest
  <2>2. OracleTypeOK'
    BY <1>0, <2>1 DEF OracleTypeOK, feedState
  <2>3. ExecutedOnFreshPrices'
    BY <2>1 DEF ExecutedOnFreshPrices
  <2> QED BY <1>3, <2>1, <2>2, <2>3 DEF OracleInv
<1>6. ASSUME NEW kind \in CutKinds, PositionCut(kind, observed) PROVE OracleInv'
  <2>1. /\ NotTooEarly(kind, loaded)
        /\ position' \in {OnDecreased, NoPosition}
        /\ used' = Use(kind, observed) /\ oracle' = AfterPrices
        /\ UNCHANGED <<clockSlot, feedState, priceFeeds, controllerHolds, request, adl>>
    BY <1>6 DEF PositionCut
  <2>2. OracleTypeOK'
    BY <1>0, <1>2, <2>1 DEF OracleTypeOK, feedState
  <2>3. kind = "Liquidation" \/ kind \in OtherUses \union {"AutoDeleveraging"}
    BY DEF CutKinds
  <2>4. ExecutedOnFreshPrices'
    BY <1>0, <2>1, <2>3, UsesFreshPrices
  <2> QED BY <1>3, <2>1, <2>2, <2>4 DEF OracleInv
<1>7. ASSUME NEW exceeded \in BOOLEAN, UpdateAdl(observed, exceeded) PROVE OracleInv'
  <2>1. /\ used' = Use("UpdateAdlState", observed) /\ oracle' = AfterPrices
        /\ UNCHANGED <<clockSlot, feedState, priceFeeds, controllerHolds, request, position>>
    BY <1>7 DEF UpdateAdl
  <2>2. OracleTypeOK'
    BY <1>0, <2>1 DEF OracleTypeOK, feedState
  <2>3. "UpdateAdlState" \in OtherUses \union {"AutoDeleveraging"}
    BY DEF OtherUses
  <2>4. ExecutedOnFreshPrices'
    BY <1>0, <2>1, <2>3, UsesFreshPrices
  <2> QED BY <1>3, <2>1, <2>2, <2>4 DEF OracleInv
<1> QED BY <1>4, <1>5, <1>6, <1>7

LEMMA ControlOracleStep == OracleInv /\ ControlOracle => OracleInv'
<1> SUFFICES ASSUME OracleInv, ControlOracle PROVE OracleInv'
  OBVIOUS
<1>0. OracleTypeOK
  BY DEF OracleInv
<1>1. ASSUME NEW tokens \in TokenLists, NEW observed \in Loadable(tokens),
             SetPricesFromPriceFeed(observed)
      PROVE  OracleInv'
  <2>1. /\ oracle' = LoadedOracle(observed) /\ controllerHolds' = TRUE
        /\ used' = Use("SetPricesFromPriceFeed", observed)
        /\ UNCHANGED <<clockSlot, feedState, priceFeeds, request, position, adl>>
    BY <1>1 DEF SetPricesFromPriceFeed
  <2>2. OracleTypeOK'
    BY <1>0, <2>1 DEF OracleTypeOK, feedState
  <2>3. PricesNotLeftBehind'
    BY <2>1 DEF PricesNotLeftBehind, LoadedOracle, Use
  <2>4. tokens \in SUBSET Tokens /\ "SetPricesFromPriceFeed" \in OtherUses \union {"AutoDeleveraging"}
    BY OracleAssumption DEF OtherUses
  <2>5. ExecutedOnFreshPrices'
    BY <1>0, <2>1, <2>4, UsesFreshPrices
  <2> QED BY <2>2, <2>3, <2>5 DEF OracleInv
<1>2. ASSUME NEW tokens \in TokenLists, NEW observed \in Loadable(tokens),
             WithOraclePrices(observed)
      PROVE  OracleInv'
  <2>1. /\ oracle' = ClearedOracle /\ controllerHolds' = FALSE
        /\ used' = Use("WithOraclePrices", observed)
        /\ UNCHANGED <<clockSlot, feedState, priceFeeds, request, position, adl>>
    BY <1>2 DEF WithOraclePrices
  <2>2. OracleTypeOK'
    BY <1>0, <2>1 DEF OracleTypeOK, feedState
  <2>3. PricesNotLeftBehind'
    BY <2>1 DEF PricesNotLeftBehind
  <2>4. tokens \in SUBSET Tokens /\ "WithOraclePrices" \in OtherUses \union {"AutoDeleveraging"}
    BY OracleAssumption DEF OtherUses
  <2>5. ExecutedOnFreshPrices'
    BY <1>0, <2>1, <2>4, UsesFreshPrices
  <2> QED BY <2>2, <2>3, <2>5 DEF OracleInv
<1>3. ASSUME ClearAllPrices PROVE OracleInv'
  <2>1. /\ oracle' = ClearedOracle /\ controllerHolds' = FALSE /\ used' = NoUse
        /\ UNCHANGED <<clockSlot, feedState, priceFeeds, request, position, adl>>
    BY <1>3 DEF ClearAllPrices
  <2>2. OracleTypeOK'
    BY <1>0, <2>1 DEF OracleTypeOK, feedState
  <2> QED BY <2>1, <2>2 DEF OracleInv, PricesNotLeftBehind, ExecutedOnFreshPrices
<1> QED BY <1>1, <1>2, <1>3 DEF ControlOracle

LEMMA OracleInvStep == OracleInv /\ [OracleNext]_oracleVars => OracleInv'
<1> SUFFICES ASSUME OracleInv, [OracleNext]_oracleVars PROVE OracleInv'
  OBVIOUS
<1>0. OracleTypeOK /\ Now \in Nat
  BY NowIsNat DEF OracleInv
<1>1. ASSUME Tick PROVE OracleInv'
  <2>1. OracleTypeOK' /\ used' = NoUse /\ UNCHANGED <<oracle, controllerHolds>>
    BY <1>0, <1>1 DEF Tick, OracleTypeOK, feedState
  <2> QED BY <2>1, OracleUntouched
<1>2. ASSUME ConfigureTokens PROVE OracleInv'
  BY <1>0, <1>2, ConfigureTokensTyped, OracleUntouched
<1>3. ASSUME NEW key \in DOMAIN amounts, NEW value \in AmountChoices, InsertAmount(key, value)
      PROVE  OracleInv'
  <2>1. Configure(tokenMap, [amounts EXCEPT ![key] = value])
    BY <1>3 DEF InsertAmount
  <2>2. value \in Nat
    BY ConfigurationAssumption
  <2>3. [amounts EXCEPT ![key] = value] \in Amounts
    BY <1>0, <2>2 DEF OracleTypeOK, Amounts
  <2>4. OracleTypeOK' /\ used' = NoUse /\ UNCHANGED <<oracle, controllerHolds>>
    BY <1>0, <2>1, <2>3, ConfigureTyped DEF OracleTypeOK
  <2> QED BY <2>4, OracleUntouched
<1>4. ASSUME NEW f \in CustomFeeds, NEW account \in FeedAccounts, SetFeedAccount(f, account)
      PROVE  OracleInv'
  <2>1. OracleTypeOK' /\ used' = NoUse /\ UNCHANGED <<oracle, controllerHolds>>
    BY <1>0, <1>4 DEF SetFeedAccount, OracleTypeOK, feedState
  <2> QED BY <2>1, OracleUntouched
<1>5. ASSUME NEW f \in CustomFeeds, InitializePriceFeed(f) PROVE OracleInv'
  <2>1. [NoFeedAccount EXCEPT !.exists = TRUE] \in FeedAccounts
    BY DEF NoFeedAccount, FeedAccounts
  <2> QED BY <1>4, <1>5, <2>1 DEF InitializePriceFeed
<1>6. ASSUME NEW f \in CustomFeeds, NEW ts \in DOMAIN Quote[f], UpdatePriceFeed(f, ts)
      PROVE  OracleInv'
  <2>1. ts \in Nat
    BY ConfigurationAssumption
  <2>2. [exists |-> TRUE, open |-> TRUE, ts |-> ts, slot |-> clockSlot,
         publishedAt |-> Now] \in FeedAccounts
    BY <1>0, <2>1 DEF FeedAccounts, OracleTypeOK
  <2> QED BY <1>4, <1>6, <2>2 DEF UpdatePriceFeed
<1>7. ASSUME NEW value, SetRequest(value), value # NoRequest => value \in Requests
      PROVE  OracleInv'
  <2>1. OracleTypeOK' /\ used' = NoUse /\ UNCHANGED <<oracle, controllerHolds>>
    BY <1>0, <1>7 DEF SetRequest, OracleTypeOK, feedState
  <2> QED BY <2>1, OracleUntouched
<1>8. ASSUME NEW from \in {0, Now + 1}, NEW trigger \in Triggers \union {0}, NEW kind \in Kinds,
             CreateRequest(kind, from, trigger)
      PROVE  OracleInv'
  <2>1. [kind |-> kind, updatedAt |-> Now, slot |-> clockSlot,
         validFrom |-> from, trigger |-> trigger] \in Requests
    BY <1>0 DEF Requests, OracleTypeOK
  <2> QED BY <1>7, <1>8, <2>1 DEF CreateRequest
<1>9. ASSUME NEW from \in {0, Now + 1}, NEW trigger \in Triggers \union {0},
             UpdateOrder(from, trigger)
      PROVE  OracleInv'
  <2>1. request \in Requests /\ from \in Nat /\ clockSlot \in Nat
    BY <1>0, <1>9 DEF UpdateOrder, OracleTypeOK
  <2>2. [request EXCEPT !.updatedAt = Now, !.slot = clockSlot,
                        !.validFrom = from, !.trigger = trigger] \in Requests
    BY <1>0, <2>1 DEF Requests
  <2> QED BY <1>7, <1>9, <2>2 DEF UpdateOrder
<1>10. ASSUME CancelRequest PROVE OracleInv'
  BY <1>7, <1>10 DEF CancelRequest
<1>11. ASSUME RunWithPrices PROVE OracleInv'
  BY <1>11, RunWithPricesStep DEF RunWithPrices
<1>12. CASE ControlOracle
  BY <1>12, ControlOracleStep
<1>13. CASE UNCHANGED oracleVars
  BY <1>13 DEF oracleVars, feedState, OracleInv, OracleTypeOK, PricesNotLeftBehind,
     ExecutedOnFreshPrices, Fresh, CloseTogether, AfterRequest, AfterPosition, BeforeExpiration,
     AdjustedTs, ExpectedFeed, Now
<1> QED BY <1>1, <1>2, <1>3, <1>5, <1>6, <1>8, <1>9, <1>10, <1>11, <1>12, <1>13 DEF OracleNext

\* The types of the oracle's state, and the two invariants below.
THEOREM OracleInvariant == OracleSpec => []OracleInv
<1> QED BY OracleInvInit, OracleInvStep, PTL DEF OracleSpec

\* Prices stay in the oracle only while its controller keeps them there, and
\* no instruction of a user or keeper runs on them (Oracle::with_prices).
THEOREM NoPricesLeftBehind == OracleSpec => []PricesNotLeftBehind
<1>1. OracleInv => PricesNotLeftBehind
  BY DEF OracleInv
<1> QED BY <1>1, OracleInvariant, PTL

\* The windows that validator.rs and time.rs check over all the tokens keep
\* every single price fresh, for any feeds, adjustments and configuration.
THEOREM PricesAreFresh == OracleSpec => []ExecutedOnFreshPrices
<1>1. OracleInv => ExecutedOnFreshPrices
  BY DEF OracleInv
<1> QED BY <1>1, OracleInvariant, PTL

-----------------------------------------------------------------------------
(* The configuration of markets.                                           *)

ConfigValues == Factors \cup {DefaultConfig[key] : key \in ConfigKeys}
MarketConfigs == [ConfigKeys -> ConfigValues]
ListingAccounts == [enabled : BOOLEAN, pure : BOOLEAN, gt : BOOLEAN, flags : SUBSET FlagNames,
                    config : MarketConfigs, balance : [BOOLEAN -> Int]]
BufferEntries == [key : ConfigKeys, value : Factors, by : Managers]
Buffers == [authority : Managers, expiry : Nat, entries : Seq(BufferEntries), received : Nat]

ListingsTyped == \A l \in Listings : listing[l] # NoListing => listing[l] \in ListingAccounts
BufferTyped ==
    buffer # NoBuffer => buffer \in Buffers /\ buffer.received <= Len(buffer.entries)

\* Nobody but its authority has pushed to a buffer since it was handed over.
PushedByAuthority ==
    buffer # NoBuffer => \A n \in buffer.received + 1 .. Len(buffer.entries) :
                            buffer.entries[n].by = buffer.authority

MarketConfigInv ==
    /\ time \in Nat
    /\ DOMAIN listing = Listings /\ ListingsTyped
    /\ BufferTyped /\ PushedByAuthority

\* What the first n entries make of a configuration, without recursion.
LastOf(W) == CHOOSE n \in W : \A i \in W : i <= n
WrittenBy(entries, n, key) == {i \in 1..n : entries[i].key = key}
Merged(config, entries, n) ==
    [key \in ConfigKeys |-> IF WrittenBy(entries, n, key) # {}
                            THEN entries[LastOf(WrittenBy(entries, n, key))].value
                            ELSE config[key]]

LEMMA LastOfIs ==
  ASSUME NEW W, W \subseteq Nat, NEW m \in W, \A i \in W : i <= m
  PROVE  LastOf(W) = m
<1>1. LastOf(W) \in W /\ \A i \in W : i <= LastOf(W)
  BY Zenon DEF LastOf
<1>2. LastOf(W) \in Nat /\ m \in Nat /\ m <= LastOf(W) /\ LastOf(W) <= m
  BY <1>1
<1> QED BY <1>2

LEMMA MergedStep ==
  ASSUME NEW config \in MarketConfigs, NEW entries \in Seq(BufferEntries),
         NEW n \in 1 .. Len(entries)
  PROVE  Merged(config, entries, n)
           = WithValue(Merged(config, entries, n - 1), entries[n].key, entries[n].value)
<1> DEFINE k == entries[n].key
           before == Merged(config, entries, n - 1)
<1>1. k \in ConfigKeys /\ n \in Nat /\ n - 1 \in Nat
  <2>1. entries[n] \in BufferEntries
    OBVIOUS
  <2> QED BY <2>1 DEF BufferEntries
<1>2. n \in WrittenBy(entries, n, k) /\ WrittenBy(entries, n, k) \subseteq Nat
      /\ \A i \in WrittenBy(entries, n, k) : i <= n
  BY <1>1 DEF WrittenBy
<1>3. LastOf(WrittenBy(entries, n, k)) = n
  BY <1>2, LastOfIs
<1>4. ASSUME NEW key \in ConfigKeys, key # k
      PROVE  WrittenBy(entries, n, key) = WrittenBy(entries, n - 1, key)
  BY <1>1, <1>4 DEF WrittenBy
<1>5. Merged(config, entries, n)[k] = entries[n].value
  BY <1>1, <1>2, <1>3 DEF Merged
<1>6. \A key \in ConfigKeys : key # k => Merged(config, entries, n)[key] = before[key]
  BY <1>4 DEF Merged
<1>7. Merged(config, entries, n) = [key \in ConfigKeys |-> Merged(config, entries, n)[key]]
      /\ before = [key \in ConfigKeys |-> before[key]]
  BY DEF Merged
<1>8. WithValue(before, k, entries[n].value)
        = [key \in ConfigKeys |-> IF key = k THEN entries[n].value ELSE before[key]]
  <2> HIDE DEF before, k
  <2> QED BY <1>7 DEF WithValue
<1> QED BY <1>5, <1>6, <1>7, <1>8

UpdateStep(config, entries, h, n) ==
    IF n = 0 THEN config ELSE WithValue(h[n - 1], entries[n].key, entries[n].value)
Updates(config, entries, h) ==
    h = [n \in 0 .. Len(entries) |-> UpdateStep(config, entries, h, n)]

\* update_config_with_buffer leaves the last value of every key.
LEMMA UpdatedWithMerged ==
  ASSUME NEW config \in MarketConfigs, NEW entries \in Seq(BufferEntries)
  PROVE  UpdatedWith(config, entries) = Merged(config, entries, Len(entries))
<1> DEFINE N == Len(entries)
           M(n) == Merged(config, entries, n)
<1>1. N \in Nat
  OBVIOUS
<1>2. M(0) = config
  <2>1. \A key \in ConfigKeys : WrittenBy(entries, 0, key) = {}
    BY DEF WrittenBy
  <2> QED BY <2>1 DEF Merged, MarketConfigs
<1>3. \A n \in 1..N : M(n) = WithValue(M(n - 1), entries[n].key, entries[n].value)
  BY MergedStep
<1>4. \E h : Updates(config, entries, h)
  <2> DEFINE h == [n \in 0..N |-> M(n)]
  <2> HIDE DEF M
  <2>1. ASSUME NEW n \in 0..N PROVE M(n) = UpdateStep(config, entries, h, n)
    <3>1. CASE n = 0
      BY <1>2, <3>1 DEF UpdateStep
    <3>2. CASE n # 0
      <4>1. n \in 1..N /\ n - 1 \in 0..N
        BY <1>1, <3>2
      <4>2. h[n - 1] = M(n - 1)
        BY <4>1
      <4> QED BY <1>3, <3>2, <4>1, <4>2 DEF UpdateStep
    <3> QED BY <3>1, <3>2
  <2>2. Updates(config, entries, h)
    BY <2>1 DEF Updates
  <2> QED BY <2>2
<1>5. PICK h : Updates(config, entries, h) /\ UpdatedWith(config, entries) = h[N]
  BY <1>4, Zenon DEF UpdatedWith, Updates, UpdateStep
<1> DEFINE Bad == {n \in 0..N : h[n] # M(n)}
<1> HIDE DEF M
<1>6. Bad = {}
  <2> SUFFICES ASSUME Bad # {} PROVE FALSE
    OBVIOUS
  <2>1. Bad \subseteq Nat
    OBVIOUS
  <2>2. PICK n \in Bad : \A m \in Bad : n <= m
    <3> HIDE DEF Bad
    <3> QED BY <2>1, LeastNatural
  <2>3. n \in 0..N /\ h[n] = UpdateStep(config, entries, h, n)
    <3>1. n \in 0..N
      OBVIOUS
    <3> QED BY <1>5, <3>1 DEF Updates
  <2>4. CASE n = 0
    BY <1>2, <2>2, <2>3, <2>4 DEF UpdateStep
  <2>5. CASE n # 0
    <3>1. n \in 1..N /\ n - 1 \in 0..N /\ n - 1 \notin Bad
      BY <1>1, <2>2, <2>3, <2>5
    <3>2. h[n - 1] = M(n - 1)
      BY <3>1
    <3> QED BY <1>3, <2>2, <2>3, <2>5, <3>1, <3>2 DEF UpdateStep
  <2> QED BY <2>4, <2>5
<1>7. N \in 0..N /\ N \notin Bad
  BY <1>1, <1>6
<1> QED BY <1>5, <1>7 DEF M

LEMMA MarketConfigInvInit == MarketConfigInit => MarketConfigInv
BY DEF MarketConfigInit, MarketConfigInv, ListingsTyped, BufferTyped, PushedByAuthority

LEMMA BufferSame ==
  ASSUME MarketConfigInv, UNCHANGED buffer PROVE BufferTyped' /\ PushedByAuthority'
BY DEF MarketConfigInv, BufferTyped, PushedByAuthority

LEMMA DefaultConfigTyped == DefaultConfig \in MarketConfigs
BY ConfigKeysAssumption DEF MarketConfigs, ConfigValues

LEMMA UpdatedWithTyped ==
  ASSUME NEW config \in MarketConfigs, NEW entries \in Seq(BufferEntries)
  PROVE  UpdatedWith(config, entries) \in MarketConfigs
<1> DEFINE N == Len(entries)
           W(key) == WrittenBy(entries, N, key)
<1>1. ASSUME NEW key \in ConfigKeys, W(key) # {} PROVE entries[LastOf(W(key))].value \in Factors
  <2>1. W(key) \subseteq 1..N /\ W(key) \subseteq Int /\ IsFiniteSet(1..N)
    BY FS_Interval DEF WrittenBy
  <2>2. IsFiniteSet(W(key))
    BY <2>1, FS_Subset
  <2>3. Max(W(key)) \in W(key) /\ \A i \in W(key) : i <= Max(W(key))
    BY <1>1, <2>1, <2>2, MaxOfFinite
  <2>4. LastOf(W(key)) = Max(W(key))
    <3>1. W(key) \subseteq Nat
      BY <2>1
    <3> QED BY <2>3, <3>1, LastOfIs
  <2>5. LastOf(W(key)) \in 1..N
    BY <2>1, <2>3, <2>4
  <2>6. entries[LastOf(W(key))] \in BufferEntries
    BY <2>5
  <2> QED BY <2>6 DEF BufferEntries
<1>2. Merged(config, entries, N) \in MarketConfigs
  BY <1>1 DEF Merged, MarketConfigs, ConfigValues
<1> QED BY <1>2, UpdatedWithMerged

\* A market account that is rewritten.
LEMMA SetListingFacts ==
  ASSUME MarketConfigInv, NEW l \in Listings, NEW new,
         listing' = [listing EXCEPT ![l] = new]
  PROVE  /\ listing'[l] = new /\ \A m \in Listings \ {l} : listing'[m] = listing[m]
         /\ DOMAIN listing' = Listings
         /\ new \in ListingAccounts => ListingsTyped'
BY DEF MarketConfigInv, ListingsTyped

LEMMA ManyKeysOnlyListing ==
  ASSUME MarketConfigInv, NEW l \in Listings, NEW new,
         listing' = [listing EXCEPT ![l] = new],
         (listing[l] # NoListing /\ new # NoListing) =>
             (Cardinality(Reconfigured(l)) > 1 => AppliesBuffer(l))
  PROVE  ManyKeysByBuffer
<1>1. listing'[l] = new /\ \A m \in Listings \ {l} : listing'[m] = listing[m]
  BY SetListingFacts
<1>2. ASSUME NEW m \in Listings, listing'[m] = listing[m] PROVE Cardinality(Reconfigured(m)) = 0
  <2>1. Reconfigured(m) = {}
    BY <1>2 DEF Reconfigured
  <2> QED BY <2>1, FS_EmptySet
<1> QED BY <1>1, <1>2 DEF ManyKeysByBuffer

\* A step that keeps the configuration, or sets one key, is no bulk change.
LEMMA OneKeySet ==
  ASSUME MarketConfigInv, NEW l \in Listings, NEW k,
         \A key \in ConfigKeys : key # k => listing'[l].config[key] = listing[l].config[key]
  PROVE  Cardinality(Reconfigured(l)) <= 1
<1>1. Reconfigured(l) \subseteq {k}
  BY DEF Reconfigured
<1>2. IsFiniteSet({k}) /\ Cardinality({k}) = 1
  BY FS_Singleton
<1> QED BY <1>1, <1>2, FS_Subset

LEMMA ListingSteps ==
  ASSUME MarketConfigInv, NEW l \in Listings
  PROVE  /\ \A enable \in BOOLEAN :
               InitializeMarket(l, enable) \/ ToggleMarket(l, enable) \/ ToggleGtMinting(l, enable)
                  => MarketConfigInv' /\ ManyKeysByBuffer
         /\ \A t \in Mints, amount \in Transferred :
               MarketTransferIn(l, t, amount) => MarketConfigInv' /\ ManyKeysByBuffer
         /\ \A key \in KeyNames, value \in Factors :
               UpdateMarketConfig(l, key, value) => MarketConfigInv' /\ ManyKeysByBuffer
         /\ \A flag \in FlagNames, value \in BOOLEAN :
               UpdateMarketConfigFlag(l, flag, value) => MarketConfigInv' /\ ManyKeysByBuffer
         /\ UpdateMarketConfigWithBuffer(l) => MarketConfigInv' /\ ManyKeysByBuffer
<1>1. ASSUME NEW new \in ListingAccounts, listing' = [listing EXCEPT ![l] = new],
             UNCHANGED <<time, buffer>>
      PROVE  MarketConfigInv' /\ listing'[l] = new
  BY <1>1, SetListingFacts, BufferSame DEF MarketConfigInv
<1>2. ASSUME NEW new \in ListingAccounts, SetListing(l, new), NEW k,
             \A key \in ConfigKeys : key # k => new.config[key] = listing[l].config[key]
      PROVE  MarketConfigInv' /\ ManyKeysByBuffer
  <2>1. listing' = [listing EXCEPT ![l] = new] /\ UNCHANGED <<time, buffer>>
    BY <1>2 DEF SetListing
  <2>2. MarketConfigInv' /\ listing'[l] = new
    BY <1>1, <2>1
  <2>3. Cardinality(Reconfigured(l)) <= 1 /\ Cardinality(Reconfigured(l)) \in Nat
    <3>1. Cardinality(Reconfigured(l)) <= 1
      BY <1>2, <2>2, OneKeySet
    <3>2. Reconfigured(l) \subseteq {k} /\ IsFiniteSet({k})
      BY <1>2, <2>2, FS_Singleton DEF Reconfigured
    <3> QED BY <3>1, <3>2, FS_Subset, FS_CardinalityType
  <2>4. ~(Cardinality(Reconfigured(l)) > 1)
    BY <2>3
  <2>5. ManyKeysByBuffer
    BY <2>1, <2>4, ManyKeysOnlyListing
  <2> QED BY <2>2, <2>5
<1>3. listing[l] # NoListing => listing[l] \in ListingAccounts
  BY DEF MarketConfigInv, ListingsTyped
<1>4. ASSUME NEW enable \in BOOLEAN, InitializeMarket(l, enable)
      PROVE  MarketConfigInv' /\ ManyKeysByBuffer
  <2>1. /\ listing[l] = NoListing
        /\ listing' = [listing EXCEPT ![l] = NewListing(l, enable)] /\ UNCHANGED <<time, buffer>>
    BY <1>4 DEF InitializeMarket
  <2>2. NewListing(l, enable) \in ListingAccounts
    BY DefaultConfigTyped DEF NewListing, ListingAccounts
  <2>3. ManyKeysByBuffer
    BY <2>1, ManyKeysOnlyListing
  <2> QED BY <1>1, <2>1, <2>2, <2>3
<1>5. ASSUME NEW enable \in BOOLEAN, ToggleMarket(l, enable) PROVE MarketConfigInv' /\ ManyKeysByBuffer
  <2>1. listing[l] \in ListingAccounts /\ SetListing(l, [listing[l] EXCEPT !.enabled = enable])
    BY <1>3, <1>5 DEF ToggleMarket, SetListing
  <2>2. /\ [listing[l] EXCEPT !.enabled = enable] \in ListingAccounts
        /\ [listing[l] EXCEPT !.enabled = enable].config = listing[l].config
    BY <2>1 DEF ListingAccounts
  <2> QED BY <1>2, <2>1, <2>2
<1>6. ASSUME NEW enable \in BOOLEAN, ToggleGtMinting(l, enable)
      PROVE  MarketConfigInv' /\ ManyKeysByBuffer
  <2>1. listing[l] \in ListingAccounts /\ SetListing(l, [listing[l] EXCEPT !.gt = enable])
    BY <1>3, <1>6 DEF ToggleGtMinting, SetListing
  <2>2. /\ [listing[l] EXCEPT !.gt = enable] \in ListingAccounts
        /\ [listing[l] EXCEPT !.gt = enable].config = listing[l].config
    BY <2>1 DEF ListingAccounts
  <2> QED BY <1>2, <2>1, <2>2
<1>7. ASSUME NEW t \in Mints, NEW amount \in Transferred, MarketTransferIn(l, t, amount)
      PROVE  MarketConfigInv' /\ ManyKeysByBuffer
  <2> DEFINE balance == [listing[l].balance EXCEPT ![t = l.long] = @ + amount]
             new == [listing[l] EXCEPT !.balance = balance]
  <2>1. listing[l] \in ListingAccounts /\ SetListing(l, new)
    BY <1>3, <1>7 DEF MarketTransferIn, SetListing
  <2>2. balance \in [BOOLEAN -> Int]
    <3>1. listing[l].balance \in [BOOLEAN -> Int] /\ amount \in Int
      BY <2>1, ConfigKeysAssumption DEF ListingAccounts
    <3>2. PICK isLong \in BOOLEAN : isLong = (t = l.long)
      BY Zenon
    <3>3. [listing[l].balance EXCEPT ![isLong] = @ + amount] \in [BOOLEAN -> Int]
      BY <3>1
    <3> QED BY <3>2, <3>3, Zenon
  <2> HIDE DEF balance
  <2>3. new \in ListingAccounts /\ new.config = listing[l].config
    BY <2>1, <2>2 DEF ListingAccounts
  <2> HIDE DEF new
  <2> QED BY <1>2, <2>1, <2>3
<1>8. ASSUME NEW key \in KeyNames, NEW value \in Factors, UpdateMarketConfig(l, key, value)
      PROVE  MarketConfigInv' /\ ManyKeysByBuffer
  <2> DEFINE config == WithValue(listing[l].config, key, value)
             new == [listing[l] EXCEPT !.config = config]
  <2>1. listing[l] \in ListingAccounts /\ SetListing(l, new) /\ key \in ConfigKeys
    BY <1>3, <1>8 DEF UpdateMarketConfig, SetListing
  <2>2. /\ config \in MarketConfigs
        /\ \A k \in ConfigKeys : k # key => config[k] = listing[l].config[k]
    BY <2>1 DEF ListingAccounts, WithValue, MarketConfigs, ConfigValues
  <2> HIDE DEF config
  <2>3. new \in ListingAccounts /\ new.config = config
    BY <2>1, <2>2 DEF ListingAccounts
  <2> HIDE DEF new
  <2> QED BY <1>2, <2>1, <2>2, <2>3
<1>9. ASSUME NEW flag \in FlagNames, NEW value \in BOOLEAN, UpdateMarketConfigFlag(l, flag, value)
      PROVE  MarketConfigInv' /\ ManyKeysByBuffer
  <2> DEFINE flags == WithFlag(listing[l].flags, flag, value)
             new == [listing[l] EXCEPT !.flags = flags]
  <2>1. listing[l] \in ListingAccounts /\ SetListing(l, new)
    BY <1>3, <1>9 DEF UpdateMarketConfigFlag, SetListing
  <2>2. flags \in SUBSET FlagNames
    BY <2>1 DEF ListingAccounts, WithFlag
  <2> HIDE DEF flags
  <2>3. new \in ListingAccounts /\ new.config = listing[l].config
    BY <2>1, <2>2 DEF ListingAccounts
  <2> HIDE DEF new
  <2> QED BY <1>2, <2>1, <2>3
<1>10. ASSUME UpdateMarketConfigWithBuffer(l) PROVE MarketConfigInv' /\ ManyKeysByBuffer
  <2> DEFINE old == listing[l].config
             config == UpdatedWith(old, buffer.entries)
             new == [listing[l] EXCEPT !.config = config]
  <2>1. /\ buffer # NoBuffer /\ buffer.authority \in keepers /\ time < buffer.expiry
        /\ listing[l] \in ListingAccounts /\ listing' = [listing EXCEPT ![l] = new]
        /\ UNCHANGED <<time, buffer>>
    BY <1>3, <1>10 DEF UpdateMarketConfigWithBuffer, SetListing
  <2>2. buffer.entries \in Seq(BufferEntries) /\ old \in MarketConfigs
    BY <2>1 DEF MarketConfigInv, BufferTyped, Buffers, ListingAccounts
  <2>3. config \in MarketConfigs /\ config = Merged(old, buffer.entries, Len(buffer.entries))
    BY <2>2, UpdatedWithTyped, UpdatedWithMerged
  <2>4. \A key \in ConfigKeys : WrittenBy(buffer.entries, Len(buffer.entries), key) = Written(key)
    BY <2>2 DEF WrittenBy, Written
  <2>5. \A key \in ConfigKeys :
           config[key] = IF Written(key) # {} THEN LastValue(key) ELSE old[key]
    <3> HIDE DEF config, old
    <3> SUFFICES ASSUME NEW key \in ConfigKeys
                 PROVE  config[key] = IF Written(key) # {} THEN LastValue(key) ELSE old[key]
      OBVIOUS
    <3>1. LastValue(key) = buffer.entries[LastOf(Written(key))].value
      BY DEF LastValue, LastOf
    <3>2. WrittenBy(buffer.entries, Len(buffer.entries), key) = Written(key)
      BY <2>4
    <3> QED BY <2>3, <3>1, <3>2 DEF Merged
  <2> HIDE DEF config
  <2>6. new \in ListingAccounts /\ new.config = config
    BY <2>1, <2>3 DEF ListingAccounts
  <2> HIDE DEF new
  <2>7. MarketConfigInv' /\ listing'[l] = new
    BY <1>1, <2>1, <2>6
  <2>8. AppliesBuffer(l)
    BY <2>1, <2>5, <2>6, <2>7 DEF AppliesBuffer, MarketConfigInv, PushedByAuthority
  <2> QED BY <2>1, <2>7, <2>8, ManyKeysOnlyListing
<1> QED BY <1>4, <1>5, <1>6, <1>7, <1>8, <1>9, <1>10

LEMMA BufferSteps ==
  ASSUME MarketConfigInv, NEW p \in Managers
  PROVE  /\ \A secs \in Lifetimes : InitializeMarketConfigBuffer(p, secs) => MarketConfigInv'
         /\ \A to \in Managers : SetMarketConfigBufferAuthority(p, to) => MarketConfigInv'
         /\ \A key \in KeyNames, value \in Factors :
               PushToMarketConfigBuffer(p, key, value) => MarketConfigInv'
         /\ CloseMarketConfigBuffer(p) => MarketConfigInv'
<1>1. ASSUME UNCHANGED <<time, listing>>, BufferTyped', PushedByAuthority' PROVE MarketConfigInv'
  BY <1>1 DEF MarketConfigInv, ListingsTyped
<1>2. ASSUME NEW secs \in Lifetimes, InitializeMarketConfigBuffer(p, secs) PROVE MarketConfigInv'
  <2>1. /\ buffer' = [authority |-> p, expiry |-> time + secs, entries |-> <<>>, received |-> 0]
        /\ UNCHANGED <<time, listing>>
    BY <1>2 DEF InitializeMarketConfigBuffer, BufferStep
  <2>2. buffer' \in Buffers
    BY <2>1, ConfigKeysAssumption DEF Buffers, MarketConfigInv
  <2>3. buffer'.entries = <<>> /\ buffer'.received = 0
    BY <2>1
  <2> QED BY <1>1, <2>1, <2>2, <2>3 DEF BufferTyped, PushedByAuthority
<1>3. ASSUME NEW to \in Managers, SetMarketConfigBufferAuthority(p, to) PROVE MarketConfigInv'
  <2>1. /\ buffer \in Buffers /\ UNCHANGED <<time, listing>>
        /\ buffer' = [buffer EXCEPT !.authority = to, !.received = Len(buffer.entries)]
    BY <1>3 DEF SetMarketConfigBufferAuthority, BufferStep, MarketConfigInv, BufferTyped
  <2>2. buffer.entries \in Seq(BufferEntries) /\ Len(buffer.entries) \in Nat
    BY <2>1 DEF Buffers
  <2>3. /\ buffer' \in Buffers /\ buffer'.entries = buffer.entries
        /\ buffer'.received = Len(buffer.entries)
    BY <2>1, <2>2 DEF Buffers
  <2> QED BY <1>1, <2>1, <2>2, <2>3 DEF BufferTyped, PushedByAuthority
<1>4. ASSUME NEW key \in KeyNames, NEW value \in Factors, PushToMarketConfigBuffer(p, key, value)
      PROVE  MarketConfigInv'
  <2> DEFINE e == [key |-> key, value |-> value, by |-> p]
             N == Len(buffer.entries)
  <2>1. /\ buffer \in Buffers /\ buffer.received <= N /\ buffer # NoBuffer
        /\ buffer.authority = p /\ key \in ConfigKeys /\ UNCHANGED <<time, listing>>
        /\ buffer' = [buffer EXCEPT !.entries = Append(buffer.entries, e)]
    BY <1>4 DEF PushToMarketConfigBuffer, Pusher, Pushed, BufferStep, MarketConfigInv, BufferTyped
  <2>2. e \in BufferEntries /\ e.by = p /\ buffer.entries \in Seq(BufferEntries)
        /\ buffer.received \in Nat
    BY <2>1 DEF BufferEntries, Buffers
  <2> HIDE DEF e
  <2>3. /\ Append(buffer.entries, e) \in Seq(BufferEntries)
        /\ Len(Append(buffer.entries, e)) = N + 1 /\ N \in Nat
        /\ Append(buffer.entries, e)[N + 1] = e
        /\ \A n \in 1..N : Append(buffer.entries, e)[n] = buffer.entries[n]
    BY <2>2
  <2>4. /\ buffer' \in Buffers /\ buffer'.entries = Append(buffer.entries, e)
        /\ buffer'.received = buffer.received /\ buffer'.authority = p
    BY <2>1, <2>3 DEF Buffers
  <2>5. BufferTyped'
    BY <2>1, <2>2, <2>3, <2>4 DEF BufferTyped
  <2>6. \A n \in buffer.received + 1 .. N : buffer.entries[n].by = p
    BY <2>1 DEF MarketConfigInv, PushedByAuthority
  <2>7. ASSUME NEW n \in buffer.received + 1 .. N + 1 PROVE Append(buffer.entries, e)[n].by = p
    <3>1. CASE n = N + 1
      BY <2>2, <2>3, <3>1
    <3>2. CASE n # N + 1
      <4>1. n \in 1..N /\ n \in buffer.received + 1 .. N
        BY <2>2, <2>3, <3>2
      <4> QED BY <2>3, <2>6, <4>1
    <3> QED BY <3>1, <3>2
  <2>8. PushedByAuthority'
    BY <2>3, <2>4, <2>7 DEF PushedByAuthority
  <2> QED BY <1>1, <2>1, <2>5, <2>8
<1>5. ASSUME CloseMarketConfigBuffer(p) PROVE MarketConfigInv'
  BY <1>1, <1>5 DEF CloseMarketConfigBuffer, BufferStep, BufferTyped, PushedByAuthority
<1> QED BY <1>2, <1>3, <1>4, <1>5

LEMMA MarketConfigStep ==
  MarketConfigInv /\ [MarketConfigNext]_marketConfigVars => MarketConfigInv' /\ ManyKeysByBuffer
<1> SUFFICES ASSUME MarketConfigInv, [MarketConfigNext]_marketConfigVars
             PROVE  MarketConfigInv' /\ ManyKeysByBuffer
  OBVIOUS
<1>1. ASSUME UNCHANGED listing PROVE ManyKeysByBuffer
  <2>1. \A l \in Listings : Reconfigured(l) = {}
    BY <1>1 DEF Reconfigured
  <2> QED BY <2>1, FS_EmptySet DEF ManyKeysByBuffer
<1>2. ASSUME UNCHANGED <<listing, buffer>>, time' \in Nat PROVE MarketConfigInv'
  BY <1>2, BufferSame DEF MarketConfigInv, ListingsTyped
<1>3. time \in Nat
  BY DEF MarketConfigInv
<1>4. ASSUME TimePasses PROVE MarketConfigInv' /\ ManyKeysByBuffer
  BY <1>1, <1>2, <1>3, <1>4 DEF TimePasses
<1>5. ASSUME NEW ps \in SUBSET Managers, SetMarketKeepers(ps) PROVE MarketConfigInv' /\ ManyKeysByBuffer
  BY <1>1, <1>2, <1>3, <1>5 DEF SetMarketKeepers
<1>6. ASSUME NEW t \in Mints, ToggleMint(t) \/ InitializeMarketVault(t)
      PROVE  MarketConfigInv' /\ ManyKeysByBuffer
  BY <1>1, <1>2, <1>3, <1>6 DEF ToggleMint, InitializeMarketVault
<1>7. CASE UNCHANGED marketConfigVars
  BY <1>1, <1>2, <1>3, <1>7 DEF marketConfigVars
<1>8. ASSUME NEW p \in Managers,
             \/ \E secs \in Lifetimes : InitializeMarketConfigBuffer(p, secs)
             \/ \E to \in Managers : SetMarketConfigBufferAuthority(p, to)
             \/ \E key \in KeyNames, value \in Factors : PushToMarketConfigBuffer(p, key, value)
             \/ CloseMarketConfigBuffer(p)
      PROVE  MarketConfigInv' /\ ManyKeysByBuffer
  <2>1. UNCHANGED listing
    BY <1>8 DEF InitializeMarketConfigBuffer, SetMarketConfigBufferAuthority,
                PushToMarketConfigBuffer, CloseMarketConfigBuffer, BufferStep
  <2> QED BY <1>1, <1>8, <2>1, BufferSteps
<1>9. ASSUME NEW l \in Listings,
             \/ \E enable \in BOOLEAN : \/ InitializeMarket(l, enable)
                                        \/ ToggleMarket(l, enable)
                                        \/ ToggleGtMinting(l, enable)
             \/ \E t \in Mints, amount \in Transferred : MarketTransferIn(l, t, amount)
             \/ \E key \in KeyNames, value \in Factors : UpdateMarketConfig(l, key, value)
             \/ \E flag \in FlagNames, value \in BOOLEAN : UpdateMarketConfigFlag(l, flag, value)
             \/ UpdateMarketConfigWithBuffer(l)
      PROVE  MarketConfigInv' /\ ManyKeysByBuffer
  BY <1>9, ListingSteps
<1> QED BY <1>4, <1>5, <1>6, <1>7, <1>8, <1>9 DEF MarketConfigNext

\* A market takes over more than one key at a time only from a buffer of a
\* keeper that nobody else has added to since, entry by entry.
THEOREM BuffersApplyAsHandedOver == MarketConfigSpec => AppliedAsHandedOver
<1>1. MarketConfigSpec => []MarketConfigInv
  BY MarketConfigInvInit, MarketConfigStep, PTL DEF MarketConfigSpec
<1> QED BY <1>1, MarketConfigStep, PTL DEF MarketConfigSpec, AppliedAsHandedOver

-----------------------------------------------------------------------------
(* Fixed maps.                                                             *)

Sorted(map) == \A i, j \in 1..Len(map) : i < j => map[i].key < map[j].key
MapEntries(V) == [key : Nat, value : V]
MapsTo(V) == {map \in Seq(MapEntries(V)) : Sorted(map)}

\* An entry at its place in a map.
LEMMA EntryTyped ==
  ASSUME NEW V, NEW map \in MapsTo(V), NEW i \in 1..Len(map)
  PROVE  map[i] \in MapEntries(V) /\ map[i].key \in Nat /\ map[i].value \in V
<1>1. map \in Seq(MapEntries(V))
  BY DEF MapsTo
<1>2. map[i] \in MapEntries(V)
  BY <1>1
<1> QED BY <1>2 DEF MapEntries

\* binary_search finds where the keys below k end.
LEMMA SlotSplits ==
  ASSUME NEW V, NEW map \in MapsTo(V), NEW k \in Nat
  PROVE  /\ Slot(map, k) \in 1 .. Len(map) + 1
         /\ \A i \in 1..Len(map) : map[i].key < k <=> i < Slot(map, k)
<1> DEFINE N == Len(map)
           Below == {i \in 1..N : map[i].key < k}
<1>1. N \in Nat /\ DOMAIN map = 1..N /\ \A i \in 1..N : map[i].key \in Nat
  BY EntryTyped DEF MapsTo
<1>2. Slot(map, k) = 1 + Cardinality(Below)
  BY <1>1 DEF Slot
<1>3. IsFiniteSet(Below) /\ Below \subseteq Int
  <2>1. IsFiniteSet(1..N) /\ Below \subseteq 1..N
    BY <1>1, FS_Interval
  <2> QED BY <2>1, FS_Subset
<1>4. CASE Below = {}
  <2>1. Cardinality(Below) = 0
    BY <1>4, FS_EmptySet
  <2>2. Slot(map, k) = 1
    BY <1>2, <2>1
  <2>3. \A i \in 1..N : ~(map[i].key < k)
    BY <1>4
  <2>4. \A i \in 1..N : ~(i < 1)
    BY <1>1
  <2> QED BY <1>1, <2>2, <2>3, <2>4
<1>5. CASE Below # {}
  <2> DEFINE m == Max(Below)
  <2>1. m \in Below /\ \A i \in Below : i <= m
    BY <1>3, <1>5, MaxOfFinite
  <2> HIDE DEF m
  <2>2. ASSUME NEW i \in 1..N, i <= m PROVE map[i].key < k
    <3>1. CASE i = m
      BY <2>1, <3>1
    <3>2. CASE i < m
      <4>1. m \in 1..N /\ map[m].key < k
        BY <2>1
      <4>2. map[i].key < map[m].key
        BY <3>2, <4>1 DEF MapsTo, Sorted
      <4> QED BY <1>1, <4>1, <4>2
    <3> QED BY <1>1, <2>1, <2>2, <3>1, <3>2
  <2>3. Below = 1..m /\ m \in 1..N
    BY <1>1, <2>1, <2>2
  <2>4. Cardinality(Below) = m
    <3>1. Cardinality(1..m) = m
      BY <1>1, <2>3, FS_Interval
    <3> HIDE DEF Below
    <3> QED BY <2>3, <3>1
  <2>5. Slot(map, k) = 1 + m
    BY <1>2, <2>4
  <2>6. \A i \in 1..N : map[i].key < k <=> i <= m
    BY <1>1, <2>3
  <2> QED BY <1>1, <2>3, <2>5, <2>6
<1> QED BY <1>4, <1>5

\* A key is in one place, and that is where it is found.
LEMMA FoundAt ==
  ASSUME NEW V, NEW map \in MapsTo(V), NEW i \in 1..Len(map)
  PROVE  /\ Present(map, map[i].key) /\ Get(map, map[i].key) = map[i].value
         /\ Slot(map, map[i].key) = i
<1> DEFINE k == map[i].key  s == Slot(map, k)
<1>1. k \in Nat /\ Len(map) \in Nat /\ DOMAIN map = 1..Len(map)
  BY EntryTyped DEF MapsTo
<1>2. s \in 1 .. Len(map) + 1 /\ \A j \in 1..Len(map) : map[j].key < k <=> j < s
  BY <1>1, SlotSplits
<1>3. ~(i < s)
  BY <1>1, <1>2
<1>4. ~(s < i)
  <2> SUFFICES ASSUME s < i PROVE FALSE
    OBVIOUS
  <2>1. s \in 1..Len(map)
    BY <1>1, <1>2
  <2>2. map[s].key < k
    BY <2>1 DEF MapsTo, Sorted
  <2> QED BY <1>1, <1>2, <2>1, <2>2
<1>5. s = i
  BY <1>1, <1>2, <1>3, <1>4
<1> QED BY <1>1, <1>5 DEF Present, Get

LEMMA PresentIs ==
  ASSUME NEW V, NEW map \in MapsTo(V), NEW k \in Nat
  PROVE  /\ Present(map, k) <=> \E i \in 1..Len(map) : map[i].key = k
         /\ Present(map, k) => /\ Slot(map, k) \in 1..Len(map) /\ map[Slot(map, k)].key = k
                               /\ Get(map, k) = map[Slot(map, k)].value /\ Get(map, k) \in V
<1>1. DOMAIN map = 1..Len(map)
  BY DEF MapsTo
<1>2. Present(map, k) => /\ Slot(map, k) \in 1..Len(map) /\ map[Slot(map, k)].key = k
                         /\ Get(map, k) = map[Slot(map, k)].value
  BY <1>1 DEF Present, Get
<1>3. Present(map, k) => Get(map, k) \in V
  BY <1>2, EntryTyped
<1>4. (\E i \in 1..Len(map) : map[i].key = k) => Present(map, k)
  BY FoundAt
<1> QED BY <1>2, <1>3, <1>4

\* A map is known by the value at each of its keys.
SameAs(map, new, k) ==
    \A j \in Nat \ {k} : /\ Present(new, j) <=> Present(map, j)
                         /\ Present(map, j) => Get(new, j) = Get(map, j)

\* get_mut and an assignment.
LEMMA SetMap ==
  ASSUME NEW V, NEW map \in MapsTo(V), NEW k \in Nat, Present(map, k), NEW v \in V
  PROVE  /\ Set(map, k, v) \in MapsTo(V) /\ Len(Set(map, k, v)) = Len(map)
         /\ Present(Set(map, k, v), k) /\ Get(Set(map, k, v), k) = v
         /\ SameAs(map, Set(map, k, v), k)
         /\ \A i \in 1..Len(map) : Set(map, k, v)[i].key = map[i].key
<1> DEFINE s == Slot(map, k)  new == Set(map, k, v)  N == Len(map)
<1>1. s \in 1..N /\ map[s].key = k /\ map \in Seq(MapEntries(V)) /\ Sorted(map) /\ N \in Nat
  BY PresentIs DEF MapsTo
<1>2. /\ new = [map EXCEPT ![s] = [map[s] EXCEPT !.value = v]]
      /\ map[s] \in MapEntries(V)
  BY <1>1, EntryTyped DEF Set
<1>3. /\ [map[s] EXCEPT !.value = v] \in MapEntries(V)
      /\ [map[s] EXCEPT !.value = v].key = k /\ [map[s] EXCEPT !.value = v].value = v
  BY <1>1, <1>2 DEF MapEntries
<1> DEFINE e == [map[s] EXCEPT !.value = v]
<1> HIDE DEF e, new, s
<1>4. /\ new \in Seq(MapEntries(V)) /\ Len(new) = N /\ new[s] = e
      /\ \A i \in 1..N : i # s => new[i] = map[i]
  BY <1>1, <1>2, <1>3 DEF e
<1>5. \A i \in 1..N : new[i].key = map[i].key
  BY <1>1, <1>3, <1>4 DEF e
<1>6. new \in MapsTo(V)
  BY <1>1, <1>4, <1>5 DEF MapsTo, Sorted
<1>7. Present(new, k) /\ Get(new, k) = v
  <2>1. s \in 1..Len(new) /\ new[s].key = k /\ new[s].value = v
    BY <1>1, <1>3, <1>4 DEF e
  <2> QED BY <1>6, <2>1, FoundAt
<1>8. ASSUME NEW j \in Nat \ {k}
      PROVE  /\ Present(new, j) <=> Present(map, j)
             /\ Present(map, j) => Get(new, j) = Get(map, j)
  <2>1. Present(new, j) <=> Present(map, j)
    <3>1. Present(new, j) <=> \E i \in 1..N : new[i].key = j
      BY <1>4, <1>6, PresentIs
    <3>2. Present(map, j) <=> \E i \in 1..N : map[i].key = j
      BY PresentIs
    <3> QED BY <1>5, <3>1, <3>2
  <2>2. ASSUME Present(map, j) PROVE Get(new, j) = Get(map, j)
    <3>1. PICK i \in 1..N : map[i].key = j
      BY <2>2, PresentIs
    <3>2. Get(map, j) = map[i].value
      BY <3>1, FoundAt
    <3>3. i # s /\ new[i] = map[i]
      BY <1>1, <1>4, <3>1
    <3>4. Get(new, j) = new[i].value
      BY <1>4, <1>5, <1>6, <3>1, <3>3, FoundAt
    <3> QED BY <3>2, <3>3, <3>4
  <2> QED BY <2>1, <2>2
<1> QED BY <1>4, <1>5, <1>6, <1>7, <1>8 DEF SameAs, new

IsJoin(c, S, a, e, b) ==
    /\ c \in Seq(S) /\ Len(c) = Len(a) + 1 + Len(b)
    /\ \A i \in 1..Len(a) : c[i] = a[i]
    /\ c[Len(a) + 1] = e
    /\ \A i \in Len(a) + 2 .. Len(a) + 1 + Len(b) : c[i] = b[i - Len(a) - 1]

LEMMA ThreeParts ==
  ASSUME NEW S, NEW a \in Seq(S), NEW b \in Seq(S), NEW e \in S
  PROVE  IsJoin(a \o <<e>> \o b, S, a, e, b)
<1> DEFINE c == a \o <<e>>
<1>1. /\ c \in Seq(S) /\ Len(c) = Len(a) + 1 /\ c[Len(a) + 1] = e
      /\ \A i \in 1..Len(a) : c[i] = a[i]
  <2>1. c = Append(a, e)
    OBVIOUS
  <2> QED BY <2>1
<1> HIDE DEF c
<1>2. /\ c \o b \in Seq(S) /\ Len(c \o b) = Len(c) + Len(b)
      /\ \A i \in 1..Len(c) : (c \o b)[i] = c[i]
      /\ \A i \in Len(c) + 1 .. Len(c) + Len(b) : (c \o b)[i] = b[i - Len(c)]
  BY <1>1
<1>3. Len(a) \in Nat /\ Len(b) \in Nat
  OBVIOUS
<1> QED BY <1>1, <1>2, <1>3 DEF c, IsJoin

\* insert: the entries behind the slot move by one.
LEMMA InsertedMap ==
  ASSUME NEW V, NEW map \in MapsTo(V), NEW k \in Nat, ~Present(map, k), NEW v \in V
  PROVE  /\ Inserted(map, k, v) \in MapsTo(V) /\ Len(Inserted(map, k, v)) = Len(map) + 1
         /\ Present(Inserted(map, k, v), k) /\ Get(Inserted(map, k, v), k) = v
         /\ SameAs(map, Inserted(map, k, v), k)
         /\ \A i \in 1 .. Len(map) + 1 :
               \/ Inserted(map, k, v)[i] = Entry(k, v)
               \/ \E j \in 1..Len(map) : Inserted(map, k, v)[i] = map[j]
<1> DEFINE s == Slot(map, k)  new == Inserted(map, k, v)  N == Len(map)  e == Entry(k, v)
<1>1. /\ s \in 1 .. N + 1 /\ \A i \in 1..N : map[i].key < k <=> i < s
      /\ map \in Seq(MapEntries(V)) /\ Sorted(map) /\ N \in Nat
  BY SlotSplits DEF MapsTo
<1>2. e \in MapEntries(V) /\ e.key = k /\ e.value = v
  BY DEF Entry, MapEntries
<1>3. new = SubSeq(map, 1, s - 1) \o <<e>> \o SubSeq(map, s, N)
  BY DEF Inserted, InsertAt
<1> HIDE DEF e, new, s
<1>4. /\ SubSeq(map, 1, s - 1) \in Seq(MapEntries(V)) /\ Len(SubSeq(map, 1, s - 1)) = s - 1
      /\ \A i \in 1 .. s - 1 : SubSeq(map, 1, s - 1)[i] = map[i]
  BY <1>1
<1>5. /\ SubSeq(map, s, N) \in Seq(MapEntries(V)) /\ Len(SubSeq(map, s, N)) = N - s + 1
      /\ \A i \in 1 .. N - s + 1 : SubSeq(map, s, N)[i] = map[i + s - 1]
  BY <1>1
<1>6. /\ new \in Seq(MapEntries(V)) /\ Len(new) = N + 1
      /\ \A i \in 1 .. s - 1 : new[i] = map[i]
      /\ new[s] = e
      /\ \A i \in s + 1 .. N + 1 : new[i] = map[i - 1]
  <2> DEFINE a == SubSeq(map, 1, s - 1)  b == SubSeq(map, s, N)
  <2> HIDE DEF a, b
  <2>1. /\ new = a \o <<e>> \o b /\ a \in Seq(MapEntries(V)) /\ b \in Seq(MapEntries(V))
        /\ Len(a) = s - 1 /\ Len(b) = N - s + 1
        /\ \A i \in 1 .. s - 1 : a[i] = map[i]
        /\ \A i \in 1 .. N - s + 1 : b[i] = map[i + s - 1]
    BY <1>3, <1>4, <1>5 DEF a, b
  <2>2. /\ new \in Seq(MapEntries(V)) /\ Len(new) = Len(a) + 1 + Len(b)
        /\ \A i \in 1..Len(a) : new[i] = a[i]
        /\ new[Len(a) + 1] = e
        /\ \A i \in Len(a) + 2 .. Len(a) + 1 + Len(b) : new[i] = b[i - Len(a) - 1]
    <3>1. IsJoin(a \o <<e>> \o b, MapEntries(V), a, e, b)
      BY <1>2, <2>1, ThreeParts
    <3>2. IsJoin(new, MapEntries(V), a, e, b)
      BY <2>1, <3>1
    <3> QED BY <3>2 DEF IsJoin
  <2>3. ASSUME NEW i \in s + 1 .. N + 1 PROVE new[i] = map[i - 1]
    <3>1. i \in Len(a) + 2 .. Len(a) + 1 + Len(b) /\ i - Len(a) - 1 = i - s /\ i - s \in 1 .. N - s + 1
      BY <1>1, <2>1
    <3>2. new[i] = b[i - s]
      BY <2>2, <3>1
    <3>3. b[i - s] = map[(i - s) + s - 1] /\ (i - s) + s - 1 = i - 1
      BY <1>1, <2>1, <3>1
    <3> QED BY <3>2, <3>3
  <2> QED BY <1>1, <2>1, <2>2, <2>3
<1>7. \A i \in 1..N : map[i].key \in Nat /\ map[i].key # k
  BY EntryTyped, PresentIs
<1>8. new \in MapsTo(V)
  <2> SUFFICES ASSUME NEW i \in 1 .. N + 1, NEW j \in 1 .. N + 1, i < j
               PROVE  new[i].key < new[j].key
    BY <1>6 DEF MapsTo, Sorted
  <2>1. CASE j < s
    <3>1. /\ i \in 1..N /\ j \in 1..N /\ i \in 1 .. s - 1 /\ j \in 1 .. s - 1
      BY <1>1, <2>1
    <3> QED BY <1>1, <1>6, <3>1 DEF Sorted
  <2>2. CASE j = s
    BY <1>1, <1>2, <1>6, <2>2
  <2>3. CASE j > s
    <3>1. j - 1 \in 1..N /\ new[j] = map[j - 1] /\ k < map[j - 1].key
      <4>1. j - 1 \in 1..N /\ new[j] = map[j - 1] /\ ~(j - 1 < s)
        BY <1>1, <1>6, <2>3
      <4> QED BY <1>1, <1>7, <4>1
    <3>2. CASE i < s
      <4>1. i \in 1..N /\ new[i] = map[i] /\ i < j - 1
        BY <1>1, <1>6, <2>3, <3>2
      <4> QED BY <1>1, <3>1, <4>1 DEF Sorted
    <3>3. CASE i = s
      BY <1>2, <1>6, <3>1, <3>3
    <3>4. CASE i > s
      <4>1. i - 1 \in 1..N /\ new[i] = map[i - 1] /\ i - 1 < j - 1
        BY <1>1, <1>6, <3>4
      <4> QED BY <1>1, <3>1, <4>1 DEF Sorted
    <3> QED BY <1>1, <3>2, <3>3, <3>4
  <2> QED BY <1>1, <2>1, <2>2, <2>3
<1>9. Present(new, k) /\ Get(new, k) = v
  <2>1. s \in 1..Len(new)
    BY <1>1, <1>6
  <2> QED BY <1>2, <1>6, <1>8, <2>1, FoundAt
<1>10. \A i \in 1..N : \E j \in 1 .. N + 1 : new[j] = map[i]
  <2> SUFFICES ASSUME NEW i \in 1..N PROVE \E j \in 1 .. N + 1 : new[j] = map[i]
    OBVIOUS
  <2>1. CASE i < s
    BY <1>1, <1>6, <2>1
  <2>2. CASE i >= s
    <3>1. i + 1 \in s + 1 .. N + 1 /\ i + 1 \in 1 .. N + 1 /\ (i + 1) - 1 = i
      BY <1>1, <2>2
    <3>2. new[i + 1] = map[i]
      BY <1>6, <3>1
    <3> QED BY <3>1, <3>2
  <2> QED BY <1>1, <2>1, <2>2
<1>11. \A i \in 1 .. N + 1 : new[i] = e \/ \E j \in 1..N : new[i] = map[j]
  <2> SUFFICES ASSUME NEW i \in 1 .. N + 1, i # s PROVE \E j \in 1..N : new[i] = map[j]
    BY <1>6
  <2>1. CASE i < s
    <3>1. i \in 1..N /\ new[i] = map[i]
      BY <1>1, <1>6, <2>1
    <3> QED BY <3>1
  <2>2. CASE i > s
    <3>1. i - 1 \in 1..N /\ new[i] = map[i - 1]
      BY <1>1, <1>6, <2>2
    <3> QED BY <3>1
  <2> QED BY <1>1, <2>1, <2>2
<1>12. ASSUME NEW j \in Nat \ {k}
       PROVE  /\ Present(new, j) <=> Present(map, j)
              /\ Present(map, j) => Get(new, j) = Get(map, j)
  <2>1. Present(new, j) => Present(map, j)
    <3> SUFFICES ASSUME Present(new, j) PROVE Present(map, j)
      OBVIOUS
    <3>1. PICK i \in 1 .. N + 1 : new[i].key = j
      BY <1>6, <1>8, PresentIs
    <3>2. PICK i2 \in 1..N : new[i] = map[i2]
      BY <1>2, <1>11, <3>1
    <3> QED BY <3>1, <3>2, PresentIs
  <2>2. ASSUME Present(map, j) PROVE Present(new, j) /\ Get(new, j) = Get(map, j)
    <3>1. PICK i \in 1..N : map[i].key = j
      BY <2>2, PresentIs
    <3>2. Get(map, j) = map[i].value
      BY <3>1, FoundAt
    <3>3. PICK i2 \in 1 .. N + 1 : new[i2] = map[i]
      BY <1>10
    <3>4. Present(new, j) /\ Get(new, j) = new[i2].value
      BY <1>6, <1>8, <3>1, <3>3, FoundAt
    <3> QED BY <3>2, <3>3, <3>4
  <2> QED BY <2>1, <2>2
<1> QED BY <1>6, <1>8, <1>9, <1>11, <1>12 DEF SameAs, new, e

IsConcatenation(c, S, a, b) ==
    /\ c \in Seq(S) /\ Len(c) = Len(a) + Len(b)
    /\ \A i \in 1..Len(a) : c[i] = a[i]
    /\ \A i \in Len(a) + 1 .. Len(a) + Len(b) : c[i] = b[i - Len(a)]

LEMMA TwoParts ==
  ASSUME NEW S, NEW a \in Seq(S), NEW b \in Seq(S)
  PROVE  IsConcatenation(a \o b, S, a, b)
BY DEF IsConcatenation

\* remove: the entries behind the slot move back by one.
LEMMA RemovedMap ==
  ASSUME NEW V, NEW map \in MapsTo(V), NEW k \in Nat, Present(map, k)
  PROVE  /\ Removed(map, k) \in MapsTo(V) /\ ~Present(Removed(map, k), k)
         /\ SameAs(map, Removed(map, k), k)
         /\ \A i \in 1 .. Len(Removed(map, k)) :
               \E j \in 1..Len(map) : Removed(map, k)[i] = map[j]
<1> DEFINE s == Slot(map, k)  new == Removed(map, k)  N == Len(map)
<1>1. s \in 1..N /\ map[s].key = k /\ map \in Seq(MapEntries(V)) /\ Sorted(map) /\ N \in Nat
  BY PresentIs DEF MapsTo
<1>2. new = SubSeq(map, 1, s - 1) \o SubSeq(map, s + 1, N)
  BY DEF Removed, RemoveAt
<1> HIDE DEF new, s
<1>3. /\ SubSeq(map, 1, s - 1) \in Seq(MapEntries(V)) /\ Len(SubSeq(map, 1, s - 1)) = s - 1
      /\ \A i \in 1 .. s - 1 : SubSeq(map, 1, s - 1)[i] = map[i]
  BY <1>1
<1>4. /\ SubSeq(map, s + 1, N) \in Seq(MapEntries(V)) /\ Len(SubSeq(map, s + 1, N)) = N - s
      /\ \A i \in 1 .. N - s : SubSeq(map, s + 1, N)[i] = map[i + s]
  BY <1>1
<1>5. /\ new \in Seq(MapEntries(V)) /\ Len(new) = N - 1
      /\ \A i \in 1 .. s - 1 : new[i] = map[i]
      /\ \A i \in s .. N - 1 : new[i] = map[i + 1]
  <2> DEFINE a == SubSeq(map, 1, s - 1)  b == SubSeq(map, s + 1, N)
  <2> HIDE DEF a, b
  <2>1. /\ new = a \o b /\ a \in Seq(MapEntries(V)) /\ b \in Seq(MapEntries(V))
        /\ Len(a) = s - 1 /\ Len(b) = N - s
        /\ \A i \in 1 .. s - 1 : a[i] = map[i]
        /\ \A i \in 1 .. N - s : b[i] = map[i + s]
    BY <1>2, <1>3, <1>4 DEF a, b
  <2>2. /\ new \in Seq(MapEntries(V)) /\ Len(new) = Len(a) + Len(b)
        /\ \A i \in 1..Len(a) : new[i] = a[i]
        /\ \A i \in Len(a) + 1 .. Len(a) + Len(b) : new[i] = b[i - Len(a)]
    <3>1. IsConcatenation(a \o b, MapEntries(V), a, b)
      BY <2>1, TwoParts
    <3>2. IsConcatenation(new, MapEntries(V), a, b)
      BY <2>1, <3>1
    <3> QED BY <3>2 DEF IsConcatenation
  <2>3. ASSUME NEW i \in s .. N - 1 PROVE new[i] = map[i + 1]
    <3>1. /\ i \in Len(a) + 1 .. Len(a) + Len(b) /\ i - Len(a) = i - s + 1
          /\ i - s + 1 \in 1 .. N - s /\ (i - s + 1) + s = i + 1
      BY <1>1, <2>1
    <3>2. new[i] = b[i - s + 1]
      BY <2>2, <3>1
    <3>3. b[i - s + 1] = map[(i - s + 1) + s]
      BY <2>1, <3>1
    <3> QED BY <3>1, <3>2, <3>3
  <2>4. Len(new) = N - 1
    BY <1>1, <2>1, <2>2
  <2>5. \A i \in 1 .. s - 1 : new[i] = map[i]
    BY <2>1, <2>2
  <2> QED BY <2>2, <2>3, <2>4, <2>5
<1> DEFINE From(i) == IF i < s THEN i ELSE i + 1
<1>6. \A i \in 1 .. N - 1 : From(i) \in 1..N /\ From(i) # s /\ new[i] = map[From(i)]
  <2> SUFFICES ASSUME NEW i \in 1 .. N - 1
               PROVE  From(i) \in 1..N /\ From(i) # s /\ new[i] = map[From(i)]
    OBVIOUS
  <2>1. CASE i < s
    <3>1. i \in 1 .. s - 1 /\ i \in 1..N /\ From(i) = i
      BY <1>1, <2>1
    <3> QED BY <1>1, <1>5, <3>1
  <2>2. CASE ~(i < s)
    <3>1. i \in s .. N - 1 /\ i + 1 \in 1..N /\ From(i) = i + 1
      BY <1>1, <2>2
    <3>2. i + 1 # s
      BY <1>1, <2>2
    <3> QED BY <1>5, <3>1, <3>2
  <2> QED BY <2>1, <2>2
<1>7. \A i, j \in 1 .. N - 1 : i < j => From(i) < From(j)
  BY <1>1
<1>8. \A i \in 1..N : i # s => \E j \in 1 .. N - 1 : From(j) = i
  <2> SUFFICES ASSUME NEW i \in 1..N, i # s PROVE \E j \in 1 .. N - 1 : From(j) = i
    OBVIOUS
  <2>1. CASE i < s
    <3>1. i \in 1 .. N - 1 /\ From(i) = i
      BY <1>1, <2>1
    <3> QED BY <3>1
  <2>2. CASE i > s
    <3>1. i - 1 \in 1 .. N - 1 /\ From(i - 1) = i
      BY <1>1, <2>2
    <3> QED BY <3>1
  <2> QED BY <1>1, <2>1, <2>2
<1> HIDE DEF From
<1>9. \A i \in 1..N : map[i].key \in Nat /\ (map[i].key = k => i = s)
  <2>1. \A i \in 1..N : Slot(map, map[i].key) = i
    BY FoundAt
  <2> QED BY <2>1, EntryTyped DEF s
<1>10. new \in MapsTo(V)
  BY <1>1, <1>5, <1>6, <1>7 DEF MapsTo, Sorted
<1>11. ~Present(new, k)
  <2>1. Present(new, k) => \E i \in 1 .. N - 1 : new[i].key = k
    BY <1>5, <1>10, PresentIs
  <2> QED BY <1>6, <1>9, <2>1
<1>12. ASSUME NEW j \in Nat \ {k}
       PROVE  /\ Present(new, j) <=> Present(map, j)
              /\ Present(map, j) => Get(new, j) = Get(map, j)
  <2>1. Present(new, j) => Present(map, j)
    <3> SUFFICES ASSUME Present(new, j) PROVE Present(map, j)
      OBVIOUS
    <3>1. PICK i \in 1 .. N - 1 : new[i].key = j
      BY <1>5, <1>10, PresentIs
    <3> QED BY <1>6, <3>1, PresentIs
  <2>2. ASSUME Present(map, j) PROVE Present(new, j) /\ Get(new, j) = Get(map, j)
    <3>1. PICK i \in 1..N : map[i].key = j
      BY <2>2, PresentIs
    <3>2. Get(map, j) = map[i].value
      BY <3>1, FoundAt
    <3>3. i # s
      BY <1>1, <3>1
    <3>4. PICK i2 \in 1 .. N - 1 : From(i2) = i
      BY <1>8, <3>3
    <3>5. new[i2] = map[i] /\ i2 \in 1..Len(new)
      BY <1>5, <1>6, <3>4
    <3>6. Present(new, j) /\ Get(new, j) = new[i2].value
      BY <1>10, <3>1, <3>5, FoundAt
    <3> QED BY <3>2, <3>5, <3>6
  <2> QED BY <2>1, <2>2
<1>13. \A i \in 1..Len(new) : \E j \in 1..N : new[i] = map[j]
  BY <1>5, <1>6
<1> QED BY <1>10, <1>11, <1>12, <1>13 DEF SameAs, new

-----------------------------------------------------------------------------
(* Roles and members: the tables implement sets of holders.                *)

RoleMetadata == [index : Nat, enabled : BOOLEAN]
BitSets == SUBSET Nat
TablesTyped ==
    /\ roles \in MapsTo(RoleMetadata)
    /\ members \in MapsTo(BitSets)
AuthoritiesTyped ==
    /\ authority \in Users /\ nextAuthority \in Users
    /\ restartSlot \in Nat /\ lastRestart \in Nat /\ restartSlot <= lastRestart

\* A bit stands for one role, and no bit is set that stands for none: the
\* next role gets a bit that nobody has.
BitsOfOneRole ==
    \A r, s \in Roles : (Known(r) /\ Known(s) /\ RoleIndex(r) = RoleIndex(s)) => r = s
BitsInUse ==
    /\ \A r \in Roles : Known(r) => RoleIndex(r) < Len(roles)
    /\ \A u \in Nat : Present(members, u) => \A b \in Get(members, u) : b < Len(roles)

StoreRolesInv == TablesTyped /\ AuthoritiesTyped /\ BitsOfOneRole /\ BitsInUse

LEMMA EmptyMapTyped ==
  ASSUME NEW V
  PROVE  EmptyMap \in MapsTo(V) /\ \A k : ~Present(EmptyMap, k)
<1>1. EmptyMap \in Seq(MapEntries(V)) /\ Len(EmptyMap) = 0 /\ DOMAIN EmptyMap = {}
  BY DEF EmptyMap
<1>2. Sorted(EmptyMap)
  BY <1>1 DEF Sorted
<1> QED BY <1>1, <1>2 DEF MapsTo, Present

LEMMA StoreRolesInvInit == StoreRolesInit => StoreRolesInv
<1> SUFFICES ASSUME StoreRolesInit PROVE StoreRolesInv
  OBVIOUS
<1>1. TablesTyped /\ \A k : ~Present(roles, k) /\ ~Present(members, k)
  BY EmptyMapTyped DEF StoreRolesInit, TablesTyped
<1>2. AuthoritiesTyped
  BY StoreRolesAssumption DEF StoreRolesInit, AuthoritiesTyped
<1>3. BitsOfOneRole /\ BitsInUse
  BY <1>1 DEF BitsOfOneRole, BitsInUse, Known
<1> QED BY <1>1, <1>2, <1>3 DEF StoreRolesInv

\* Which role the administrative instructions ask for.
LEMMA Required ==
  /\ \A i \in {"update_last_restarted_slot", "transfer_store_authority", "enable_role",
               "disable_role", "grant_role", "revoke_role"} :
        i \in Instructions /\ RequiredRole[i] = "ADMIN"
  /\ \A i \in {"accept_store_authority", "transfer_receiver", "accept_receiver"} :
        i \in Instructions /\ RequiredRole[i] = "signer"
<1>3. \A i \in DOMAIN StoreAccess : i \in Instructions /\ RequiredRole[i] = StoreAccess[i]
  BY DEF RequiredRole, Instructions
<1>4. \A i \in DOMAIN RoleAccess \ DOMAIN StoreAccess :
         i \in Instructions /\ RequiredRole[i] = RoleAccess[i]
  BY DEF RequiredRole, Instructions
<1>1. /\ {"update_last_restarted_slot", "transfer_store_authority", "accept_store_authority",
          "transfer_receiver", "accept_receiver"} \subseteq DOMAIN StoreAccess
      /\ StoreAccess["update_last_restarted_slot"] = "ADMIN"
      /\ StoreAccess["transfer_store_authority"] = "ADMIN"
      /\ StoreAccess["accept_store_authority"] = "signer"
      /\ StoreAccess["transfer_receiver"] = "signer"
      /\ StoreAccess["accept_receiver"] = "signer"
  BY DEF StoreAccess
<1>2. /\ {"enable_role", "disable_role", "grant_role", "revoke_role"}
            \subseteq DOMAIN RoleAccess \ DOMAIN StoreAccess
      /\ RoleAccess["enable_role"] = "ADMIN" /\ RoleAccess["disable_role"] = "ADMIN"
      /\ RoleAccess["grant_role"] = "ADMIN" /\ RoleAccess["revoke_role"] = "ADMIN"
  BY DEF StoreAccess, RoleAccess
<1> QED BY <1>1, <1>2, <1>3, <1>4

\* A caller may do by the tables what AccessControl permits.
LEMMA BitIsHeld ==
  ASSUME NEW u \in Users, NEW r
  PROVE  HasBit(u, r) <=> Control!Holds(u, r)
<1>1. EnabledRole(r) => r \in Roles
  BY DEF EnabledRole, Known
<1>2. r \in Roles => (u \in Holders[r] <=> HasBitOfKnown(u, r))
  BY DEF Holders
<1> QED BY <1>1, <1>2 DEF HasBit, Control!Holds, HasBitOfKnown, EnabledRole

LEMMA OnlyIsPermitted ==
  ASSUME NEW u \in Users, NEW r
  PROVE  Only(u, r) <=> Control!Permitted(u, r)
<1>1. CASE r = "signer"
  BY <1>1 DEF Only, Control!Permitted
<1>2. CASE r = "ADMIN"
  <2>1. Only(u, r) <=> HasAdminRole(u)
    BY <1>2 DEF Only
  <2>2. Control!Permitted(u, r)
          <=> u = authority \/ (HasRestarted /\ Control!Holds(u, "RESTART_ADMIN"))
    BY <1>2 DEF Control!Permitted
  <2> QED BY <2>1, <2>2, BitIsHeld DEF HasAdminRole
<1>3. CASE r # "signer" /\ r # "ADMIN"
  <2>1. Only(u, r) <=> HasRole(u, r)
    BY <1>3 DEF Only
  <2>2. Control!Permitted(u, r)
          <=> Control!Holds(u, IF HasRestarted THEN "RESTART_ADMIN" ELSE r)
    BY <1>3 DEF Control!Permitted
  <2> QED BY <2>1, <2>2, BitIsHeld DEF HasRole
<1> QED BY <1>1, <1>2, <1>3

LEMMA CallIsServed ==
  ASSUME NEW u \in Users, NEW i
  PROVE  Call(u, i) => Control!Serve(u, RequiredRole[i])
BY OnlyIsPermitted DEF Call, Control!Serve

\* What enable_role and disable_role write in the table of roles.
RoleWritten(r, on) ==
    /\ roles' \in MapsTo(RoleMetadata)
    /\ SameAs(roles, roles', KeyOf[r])
    /\ Known(r)' /\ Metadata(r)'.enabled = on
    /\ Known(r) => RoleIndex(r)' = RoleIndex(r) /\ Len(roles') = Len(roles)
    /\ ~Known(r) => RoleIndex(r)' = Len(roles) /\ Len(roles') = Len(roles) + 1

LEMMA KnownSet ==
  ASSUME StoreRolesInv, NEW r \in Roles, Known(r), NEW on \in BOOLEAN,
         roles' = Set(roles, KeyOf[r], [Metadata(r) EXCEPT !.enabled = on])
  PROVE  RoleWritten(r, on)
<1>1. KeyOf[r] \in Nat /\ roles \in MapsTo(RoleMetadata) /\ Present(roles, KeyOf[r])
  BY StoreRolesAssumption DEF StoreRolesInv, TablesTyped, Known
<1>2. Metadata(r) \in RoleMetadata
  BY <1>1, PresentIs DEF Metadata
<1>3. /\ [Metadata(r) EXCEPT !.enabled = on] \in RoleMetadata
      /\ [Metadata(r) EXCEPT !.enabled = on].enabled = on
      /\ [Metadata(r) EXCEPT !.enabled = on].index = Metadata(r).index
  BY <1>2 DEF RoleMetadata
<1>4. /\ roles' \in MapsTo(RoleMetadata) /\ Len(roles') = Len(roles)
      /\ Present(roles', KeyOf[r])
      /\ Get(roles', KeyOf[r]) = [Metadata(r) EXCEPT !.enabled = on]
      /\ SameAs(roles, roles', KeyOf[r])
  BY <1>1, <1>3, SetMap
<1>5. Known(r)' /\ Metadata(r)' = Get(roles', KeyOf[r])
  BY <1>4 DEF Known, Metadata
<1> QED BY <1>3, <1>4, <1>5 DEF RoleWritten, RoleIndex

LEMMA EnableWrites ==
  ASSUME StoreRolesInv, NEW u \in Users, NEW r \in Roles, EnableRole(u, r)
  PROVE  RoleWritten(r, TRUE)
<1>1. CASE Known(r)
  BY <1>1, KnownSet DEF EnableRole, RolesWith
<1>2. CASE ~Known(r)
  <2> DEFINE v == [index |-> NewIndex, enabled |-> TRUE]
  <2>1. KeyOf[r] \in Nat /\ roles \in MapsTo(RoleMetadata) /\ ~Present(roles, KeyOf[r])
    BY <1>2, StoreRolesAssumption DEF StoreRolesInv, TablesTyped, Known
  <2>2. Len(roles) \in Nat
    BY <2>1 DEF MapsTo
  <2>3. v \in RoleMetadata /\ v.index = Len(roles) /\ v.enabled = TRUE
    BY <2>2 DEF RoleMetadata, NewIndex
  <2>4. roles' = Inserted(roles, KeyOf[r], v)
    BY <1>2 DEF EnableRole, RolesWith
  <2> HIDE DEF v
  <2>5. /\ roles' \in MapsTo(RoleMetadata) /\ Len(roles') = Len(roles) + 1
        /\ Present(roles', KeyOf[r]) /\ Get(roles', KeyOf[r]) = v
        /\ SameAs(roles, roles', KeyOf[r])
    BY <2>1, <2>3, <2>4, InsertedMap
  <2>6. Known(r)' /\ Metadata(r)' = v
    BY <2>5 DEF Known, Metadata
  <2> QED BY <1>2, <2>3, <2>5, <2>6 DEF RoleWritten, RoleIndex
<1> QED BY <1>1, <1>2

LEMMA OthersKeepTheirRole ==
  ASSUME NEW r \in Roles, NEW s \in Roles \ {r}, SameAs(roles, roles', KeyOf[r])
  PROVE  /\ Known(s)' <=> Known(s)
         /\ Known(s) => Metadata(s)' = Metadata(s)
<1>1. KeyOf[s] \in Nat \ {KeyOf[r]}
  BY StoreRolesAssumption
<1> QED BY <1>1 DEF SameAs, Known, Metadata
\* The bits set for a user: none for who is not in the table.
Bits(u) == IF Present(members, u) THEN Get(members, u) ELSE {}
BitsBelow(n) == \A u \in Nat : \A b \in Bits(u) : b < n

LEMMA BitsAreHeld ==
  ASSUME NEW u, NEW r
  PROVE  HasBitOfKnown(u, r) <=> Known(r) /\ RoleIndex(r) \in Bits(u)
BY DEF HasBitOfKnown, Bits

LEMMA BitsInUseIs == BitsInUse <=> /\ \A r \in Roles : Known(r) => RoleIndex(r) < Len(roles)
                                   /\ BitsBelow(Len(roles))
BY DEF BitsInUse, BitsBelow, Bits

LEMMA RolesTyped ==
  ASSUME StoreRolesInv
  PROVE  /\ Len(roles) \in Nat
         /\ \A r \in Roles : Known(r) => RoleIndex(r) \in Nat /\ RoleIndex(r) < Len(roles)
         /\ \A u \in Nat : Bits(u) \subseteq Nat
<1>1. roles \in MapsTo(RoleMetadata) /\ members \in MapsTo(BitSets)
  BY DEF StoreRolesInv, TablesTyped
<1>2. ASSUME NEW r \in Roles, Known(r) PROVE RoleIndex(r) \in Nat
  <2>1. Metadata(r) \in RoleMetadata
    BY <1>1, <1>2, PresentIs, StoreRolesAssumption DEF Known, Metadata
  <2> QED BY <2>1 DEF RoleIndex, RoleMetadata
<1>3. ASSUME NEW u \in Nat PROVE Bits(u) \subseteq Nat
  BY <1>1, <1>3, PresentIs DEF Bits, BitSets
<1>4. Len(roles) \in Nat
  BY <1>1 DEF MapsTo
<1> QED BY <1>2, <1>3, <1>4 DEF StoreRolesInv, BitsInUse

\* Writing one role leaves every holder where it is, and the invariant true.
LEMMA RoleWrittenMeans ==
  ASSUME StoreRolesInv, NEW r \in Roles, NEW on \in BOOLEAN, RoleWritten(r, on),
         UNCHANGED members
  PROVE  /\ TablesTyped' /\ BitsOfOneRole' /\ BitsInUse'
         /\ Holders' = Holders
         /\ \A s \in Roles : EnabledRole(s)' <=> (IF s = r THEN on ELSE EnabledRole(s))
<1>1. /\ Known(r)' /\ Metadata(r)'.enabled = on
      /\ Known(r) => RoleIndex(r)' = RoleIndex(r) /\ Len(roles') = Len(roles)
      /\ ~Known(r) => RoleIndex(r)' = Len(roles) /\ Len(roles') = Len(roles) + 1
  BY DEF RoleWritten
<1>2. \A s \in Roles \ {r} : /\ Known(s)' <=> Known(s)
                             /\ Known(s) => Metadata(s)' = Metadata(s)
  BY OthersKeepTheirRole DEF RoleWritten
<1>3. \A s \in Roles \ {r} : Known(s) => RoleIndex(s)' = RoleIndex(s)
  BY <1>2 DEF RoleIndex
<1>4. \A u : Bits(u)' = Bits(u)
  BY DEF Bits
<1>5. TablesTyped'
  BY DEF TablesTyped, RoleWritten, StoreRolesInv
<1>6. /\ \A s, t \in Roles : (Known(s) /\ Known(t) /\ RoleIndex(s) = RoleIndex(t)) => s = t
      /\ BitsBelow(Len(roles))
  BY BitsInUseIs DEF StoreRolesInv, BitsOfOneRole
<1>7. BitsOfOneRole'
  <2> SUFFICES ASSUME NEW s \in Roles, NEW t \in Roles,
                      Known(s)', Known(t)', RoleIndex(s)' = RoleIndex(t)'
               PROVE  s = t
    BY Zenon DEF BitsOfOneRole
  <2> QED BY <1>1, <1>2, <1>3, <1>6, RolesTyped
<1>8. \A s \in Roles : Known(s)' => RoleIndex(s)' < Len(roles')
  <2> SUFFICES ASSUME NEW s \in Roles, Known(s)' PROVE RoleIndex(s)' < Len(roles')
    OBVIOUS
  <2> QED BY <1>1, <1>2, <1>3, RolesTyped
<1>9. BitsBelow(Len(roles))'
  <2> SUFFICES ASSUME NEW u \in Nat, NEW b \in Bits(u) PROVE b < Len(roles')
    BY <1>4 DEF BitsBelow
  <2> QED BY <1>1, <1>6, RolesTyped DEF BitsBelow
<1>10. BitsInUse'
  BY <1>8, <1>9 DEF BitsInUse, BitsBelow, Bits
<1>11. ASSUME NEW s \in Roles, NEW u \in Users
       PROVE  HasBitOfKnown(u, s)' <=> HasBitOfKnown(u, s)
  <2>1. u \in Nat
    BY StoreRolesAssumption
  <2>2. HasBitOfKnown(u, s)' <=> Known(s)' /\ RoleIndex(s)' \in Bits(u)
    BY <1>4 DEF HasBitOfKnown, Bits
  <2>3. HasBitOfKnown(u, s) <=> Known(s) /\ RoleIndex(s) \in Bits(u)
    BY BitsAreHeld
  <2>4. Len(roles) \notin Bits(u)
    BY <1>6, <2>1, RolesTyped DEF BitsBelow
  <2> QED BY <1>1, <1>2, <1>3, <2>2, <2>3, <2>4
<1>12. Holders' = Holders
  BY <1>11 DEF Holders
<1>13. \A s \in Roles : EnabledRole(s)' <=> (IF s = r THEN on ELSE EnabledRole(s))
  <2> SUFFICES ASSUME NEW s \in Roles
               PROVE  EnabledRole(s)' <=> (IF s = r THEN on ELSE EnabledRole(s))
    OBVIOUS
  <2>1. EnabledRole(s)' <=> Known(s)' /\ Metadata(s)'.enabled
    BY DEF EnabledRole
  <2> QED BY <1>1, <1>2, <2>1 DEF EnabledRole
<1> QED BY <1>5, <1>7, <1>10, <1>12, <1>13

\* What grant_role and revoke_role write in the table of members.
MemberWritten(member, bits) ==
    /\ members' \in MapsTo(BitSets)
    /\ Bits(member)' = bits
    /\ \A u \in Nat \ {member} : Bits(u)' = Bits(u)

LEMMA OthersKeepTheirBits ==
  ASSUME NEW member, SameAs(members, members', member)
  PROVE  \A u \in Nat \ {member} : Bits(u)' = Bits(u)
BY DEF SameAs, Bits

LEMMA GrantWrites ==
  ASSUME StoreRolesInv, NEW member \in Nat, NEW r \in Roles, Known(r),
         members' = MembersWith(member, r)
  PROVE  MemberWritten(member, Bits(member) \cup {RoleIndex(r)})
<1>1. members \in MapsTo(BitSets) /\ RoleIndex(r) \in Nat /\ Bits(member) \subseteq Nat
  BY RolesTyped DEF StoreRolesInv, TablesTyped
<1>2. CASE Present(members, member)
  <2> DEFINE bits == Bits(member) \cup {RoleIndex(r)}
  <2>1. bits \in BitSets /\ members' = Set(members, member, bits)
    BY <1>1, <1>2 DEF MembersWith, Bits, BitSets
  <2> HIDE DEF bits
  <2>2. /\ members' \in MapsTo(BitSets) /\ SameAs(members, members', member)
        /\ Present(members', member) /\ Get(members', member) = bits
    BY <1>1, <1>2, <2>1, SetMap
  <2>3. Bits(member)' = bits
    BY <2>2 DEF Bits
  <2> QED BY <2>2, <2>3, OthersKeepTheirBits DEF MemberWritten, bits
<1>3. CASE ~Present(members, member)
  <2> DEFINE bits == {RoleIndex(r)}
  <2>1. bits \in BitSets /\ members' = Inserted(members, member, bits)
    BY <1>1, <1>3 DEF MembersWith, BitSets
  <2>2. bits = Bits(member) \cup {RoleIndex(r)}
    BY <1>3 DEF Bits
  <2> HIDE DEF bits
  <2>3. /\ members' \in MapsTo(BitSets) /\ SameAs(members, members', member)
        /\ Present(members', member) /\ Get(members', member) = bits
    BY <1>1, <1>3, <2>1, InsertedMap
  <2>4. Bits(member)' = bits
    BY <2>3 DEF Bits
  <2> QED BY <2>2, <2>3, <2>4, OthersKeepTheirBits DEF MemberWritten
<1> QED BY <1>2, <1>3

LEMMA RevokeWrites ==
  ASSUME StoreRolesInv, NEW member \in Nat, NEW r \in Roles, HasBitOfKnown(member, r),
         members' = MembersWithout(member, r)
  PROVE  MemberWritten(member, Bits(member) \ {RoleIndex(r)})
<1>1. members \in MapsTo(BitSets) /\ RoleIndex(r) \in Nat /\ Bits(member) \subseteq Nat
  BY RolesTyped DEF StoreRolesInv, TablesTyped, HasBitOfKnown
<1>2. Present(members, member) /\ Bits(member) = Get(members, member)
  BY DEF HasBitOfKnown, Bits
<1> DEFINE bits == Bits(member) \ {RoleIndex(r)}
<1>3. CASE LastRole(member, r)
  <2>1. bits = {}
    BY <1>2, <1>3 DEF LastRole
  <2>2. members' = Removed(members, member)
    BY <1>3 DEF MembersWithout
  <2> HIDE DEF bits
  <2>3. /\ members' \in MapsTo(BitSets) /\ SameAs(members, members', member)
        /\ ~Present(members', member)
    BY <1>1, <1>2, <2>2, RemovedMap
  <2>4. Bits(member)' = bits
    BY <2>1, <2>3 DEF Bits
  <2> QED BY <2>3, <2>4, OthersKeepTheirBits DEF MemberWritten, bits
<1>4. CASE ~LastRole(member, r)
  <2>1. bits \in BitSets /\ members' = Set(members, member, bits)
    BY <1>1, <1>2, <1>4 DEF MembersWithout, BitSets
  <2> HIDE DEF bits
  <2>2. /\ members' \in MapsTo(BitSets) /\ SameAs(members, members', member)
        /\ Present(members', member) /\ Get(members', member) = bits
    BY <1>1, <1>2, <2>1, SetMap
  <2>3. Bits(member)' = bits
    BY <2>2 DEF Bits
  <2> QED BY <2>2, <2>3, OthersKeepTheirBits DEF MemberWritten, bits
<1> QED BY <1>3, <1>4

\* Setting or clearing the bit of one role changes who holds that role, and
\* no other.
LEMMA MemberWrittenMeans ==
  ASSUME StoreRolesInv, NEW member \in Users, NEW r \in Roles, Known(r), NEW on \in BOOLEAN,
         NEW bits, MemberWritten(member, bits), UNCHANGED roles,
         bits = IF on THEN Bits(member) \cup {RoleIndex(r)} ELSE Bits(member) \ {RoleIndex(r)}
  PROVE  /\ TablesTyped' /\ BitsOfOneRole' /\ BitsInUse'
         /\ Holders' = [Holders EXCEPT ![r] = IF on THEN @ \cup {member} ELSE @ \ {member}]
         /\ \A s \in Roles : EnabledRole(s)' <=> EnabledRole(s)
<1>1. /\ members' \in MapsTo(BitSets) /\ Bits(member)' = bits
      /\ \A u \in Nat \ {member} : Bits(u)' = Bits(u)
  BY DEF MemberWritten
<1>2. \A s : (Known(s)' <=> Known(s)) /\ Metadata(s)' = Metadata(s)
  BY DEF Known, Metadata
<1>3. \A s : RoleIndex(s)' = RoleIndex(s)
  BY <1>2 DEF RoleIndex
<1>4. TablesTyped'
  BY <1>1 DEF TablesTyped, StoreRolesInv
<1>5. BitsOfOneRole'
  BY <1>2, <1>3 DEF StoreRolesInv, BitsOfOneRole
<1>6. member \in Nat /\ RoleIndex(r) < Len(roles) /\ BitsBelow(Len(roles))
  BY StoreRolesAssumption, RolesTyped, BitsInUseIs DEF StoreRolesInv
<1>7. \A u \in Nat : \A b \in Bits(u)' : b < Len(roles)
  BY <1>1, <1>6 DEF BitsBelow
<1>8. BitsInUse'
  <2>1. \A u \in Nat : Present(members', u) => \A b \in Get(members', u) : b < Len(roles)
    BY <1>7 DEF Bits
  <2>2. \A s \in Roles : Known(s)' => RoleIndex(s)' < Len(roles)
    BY <1>2, <1>3, RolesTyped
  <2> QED BY <2>1, <2>2 DEF BitsInUse
<1>9. ASSUME NEW s \in Roles, NEW u \in Users
      PROVE  HasBitOfKnown(u, s)' <=> IF s = r /\ u = member THEN on ELSE HasBitOfKnown(u, s)
  <2>1. u \in Nat
    BY StoreRolesAssumption
  <2>2. HasBitOfKnown(u, s)' <=> Known(s) /\ RoleIndex(s) \in Bits(u)'
    BY <1>2, <1>3 DEF HasBitOfKnown, Bits
  <2>3. HasBitOfKnown(u, s) <=> Known(s) /\ RoleIndex(s) \in Bits(u)
    BY BitsAreHeld
  <2>4. (Known(s) /\ RoleIndex(s) = RoleIndex(r)) => s = r
    BY DEF StoreRolesInv, BitsOfOneRole
  <2> QED BY <1>1, <2>1, <2>2, <2>3, <2>4
<1>10. ASSUME NEW s \in Roles
       PROVE  Holders'[s] = [Holders EXCEPT ![r] = IF on THEN @ \cup {member} ELSE @ \ {member}][s]
  <2>1. Holders[s] = {u \in Users : HasBitOfKnown(u, s)}
    BY DEF Holders
  <2>2. Holders'[s] = {u \in Users : HasBitOfKnown(u, s)'}
    BY DEF Holders
  <2>3. CASE s = r
    <3>1. [Holders EXCEPT ![r] = IF on THEN @ \cup {member} ELSE @ \ {member}][s]
            = IF on THEN Holders[s] \cup {member} ELSE Holders[s] \ {member}
      BY <2>3 DEF Holders
    <3> QED BY <1>9, <2>1, <2>2, <2>3, <3>1
  <2>4. CASE s # r
    <3>1. [Holders EXCEPT ![r] = IF on THEN @ \cup {member} ELSE @ \ {member}][s] = Holders[s]
      BY <2>4 DEF Holders
    <3> QED BY <1>9, <2>1, <2>2, <2>4, <3>1
  <2> QED BY <2>3, <2>4
<1>11. Holders' = [Holders EXCEPT ![r] = IF on THEN @ \cup {member} ELSE @ \ {member}]
  <2>1. Holders' = [s \in Roles |-> Holders'[s]] /\ DOMAIN Holders = Roles
    BY DEF Holders
  <2> QED BY <1>10, <2>1
<1>12. \A s \in Roles : EnabledRole(s)' <=> EnabledRole(s)
  BY <1>2 DEF EnabledRole
<1> QED BY <1>4, <1>5, <1>8, <1>11, <1>12

\* What the instructions that write no table leave as it was.
LEMMA TablesKept ==
  ASSUME StoreRolesInv, UNCHANGED tables
  PROVE  /\ TablesTyped' /\ BitsOfOneRole' /\ BitsInUse' /\ Holders' = Holders
         /\ \A s \in Roles : EnabledRole(s)' <=> EnabledRole(s)
<1>1. \A s : (Known(s)' <=> Known(s)) /\ Metadata(s)' = Metadata(s)
  BY DEF Known, Metadata, tables
<1>2. \A s : RoleIndex(s)' = RoleIndex(s)
  BY <1>1 DEF RoleIndex
<1>3. \A u, s : HasBitOfKnown(u, s)' <=> HasBitOfKnown(u, s)
  BY <1>1, <1>2 DEF HasBitOfKnown, tables
<1>4. Holders' = Holders
  BY <1>3 DEF Holders
<1>5. \A s \in Roles : EnabledRole(s)' <=> EnabledRole(s)
  BY <1>1 DEF EnabledRole
<1>6. TablesTyped'
  BY DEF StoreRolesInv, TablesTyped, tables
<1>7. BitsOfOneRole'
  BY <1>1, <1>2 DEF StoreRolesInv, BitsOfOneRole
<1>8. BitsInUse'
  BY <1>1, <1>2 DEF StoreRolesInv, BitsInUse, tables
<1> QED BY <1>4, <1>5, <1>6, <1>7, <1>8

LEMMA RestartKept ==
  ASSUME UNCHANGED <<restartSlot, lastRestart>>
  PROVE  HasRestarted' = HasRestarted
BY DEF HasRestarted

\* The four instructions on the tables, each a change of the permissions by
\* an admin, or nothing.
LEMMA EnableRefines ==
  ASSUME StoreRolesInv, NEW u \in Users, NEW r \in Roles, EnableRole(u, r)
  PROVE  StoreRolesInv' /\ Control!Administer(u)
<1>1. Control!Serve(u, "ADMIN")
  BY CallIsServed, Required DEF EnableRole
<1>2. /\ TablesTyped' /\ BitsOfOneRole' /\ BitsInUse' /\ Holders' = Holders
      /\ \A s \in Roles : EnabledRole(s)' <=> (IF s = r THEN TRUE ELSE EnabledRole(s))
  BY EnableWrites, RoleWrittenMeans DEF EnableRole
<1>3. UNCHANGED <<authority, nextAuthority, restartSlot, lastRestart>>
  BY DEF EnableRole, authorities
<1>4. AuthoritiesTyped'
  BY <1>3 DEF AuthoritiesTyped, StoreRolesInv
<1>5. ~EnabledRole(r)
  BY DEF EnableRole, EnabledRole
<1>6. {s \in Roles : EnabledRole(s)'} = {s \in Roles : EnabledRole(s)} \cup {r}
  BY <1>2
<1>7. Control!Enable(r)
  BY <1>2, <1>5, <1>6 DEF Control!Enable
<1>8. Control!ChangePermissions
  BY <1>3, <1>7, RestartKept DEF Control!ChangePermissions
<1> QED BY <1>1, <1>2, <1>4, <1>8 DEF Control!Administer, StoreRolesInv

LEMMA DisableRefines ==
  ASSUME StoreRolesInv, NEW u \in Users, NEW r \in Roles, DisableRole(u, r)
  PROVE  StoreRolesInv' /\ (Control!Administer(u) \/ Control!Act(u, "ADMIN"))
<1>1. Control!Serve(u, "ADMIN")
  BY CallIsServed, Required DEF DisableRole
<1>2. UNCHANGED <<authority, nextAuthority, restartSlot, lastRestart>>
  BY DEF DisableRole, authorities
<1>3. AuthoritiesTyped' /\ HasRestarted' = HasRestarted
  BY <1>2, RestartKept DEF AuthoritiesTyped, StoreRolesInv
<1>4. CASE Known(r)
  <2>1. /\ TablesTyped' /\ BitsOfOneRole' /\ BitsInUse' /\ Holders' = Holders
        /\ \A s \in Roles : EnabledRole(s)' <=> (IF s = r THEN FALSE ELSE EnabledRole(s))
    BY <1>4, KnownSet, RoleWrittenMeans DEF DisableRole, RolesWithout
  <2>2. EnabledRole(r)
    BY <1>4 DEF DisableRole
  <2>3. {s \in Roles : EnabledRole(s)'} = {s \in Roles : EnabledRole(s)} \ {r}
    BY <2>1
  <2>4. Control!Disable(r)
    BY <2>1, <2>2, <2>3 DEF Control!Disable
  <2>5. Control!ChangePermissions
    BY <1>2, <1>3, <2>4 DEF Control!ChangePermissions
  <2> QED BY <1>1, <1>3, <2>1, <2>5 DEF Control!Administer, StoreRolesInv
<1>5. CASE ~Known(r)
  <2>1. UNCHANGED tables
    BY <1>5 DEF DisableRole, RolesWithout, tables
  <2>2. /\ TablesTyped' /\ BitsOfOneRole' /\ BitsInUse' /\ Holders' = Holders
        /\ \A s \in Roles : EnabledRole(s)' <=> EnabledRole(s)
    BY <2>1, TablesKept
  <2> QED BY <1>1, <1>2, <1>3, <2>2 DEF Control!Act, Control!permissions, StoreRolesInv
<1> QED BY <1>4, <1>5

LEMMA GrantRefines ==
  ASSUME StoreRolesInv, NEW u \in Users, NEW v \in Users, NEW r \in Roles, GrantRole(u, v, r)
  PROVE  StoreRolesInv' /\ Control!Administer(u)
<1>1. Control!Serve(u, "ADMIN")
  BY CallIsServed, Required DEF GrantRole
<1>2. v \in Nat /\ Known(r) /\ EnabledRole(r) /\ UNCHANGED roles
  BY StoreRolesAssumption DEF GrantRole, EnabledRole
<1>3. /\ TablesTyped' /\ BitsOfOneRole' /\ BitsInUse'
      /\ Holders' = [Holders EXCEPT ![r] = IF TRUE THEN @ \cup {v} ELSE @ \ {v}]
      /\ \A s \in Roles : EnabledRole(s)' <=> EnabledRole(s)
  BY <1>2, GrantWrites, MemberWrittenMeans DEF GrantRole
<1>4. UNCHANGED <<authority, nextAuthority, restartSlot, lastRestart>>
  BY DEF GrantRole, authorities
<1>5. AuthoritiesTyped' /\ HasRestarted' = HasRestarted
  BY <1>4, RestartKept DEF AuthoritiesTyped, StoreRolesInv
<1>6. v \notin Holders[r]
  BY DEF Holders, HasBitOfKnown, GrantRole
<1>7. Control!Grant(v, r)
  BY <1>2, <1>3, <1>6 DEF Control!Grant
<1>8. Control!ChangePermissions
  BY <1>4, <1>5, <1>7 DEF Control!ChangePermissions
<1> QED BY <1>1, <1>3, <1>5, <1>8 DEF Control!Administer, StoreRolesInv

LEMMA RevokeRefines ==
  ASSUME StoreRolesInv, NEW u \in Users, NEW v \in Users, NEW r \in Roles, RevokeRole(u, v, r)
  PROVE  StoreRolesInv' /\ Control!Administer(u)
<1>1. Control!Serve(u, "ADMIN")
  BY CallIsServed, Required DEF RevokeRole
<1>2. v \in Nat /\ Known(r) /\ HasBitOfKnown(v, r) /\ UNCHANGED roles
  BY StoreRolesAssumption DEF RevokeRole, HasBitOfKnown
<1>3. /\ TablesTyped' /\ BitsOfOneRole' /\ BitsInUse'
      /\ Holders' = [Holders EXCEPT ![r] = IF FALSE THEN @ \cup {v} ELSE @ \ {v}]
      /\ \A s \in Roles : EnabledRole(s)' <=> EnabledRole(s)
  BY <1>2, RevokeWrites, MemberWrittenMeans DEF RevokeRole
<1>4. UNCHANGED <<authority, nextAuthority, restartSlot, lastRestart>>
  BY DEF RevokeRole, authorities
<1>5. AuthoritiesTyped' /\ HasRestarted' = HasRestarted
  BY <1>4, RestartKept DEF AuthoritiesTyped, StoreRolesInv
<1>6. v \in Holders[r]
  BY <1>2 DEF Holders
<1>7. Control!Revoke(v, r)
  BY <1>2, <1>3, <1>6 DEF Control!Revoke
<1>8. Control!ChangePermissions
  BY <1>4, <1>5, <1>7 DEF Control!ChangePermissions
<1> QED BY <1>1, <1>3, <1>5, <1>8 DEF Control!Administer, StoreRolesInv

\* What is left when the tables are not written: the permissions are as
\* they were.
LEMMA PermissionsKept ==
  ASSUME StoreRolesInv, UNCHANGED tables, AuthoritiesTyped'
  PROVE  StoreRolesInv' /\ UNCHANGED Control!permissions
BY TablesKept DEF StoreRolesInv, Control!permissions

LEMMA AuthorityRefines ==
  ASSUME StoreRolesInv, NEW u \in Users
  PROVE  /\ \A v \in Users : TransferStoreAuthority(u, v) => StoreRolesInv' /\ Control!Administer(u)
         /\ \A v \in Users : TransferReceiver(u, v) => StoreRolesInv' /\ Control!Act(u, "signer")
         /\ AcceptReceiver(u) => StoreRolesInv' /\ Control!Act(u, "signer")
         /\ AcceptStoreAuthority(u) => StoreRolesInv' /\ Control!Succeed
         /\ UpdateLastRestartedSlot(u) => StoreRolesInv' /\ Control!Administer(u)
<1>1. ASSUME NEW v \in Users, TransferStoreAuthority(u, v)
      PROVE  StoreRolesInv' /\ Control!Administer(u)
  <2>1. Control!Serve(u, "ADMIN")
    BY <1>1, CallIsServed, Required DEF TransferStoreAuthority
  <2>2. AuthoritiesTyped' /\ HasRestarted' = HasRestarted /\ UNCHANGED tables
    BY <1>1, RestartKept DEF TransferStoreAuthority, AuthoritiesTyped, StoreRolesInv
  <2>3. v \in Users \ {nextAuthority} /\ nextAuthority' = v /\ UNCHANGED authority
    BY <1>1 DEF TransferStoreAuthority
  <2>4. StoreRolesInv' /\ UNCHANGED Control!permissions
    BY <2>2, PermissionsKept
  <2>5. Control!NameSuccessor
    BY <2>2, <2>3, <2>4 DEF Control!NameSuccessor
  <2> QED BY <2>1, <2>4, <2>5 DEF Control!Administer
<1>2. ASSUME NEW v \in Users, TransferReceiver(u, v)
      PROVE  StoreRolesInv' /\ Control!Act(u, "signer")
  <2>1. Control!Serve(u, "signer")
    BY <1>2, CallIsServed, Required DEF TransferReceiver
  <2>2. /\ AuthoritiesTyped' /\ HasRestarted' = HasRestarted
        /\ UNCHANGED <<tables, authority, nextAuthority>>
    BY <1>2, RestartKept DEF TransferReceiver, AuthoritiesTyped, StoreRolesInv
  <2>3. StoreRolesInv' /\ UNCHANGED Control!permissions
    BY <2>2, PermissionsKept
  <2> QED BY <2>1, <2>2, <2>3 DEF Control!Act
<1>3. ASSUME AcceptReceiver(u)
      PROVE  StoreRolesInv' /\ Control!Act(u, "signer")
  <2>1. Control!Serve(u, "signer")
    BY <1>3, CallIsServed, Required DEF AcceptReceiver
  <2>2. /\ AuthoritiesTyped' /\ HasRestarted' = HasRestarted
        /\ UNCHANGED <<tables, authority, nextAuthority>>
    BY <1>3, RestartKept DEF AcceptReceiver, AuthoritiesTyped, StoreRolesInv
  <2>3. StoreRolesInv' /\ UNCHANGED Control!permissions
    BY <2>2, PermissionsKept
  <2> QED BY <2>1, <2>2, <2>3 DEF Control!Act
<1>4. ASSUME AcceptStoreAuthority(u)
      PROVE  StoreRolesInv' /\ Control!Succeed
  <2>1. Control!Serve(u, "signer")
    BY <1>4, CallIsServed, Required DEF AcceptStoreAuthority
  <2>2. /\ AuthoritiesTyped' /\ HasRestarted' = HasRestarted
        /\ UNCHANGED <<tables, nextAuthority>>
    BY <1>4, RestartKept DEF AcceptStoreAuthority, AuthoritiesTyped, StoreRolesInv
  <2>3. /\ u = nextAuthority /\ ~HasRestarted /\ authority # nextAuthority
        /\ authority' = nextAuthority
    BY <1>4 DEF AcceptStoreAuthority, Acceptable
  <2>4. StoreRolesInv' /\ UNCHANGED Control!permissions
    BY <2>2, PermissionsKept
  <2> QED BY <2>1, <2>2, <2>3, <2>4 DEF Control!Succeed
<1>5. ASSUME UpdateLastRestartedSlot(u)
      PROVE  StoreRolesInv' /\ Control!Administer(u)
  <2>1. Control!Serve(u, "ADMIN")
    BY <1>5, CallIsServed, Required DEF UpdateLastRestartedSlot
  <2>2. AuthoritiesTyped' /\ UNCHANGED <<tables, authority, nextAuthority>>
    BY <1>5 DEF UpdateLastRestartedSlot, AuthoritiesTyped, StoreRolesInv, authorities
  <2>3. HasRestarted = TRUE /\ HasRestarted' = FALSE
    BY <1>5 DEF UpdateLastRestartedSlot, HasRestarted
  <2>4. StoreRolesInv' /\ UNCHANGED Control!permissions
    BY <2>2, PermissionsKept
  <2>5. Control!Acknowledge
    BY <2>2, <2>3, <2>4 DEF Control!Acknowledge
  <2> QED BY <2>1, <2>4, <2>5 DEF Control!Administer
<1> QED BY <1>1, <1>2, <1>3, <1>4, <1>5

LEMMA OtherCallsRefine ==
  ASSUME StoreRolesInv
  PROVE  /\ \A u \in Users : \A r : Invoke(u, r) => StoreRolesInv' /\ Control!Act(u, r)
         /\ Restart => StoreRolesInv' /\ Control!Restart
         /\ Return => StoreRolesInv' /\ Control!Return
         /\ UNCHANGED storeVars => StoreRolesInv' /\ UNCHANGED Control!vars
<1>1. ASSUME NEW u \in Users, NEW r, Invoke(u, r)
      PROVE  StoreRolesInv' /\ Control!Act(u, r)
  <2>1. Control!Serve(u, r)
    BY <1>1, OnlyIsPermitted DEF Invoke, Control!Serve
  <2>2. /\ AuthoritiesTyped' /\ HasRestarted' = HasRestarted
        /\ UNCHANGED <<tables, authority, nextAuthority>>
    BY <1>1, RestartKept DEF Invoke, AuthoritiesTyped, StoreRolesInv, authorities
  <2>3. StoreRolesInv' /\ UNCHANGED Control!permissions
    BY <2>2, PermissionsKept
  <2> QED BY <2>1, <2>2, <2>3 DEF Control!Act
<1>2. ASSUME Restart PROVE StoreRolesInv' /\ Control!Restart
  <2>1. AuthoritiesTyped' /\ UNCHANGED <<tables, authority, nextAuthority, served>>
    BY <1>2 DEF Restart, AuthoritiesTyped, StoreRolesInv, authorities
  <2>2. HasRestarted' = TRUE
    BY <1>2 DEF Restart, HasRestarted, StoreRolesInv, AuthoritiesTyped
  <2>3. StoreRolesInv' /\ UNCHANGED Control!permissions
    BY <2>1, PermissionsKept
  <2> QED BY <1>2, <2>1, <2>2, <2>3 DEF Control!Restart, Restart
<1>3. ASSUME Return PROVE StoreRolesInv' /\ Control!Return
  <2>1. /\ AuthoritiesTyped' /\ HasRestarted' = HasRestarted
        /\ UNCHANGED <<tables, authority, nextAuthority>>
    BY <1>3, RestartKept DEF Return, AuthoritiesTyped, StoreRolesInv, authorities
  <2>2. StoreRolesInv' /\ UNCHANGED Control!permissions
    BY <2>1, PermissionsKept
  <2> QED BY <1>3, <2>1, <2>2 DEF Control!Return, Return
<1>4. ASSUME UNCHANGED storeVars PROVE StoreRolesInv' /\ UNCHANGED Control!vars
  <2>1. /\ AuthoritiesTyped' /\ HasRestarted' = HasRestarted
        /\ UNCHANGED <<tables, authority, nextAuthority, served>>
    BY <1>4, RestartKept DEF storeVars, AuthoritiesTyped, StoreRolesInv, authorities
  <2>2. StoreRolesInv' /\ UNCHANGED Control!permissions
    BY <2>1, PermissionsKept
  <2> QED BY <2>1, <2>2 DEF Control!vars
<1> QED BY <1>1, <1>2, <1>3, <1>4

LEMMA StoreRolesStep ==
  ASSUME StoreRolesInv, [StoreRolesNext]_storeVars
  PROVE  StoreRolesInv' /\ [Control!Next]_(Control!vars)
<1>1. /\ "ADMIN" \in {RequiredRole[i] : i \in Instructions}
      /\ "signer" \in {RequiredRole[i] : i \in Instructions}
      /\ OtherRoles \subseteq {RequiredRole[i] : i \in Instructions}
  BY Required DEF OtherRoles
<1>2. ASSUME NEW u \in Users, Control!Administer(u) PROVE Control!Next
  BY <1>2 DEF Control!Next
<1>3. ASSUME NEW u \in Users, NEW r \in {RequiredRole[i] : i \in Instructions}, Control!Act(u, r)
      PROVE  Control!Next
  BY <1>3 DEF Control!Next
<1>4. CASE UNCHANGED storeVars
  BY <1>4, OtherCallsRefine
<1>5. CASE Restart
  BY <1>5, OtherCallsRefine DEF Control!Next
<1>6. CASE Return
  BY <1>6, OtherCallsRefine DEF Control!Next
<1>7. ASSUME NEW u \in Users, NEW r \in Roles, EnableRole(u, r) \/ DisableRole(u, r)
      PROVE  StoreRolesInv' /\ Control!Next
  BY <1>1, <1>2, <1>3, <1>7, EnableRefines, DisableRefines
<1>8. ASSUME NEW u \in Users, NEW r \in Roles, NEW v \in Users,
             GrantRole(u, v, r) \/ RevokeRole(u, v, r)
      PROVE  StoreRolesInv' /\ Control!Next
  BY <1>2, <1>8, GrantRefines, RevokeRefines
<1>9. ASSUME NEW u \in Users, NEW v \in Users,
             TransferStoreAuthority(u, v) \/ TransferReceiver(u, v)
      PROVE  StoreRolesInv' /\ Control!Next
  BY <1>1, <1>2, <1>3, <1>9, AuthorityRefines
<1>10. ASSUME NEW u \in Users,
              AcceptStoreAuthority(u) \/ AcceptReceiver(u) \/ UpdateLastRestartedSlot(u)
       PROVE  StoreRolesInv' /\ Control!Next
  <2>1. Control!Succeed => Control!Next
    BY DEF Control!Next
  <2> QED BY <1>1, <1>2, <1>3, <1>10, <2>1, AuthorityRefines
<1>11. ASSUME NEW u \in Users, NEW r \in OtherRoles, Invoke(u, r)
       PROVE  StoreRolesInv' /\ Control!Next
  BY <1>1, <1>3, <1>11, OtherCallsRefine
<1> QED BY <1>4, <1>5, <1>6, <1>7, <1>8, <1>9, <1>10, <1>11 DEF StoreRolesNext

LEMMA StoreRolesInitRefines == StoreRolesInit => Control!Init
<1> SUFFICES ASSUME StoreRolesInit PROVE Control!Init
  OBVIOUS
<1>1. \A k : ~Present(roles, k)
  BY EmptyMapTyped DEF StoreRolesInit
<1>2. Holders = [r \in Roles |-> {}] /\ {r \in Roles : EnabledRole(r)} = {}
  BY <1>1 DEF Holders, HasBitOfKnown, EnabledRole, Known
<1>3. HasRestarted = FALSE
  BY DEF HasRestarted, StoreRolesInit
<1> QED BY <1>2, <1>3, StoreRolesAssumption DEF StoreRolesInit, Control!Init

\* In every table of roles reachable from an empty store, a bit stands for one
\* role and no member has a bit that stands for none (roles.rs: enable_role,
\* grant, revoke, over the fixed maps).
THEOREM BitsStandForRoles == StoreRolesSpec => []StoreRolesInv
BY StoreRolesInvInit, StoreRolesStep, PTL DEF StoreRolesSpec

\* The tables of roles.rs with the authority and the restart slot of store.rs
\* implement AccessControl: a call is served only to who holds the role at that
\* moment, and only an admin changes who holds what.
THEOREM TablesImplementAccess == StoreRolesSpec => ImplementsAccessControl
BY StoreRolesInvInit, StoreRolesStep, StoreRolesInitRefines, PTL
DEF StoreRolesSpec, ImplementsAccessControl, Control!Spec

-----------------------------------------------------------------------------
(* Orders and positions: who pays for what.                                *)

OrdersTyped ==
    /\ orders \in [OrderSlots -> OrderAccounts \cup {NoOrder}]
    /\ positions \in [PositionKeys -> PositionAccounts \cup {NoPositionAccount}]
    /\ purse \in [Parties -> Int]
    /\ offered \in Nat /\ deleveraged \in Nat

\* A position keeps what its owner paid in advance until it is removed.
CutsPrepaid ==
    \A k \in PositionKeys : positions[k] # NoPositionAccount =>
        positions[k].lamports = PositionRent + PositionCutRent(TRUE)

PositionOrdersInv == OrdersTyped /\ CutsPrepaid /\ CutsPaidForOnce

OrderReturns(p) == SumFunction([o \in OrderSlots |-> Returns(orders[o], p)])
PositionRefunds == SumFunction([k \in PositionKeys |-> Refunds(positions[k])])

LEMMA LamportsTyped ==
  /\ OrderRent \in Nat /\ MinExecutionLamports \in Nat /\ PositionRent \in Nat /\ Escrowed \in Nat
  /\ PositionCutRent(TRUE) = OrderRent + Escrowed + MinExecutionLamports
  /\ PositionCutRent(FALSE) = OrderRent + Escrowed
<1>1. Escrowed \in Nat
  BY LamportsAssumption DEF Escrowed
<1> QED BY <1>1, LamportsAssumption DEF PositionCutRent

LEMMA ReturnsTyped ==
  ASSUME NEW r \in OrderAccounts \cup {NoOrder}, NEW p
  PROVE  Returns(r, p) \in Int
BY DEF Returns, OrderAccounts

LEMMA RefundsTyped ==
  ASSUME NEW a \in PositionAccounts \cup {NoPositionAccount}
  PROVE  Refunds(a) \in Int
BY DEF Refunds, PositionAccounts

LEMMA SumsTyped ==
  ASSUME OrdersTyped
  PROVE  PositionRefunds \in Int /\ \A p : OrderReturns(p) \in Int
<1>1. ASSUME NEW p PROVE OrderReturns(p) \in Int
  <2> DEFINE f == [o \in OrderSlots |-> Returns(orders[o], p)]
  <2>1. \A o \in OrderSlots : f[o] \in Int
    BY ReturnsTyped DEF OrdersTyped
  <2>2. DOMAIN f = OrderSlots
    OBVIOUS
  <2> HIDE DEF f
  <2>3. SumFunctionOnSet(f, OrderSlots) \in Int
    BY <2>1, SumInt, OrdersAssumption
  <2>4. SumFunction(f) \in Int
    BY <2>2, <2>3 DEF SumFunction, SumFunctionOnSet, FoldFunction
  <2> QED BY <2>4 DEF OrderReturns, f
<1>2. PositionRefunds \in Int
  <2> DEFINE f == [k \in PositionKeys |-> Refunds(positions[k])]
  <2>1. \A k \in PositionKeys : f[k] \in Int
    BY RefundsTyped DEF OrdersTyped
  <2>2. DOMAIN f = PositionKeys
    OBVIOUS
  <2> HIDE DEF f
  <2>3. SumFunctionOnSet(f, PositionKeys) \in Int
    BY <2>1, SumInt, OrdersAssumption
  <2>4. SumFunction(f) \in Int
    BY <2>2, <2>3 DEF SumFunction, SumFunctionOnSet, FoldFunction
  <2> QED BY <2>4 DEF PositionRefunds, f
<1> QED BY <1>1, <1>2

LEMMA OrderChanged ==
  ASSUME OrdersTyped, NEW i \in OrderSlots, NEW r \in OrderAccounts \cup {NoOrder},
         orders' = [orders EXCEPT ![i] = r], NEW p
  PROVE  OrderReturns(p)' = OrderReturns(p) + (Returns(r, p) - Returns(orders[i], p))
<1> DEFINE f == [o \in OrderSlots |-> Returns(orders[o], p)]
           g == [o \in OrderSlots |-> Returns(orders'[o], p)]
<1>1. f \in [OrderSlots -> Int]
  BY ReturnsTyped DEF OrdersTyped
<1>2. orders' \in [OrderSlots -> OrderAccounts \cup {NoOrder}]
  BY DEF OrdersTyped
<1>3. g \in [OrderSlots -> Int]
  BY <1>2, ReturnsTyped
<1>4. /\ f[i] = Returns(orders[i], p) /\ g[i] = Returns(r, p)
      /\ \A o \in OrderSlots \ {i} : g[o] = f[o]
  BY DEF OrdersTyped
<1>5. OrderReturns(p) = SumFunction(f) /\ OrderReturns(p)' = SumFunction(g)
  BY DEF OrderReturns
<1> HIDE DEF f, g
<1>6. SumFunction(g) = SumFunction(f) + (g[i] - f[i])
  BY <1>1, <1>3, <1>4, SumFunctionChange, OrdersAssumption
<1> QED BY <1>4, <1>5, <1>6

LEMMA PositionChanged ==
  ASSUME OrdersTyped, NEW i \in PositionKeys, NEW a \in PositionAccounts \cup {NoPositionAccount},
         positions' = [positions EXCEPT ![i] = a]
  PROVE  PositionRefunds' = PositionRefunds + (Refunds(a) - Refunds(positions[i]))
<1> DEFINE f == [k \in PositionKeys |-> Refunds(positions[k])]
           g == [k \in PositionKeys |-> Refunds(positions'[k])]
<1>1. f \in [PositionKeys -> Int]
  BY RefundsTyped DEF OrdersTyped
<1>2. positions' \in [PositionKeys -> PositionAccounts \cup {NoPositionAccount}]
  BY DEF OrdersTyped
<1>3. g \in [PositionKeys -> Int]
  BY <1>2, RefundsTyped
<1>4. /\ f[i] = Refunds(positions[i]) /\ g[i] = Refunds(a)
      /\ \A k \in PositionKeys \ {i} : g[k] = f[k]
  BY DEF OrdersTyped
<1>5. PositionRefunds = SumFunction(f) /\ PositionRefunds' = SumFunction(g)
  BY DEF PositionRefunds
<1> HIDE DEF f, g
<1>6. SumFunction(g) = SumFunction(f) + (g[i] - f[i])
  BY <1>1, <1>3, <1>4, SumFunctionChange, OrdersAssumption
<1> QED BY <1>4, <1>5, <1>6

\* The two sides of the books, in the sums above.
OwnerIsEven == purse["owner"] + OrderReturns("owner") + PositionRefunds + offered >= 0
KeeperIsEven ==
    purse["keeper"] + OrderReturns("keeper") + deleveraged * MinExecutionLamports >= 0

LEMMA EvenIs ==
  ASSUME OrdersTyped
  PROVE  CutsPaidForOnce <=> OwnerIsEven /\ KeeperIsEven
<1>1. purse["owner"] \in Int /\ purse["keeper"] \in Int
  BY DEF OrdersTyped, Parties
<1>2. Worth("owner") = purse["owner"] + OrderReturns("owner") + PositionRefunds
  BY DEF Worth, OrderReturns, PositionRefunds
<1>3. Worth("keeper") = purse["keeper"] + OrderReturns("keeper") + 0
  BY DEF Worth, OrderReturns
<1>4. OrderReturns("keeper") \in Int
  BY SumsTyped
<1> QED BY <1>1, <1>2, <1>3, <1>4 DEF CutsPaidForOnce, OwnerIsEven, KeeperIsEven

LEMMA EvenIsNext ==
  ASSUME OrdersTyped'
  PROVE  CutsPaidForOnce' <=> OwnerIsEven' /\ KeeperIsEven'
<1>1. purse'["owner"] \in Int /\ purse'["keeper"] \in Int
  BY DEF OrdersTyped, Parties
<1>2. Worth("owner")' = purse'["owner"] + OrderReturns("owner")' + PositionRefunds'
  BY DEF Worth, OrderReturns, PositionRefunds
<1>3. Worth("keeper")' = purse'["keeper"] + OrderReturns("keeper")' + 0
  BY DEF Worth, OrderReturns
<1>4. OrderReturns("keeper")' \in Int
  <2> DEFINE f == [o \in OrderSlots |-> Returns(orders'[o], "keeper")]
  <2>1. \A o \in OrderSlots : f[o] \in Int
    BY ReturnsTyped DEF OrdersTyped
  <2>2. DOMAIN f = OrderSlots
    OBVIOUS
  <2> HIDE DEF f
  <2>3. SumFunctionOnSet(f, OrderSlots) \in Int
    BY <2>1, SumInt, OrdersAssumption
  <2>4. SumFunction(f) \in Int
    BY <2>2, <2>3 DEF SumFunction
  <2> QED BY <2>4 DEF OrderReturns, f
<1> QED BY <1>1, <1>2, <1>3, <1>4 DEF CutsPaidForOnce, OwnerIsEven, KeeperIsEven

\* Books that gain on both sides stay even.  dOrder is what the change of an
\* order adds to what a party will get, dPosition that of a position.
LEMMA BooksStayEven ==
  ASSUME PositionOrdersInv, OrdersTyped', NEW dOrder \in [Parties -> Int], NEW dPosition \in Int,
         \A p \in Parties : OrderReturns(p)' = OrderReturns(p) + dOrder[p],
         PositionRefunds' = PositionRefunds + dPosition,
         purse'["owner"] + dOrder["owner"] + dPosition + offered' >= purse["owner"] + offered,
         deleveraged' = deleveraged \/ deleveraged' = deleveraged + 1,
         purse'["keeper"] + dOrder["keeper"]
             + (IF deleveraged' = deleveraged THEN 0 ELSE MinExecutionLamports) >= purse["keeper"]
  PROVE  CutsPaidForOnce'
<1>1. {"owner", "keeper"} = Parties /\ OrdersTyped /\ CutsPaidForOnce
  BY DEF Parties, PositionOrdersInv
<1>2. /\ purse["owner"] \in Int /\ purse["keeper"] \in Int
      /\ purse'["owner"] \in Int /\ purse'["keeper"] \in Int
      /\ dOrder["owner"] \in Int /\ dOrder["keeper"] \in Int
      /\ offered \in Int /\ offered' \in Int /\ deleveraged \in Int /\ deleveraged' \in Int
  BY <1>1 DEF OrdersTyped
<1>3. OrderReturns("owner") \in Int /\ OrderReturns("keeper") \in Int /\ PositionRefunds \in Int
  BY <1>1, SumsTyped
<1>4. /\ OrderReturns("owner")' = OrderReturns("owner") + dOrder["owner"]
      /\ OrderReturns("keeper")' = OrderReturns("keeper") + dOrder["keeper"]
  BY <1>1
<1> DEFINE x == deleveraged * MinExecutionLamports  y == deleveraged' * MinExecutionLamports
<1>5. /\ x \in Int /\ y \in Int /\ MinExecutionLamports \in Nat
      /\ y = x + (IF deleveraged' = deleveraged THEN 0 ELSE MinExecutionLamports)
  BY <1>2, LamportsAssumption
<1>6. purse'["keeper"] + dOrder["keeper"] + y >= purse["keeper"] + x
  BY <1>2, <1>5
<1>7. /\ purse["owner"] + OrderReturns("owner") + PositionRefunds + offered >= 0
      /\ purse["keeper"] + OrderReturns("keeper") + x >= 0
  BY <1>1, EvenIs DEF OwnerIsEven, KeeperIsEven
<1>8. CutsPaidForOnce' <=>
         /\ purse'["owner"] + OrderReturns("owner")' + PositionRefunds' + offered' >= 0
         /\ purse'["keeper"] + OrderReturns("keeper")' + y >= 0
  BY EvenIsNext DEF OwnerIsEven, KeeperIsEven
<1> HIDE DEF x, y
<1> QED BY <1>2, <1>3, <1>4, <1>5, <1>6, <1>7, <1>8

LEMMA NothingRefunded ==
  ASSUME OrdersTyped, UNCHANGED positions
  PROVE  PositionRefunds' = PositionRefunds + 0
<1>1. PositionRefunds' = PositionRefunds
  BY DEF PositionRefunds
<1> QED BY <1>1, SumsTyped

LEMMA NothingReturned ==
  ASSUME OrdersTyped, UNCHANGED orders, NEW p
  PROVE  OrderReturns(p)' = OrderReturns(p) + 0
<1>1. OrderReturns(p)' = OrderReturns(p)
  BY DEF OrderReturns
<1> QED BY <1>1, SumsTyped

LEMMA PrepareKeeps ==
  ASSUME PositionOrdersInv, NEW k \in PositionKeys, PreparePosition(k)
  PROVE  PositionOrdersInv'
<1> DEFINE L == PositionRent + PositionCutRent(TRUE)  a == [size |-> 0, lamports |-> L]
           none == [p \in Parties |-> 0]
<1>1. L \in Nat
  BY LamportsTyped DEF PositionCutRent
<1> HIDE DEF L
<1>2. a \in PositionAccounts /\ a # NoPositionAccount /\ a.lamports = L
  BY <1>1, OrdersAssumption DEF PositionAccounts
<1>3. /\ positions' = [positions EXCEPT ![k] = a] /\ positions[k] = NoPositionAccount
      /\ purse' = [purse EXCEPT !["owner"] = @ - L] /\ UNCHANGED <<orders, offered, deleveraged>>
  BY DEF PreparePosition, L
<1>4. OrdersTyped /\ CutsPrepaid /\ none \in [Parties -> Int]
      /\ purse["owner"] \in Int /\ purse["keeper"] \in Int /\ offered \in Int
  BY DEF PositionOrdersInv, OrdersTyped, Parties
<1>5. purse'["owner"] = purse["owner"] - L /\ purse'["keeper"] = purse["keeper"]
  BY <1>3, <1>4 DEF OrdersTyped, Parties
<1> HIDE DEF L, a
<1>6. OrdersTyped'
  BY <1>1, <1>2, <1>3, <1>4 DEF OrdersTyped, Parties
<1>7. CutsPrepaid'
  BY <1>2, <1>3, <1>4 DEF CutsPrepaid, OrdersTyped, L
<1>8. Refunds(a) = L /\ Refunds(positions[k]) = 0
  BY <1>2, <1>3 DEF Refunds
<1>9. PositionRefunds' = PositionRefunds + L
  <2>1. PositionRefunds' = PositionRefunds + (Refunds(a) - Refunds(positions[k]))
    BY <1>2, <1>3, <1>4, PositionChanged
  <2> QED BY <1>1, <1>4, <1>8, <2>1, SumsTyped
<1>10. \A p \in Parties : OrderReturns(p)' = OrderReturns(p) + none[p]
  BY <1>3, <1>4, NothingReturned
<1>11. none["owner"] = 0 /\ none["keeper"] = 0
  BY DEF Parties
<1> HIDE DEF none
<1>12. purse'["owner"] + none["owner"] + L + offered' >= purse["owner"] + offered
  BY <1>1, <1>3, <1>4, <1>5, <1>11
<1>13. purse'["keeper"] + none["keeper"] + 0 >= purse["keeper"]
  BY <1>4, <1>5, <1>11
<1>14. CutsPaidForOnce'
  BY <1>1, <1>3, <1>4, <1>6, <1>9, <1>10, <1>12, <1>13, BooksStayEven
<1> QED BY <1>6, <1>7, <1>14 DEF PositionOrdersInv

\* One order and what it does to the purses.
LEMMA OrderStep ==
  ASSUME PositionOrdersInv, OrdersTyped', CutsPrepaid',
         NEW i \in OrderSlots, NEW r \in OrderAccounts \cup {NoOrder},
         orders' = [orders EXCEPT ![i] = r],
         NEW dPosition \in Int, PositionRefunds' = PositionRefunds + dPosition,
         deleveraged' = deleveraged \/ deleveraged' = deleveraged + 1,
         purse'["owner"] + Returns(r, "owner") + dPosition + offered'
             >= purse["owner"] + Returns(orders[i], "owner") + offered,
         purse'["keeper"] + Returns(r, "keeper")
             + (IF deleveraged' = deleveraged THEN 0 ELSE MinExecutionLamports)
             >= purse["keeper"] + Returns(orders[i], "keeper")
  PROVE  PositionOrdersInv'
<1> DEFINE d == [p \in Parties |-> Returns(r, p) - Returns(orders[i], p)]
<1>1. orders[i] \in OrderAccounts \cup {NoOrder} /\ OrdersTyped
  BY DEF PositionOrdersInv, OrdersTyped
<1>2. \A p : Returns(r, p) \in Int /\ Returns(orders[i], p) \in Int
  BY <1>1, ReturnsTyped
<1>3. d \in [Parties -> Int]
  BY <1>2
<1>4. \A p \in Parties : OrderReturns(p)' = OrderReturns(p) + d[p]
  BY <1>1, OrderChanged
<1>5. /\ d["owner"] = Returns(r, "owner") - Returns(orders[i], "owner")
      /\ d["keeper"] = Returns(r, "keeper") - Returns(orders[i], "keeper")
  BY DEF Parties
<1>6. /\ purse["owner"] \in Int /\ purse["keeper"] \in Int
      /\ purse'["owner"] \in Int /\ purse'["keeper"] \in Int
      /\ offered \in Int /\ offered' \in Int /\ MinExecutionLamports \in Int
  BY <1>1, LamportsTyped DEF OrdersTyped, Parties
<1> HIDE DEF d
<1>7. purse'["owner"] + d["owner"] + dPosition + offered' >= purse["owner"] + offered
  BY <1>2, <1>5, <1>6
<1>8. purse'["keeper"] + d["keeper"]
             + (IF deleveraged' = deleveraged THEN 0 ELSE MinExecutionLamports) >= purse["keeper"]
  BY <1>2, <1>5, <1>6
<1>9. CutsPaidForOnce'
  BY <1>3, <1>4, <1>7, <1>8, BooksStayEven
<1> QED BY <1>9 DEF PositionOrdersInv

\* ... when it leaves the positions alone.
LEMMA OrderOnlyStep ==
  ASSUME PositionOrdersInv, OrdersTyped', UNCHANGED <<positions, deleveraged>>,
         NEW i \in OrderSlots, NEW r \in OrderAccounts \cup {NoOrder},
         orders' = [orders EXCEPT ![i] = r],
         purse'["owner"] + Returns(r, "owner") + offered'
             >= purse["owner"] + Returns(orders[i], "owner") + offered,
         purse'["keeper"] + Returns(r, "keeper") >= purse["keeper"] + Returns(orders[i], "keeper")
  PROVE  PositionOrdersInv'
<1>1. OrdersTyped /\ CutsPrepaid' /\ PositionRefunds' = PositionRefunds + 0
  BY NothingRefunded DEF PositionOrdersInv, CutsPrepaid
<1>2. /\ purse'["owner"] \in Int /\ purse'["keeper"] \in Int
      /\ Returns(r, "owner") \in Int /\ Returns(r, "keeper") \in Int
  BY ReturnsTyped DEF OrdersTyped, Parties
<1>3. purse'["owner"] + Returns(r, "owner") + 0 + offered'
         >= purse["owner"] + Returns(orders[i], "owner") + offered
  <2>1. purse'["owner"] + Returns(r, "owner") + 0 = purse'["owner"] + Returns(r, "owner")
    BY <1>2
  <2> QED BY <2>1
<1>4. purse'["keeper"] + Returns(r, "keeper")
         + (IF deleveraged' = deleveraged THEN 0 ELSE MinExecutionLamports)
         >= purse["keeper"] + Returns(orders[i], "keeper")
  <2>1. purse'["keeper"] + Returns(r, "keeper") + 0 = purse'["keeper"] + Returns(r, "keeper")
    BY <1>2
  <2> QED BY <2>1
<1>5. 0 \in Int /\ deleveraged' = deleveraged
  OBVIOUS
<1> QED BY <1>1, <1>3, <1>4, <1>5, OrderStep

LEMMA NewOrderTyped ==
  ASSUME NEW p, p.kind \in OrderKinds, p.position \in PositionKeys,
         {p.size, p.amount, p.lamports} \subseteq Nat,
         NEW state \in {"pending", "completed", "cancelled"}, NEW to \in Parties,
         NEW lamports \in Int
  PROVE  LET r == NewOrder(p, state, to, lamports)
         IN  /\ r \in OrderAccounts /\ r # NoOrder
             /\ \A q : Returns(r, q) = IF q = to THEN lamports + Escrowed ELSE 0
<1> DEFINE r == NewOrder(p, state, to, lamports)
<1>1. r \in OrderAccounts
  BY LamportsTyped DEF NewOrder, OrderAccounts
<1>2. r # NoOrder
  BY <1>1, OrdersAssumption
<1>3. r.rentReceiver = to /\ r.lamports = lamports /\ r.escrowRent = Escrowed
  BY DEF NewOrder
<1>4. \A q : Returns(r, q) = IF q = to THEN lamports + Escrowed ELSE 0
  BY <1>2, <1>3 DEF Returns
<1> QED BY <1>1, <1>2, <1>4

LEMMA CreateKeeps ==
  ASSUME PositionOrdersInv, NEW i \in OrderSlots, NEW p \in OrderParams, CreatePositionOrder(i, p)
  PROVE  PositionOrdersInv'
<1> DEFINE r == NewOrder(p, "pending", "owner", OrderRent + p.lamports)
           paid == OrderRent + Escrowed + p.lamports
<1>1. /\ p.lamports \in Nat /\ OrderRent \in Nat /\ Escrowed \in Nat /\ "owner" \in Parties
      /\ "owner" # "keeper"
  BY OrdersAssumption, LamportsTyped DEF Parties
<1>2. /\ r \in OrderAccounts /\ r # NoOrder
      /\ \A q : Returns(r, q) = IF q = "owner" THEN OrderRent + p.lamports + Escrowed ELSE 0
  BY <1>1, NewOrderTyped, OrdersAssumption
<1>3. /\ orders[i] = NoOrder /\ orders' = [orders EXCEPT ![i] = r]
      /\ purse' = [purse EXCEPT !["owner"] = @ - paid]
      /\ UNCHANGED <<positions, offered, deleveraged>>
  BY DEF CreatePositionOrder
<1>4. OrdersTyped
  BY DEF PositionOrdersInv
<1> HIDE DEF r
<1>5. OrdersTyped'
  BY <1>1, <1>2, <1>3, <1>4 DEF OrdersTyped
<1>6. /\ purse["owner"] \in Int /\ purse["keeper"] \in Int /\ offered \in Int
      /\ purse'["owner"] = purse["owner"] - paid /\ purse'["keeper"] = purse["keeper"]
  BY <1>3, <1>4 DEF OrdersTyped, Parties
<1>7. \A q : Returns(orders[i], q) = 0
  BY <1>3 DEF Returns
<1>8. Returns(r, "owner") = OrderRent + p.lamports + Escrowed /\ Returns(r, "keeper") = 0
  BY <1>1, <1>2
<1>9. purse'["owner"] + Returns(r, "owner") + offered'
         >= purse["owner"] + Returns(orders[i], "owner") + offered
  BY <1>1, <1>3, <1>6, <1>7, <1>8
<1>10. purse'["keeper"] + Returns(r, "keeper") >= purse["keeper"] + Returns(orders[i], "keeper")
  BY <1>6, <1>7, <1>8
<1> QED BY <1>2, <1>3, <1>5, <1>9, <1>10, OrderOnlyStep

LEMMA OrderFacts ==
  ASSUME OrdersTyped, NEW i \in OrderSlots, orders[i] # NoOrder
  PROVE  /\ orders[i] \in OrderAccounts
         /\ orders[i].lamports \in Int /\ orders[i].escrowRent \in Nat
         /\ orders[i].rentReceiver \in Parties /\ orders[i].max \in Nat /\ orders[i].size \in Nat
         /\ orders[i].state \in {"pending", "completed", "cancelled"}
         /\ orders[i].position \in PositionKeys
         /\ \A q : q # orders[i].rentReceiver => Returns(orders[i], q) = 0
         /\ Returns(orders[i], orders[i].rentReceiver) = orders[i].lamports + orders[i].escrowRent
<1> DEFINE a == orders[i]
<1>1. a \in OrderAccounts /\ a # NoOrder
  BY DEF OrdersTyped
<1> HIDE DEF a
<1>2. /\ a.lamports \in Int /\ a.escrowRent \in Nat /\ a.rentReceiver \in Parties
      /\ a.max \in Nat /\ a.size \in Nat /\ a.position \in PositionKeys
      /\ a.state \in {"pending", "completed", "cancelled"}
  BY <1>1 DEF OrderAccounts
<1>3. \A q : q # a.rentReceiver => Returns(a, q) = 0
  BY DEF Returns
<1>4. Returns(a, a.rentReceiver) = a.lamports + a.escrowRent
  BY <1>1 DEF Returns
<1> QED BY <1>1, <1>2, <1>3, <1>4 DEF a

\* An order in another state, with less lamports; or with another size.
LEMMA SettledOrder ==
  ASSUME NEW a \in OrderAccounts, NEW state \in {"pending", "completed", "cancelled"},
         NEW paid \in Int
  PROVE  LET r == [a EXCEPT !.state = state, !.lamports = @ - paid]
         IN  /\ r \in OrderAccounts
             /\ \A q : Returns(r, q) = IF q = a.rentReceiver THEN Returns(a, q) - paid ELSE 0
<1> DEFINE b == [a EXCEPT !.state = state]  r == [b EXCEPT !.lamports = a.lamports - paid]
<1>1. a # NoOrder /\ a.lamports \in Int /\ a.escrowRent \in Nat
  BY OrdersAssumption DEF OrderAccounts
<1>2. /\ b \in OrderAccounts /\ b.rentReceiver = a.rentReceiver
      /\ b.lamports = a.lamports /\ b.escrowRent = a.escrowRent
  BY DEF OrderAccounts
<1> HIDE DEF b
<1>3. /\ r \in OrderAccounts /\ r.rentReceiver = a.rentReceiver
      /\ r.lamports = a.lamports - paid /\ r.escrowRent = a.escrowRent
  BY <1>1, <1>2 DEF OrderAccounts
<1>4. r # NoOrder
  BY <1>3, OrdersAssumption
<1>5. [a EXCEPT !.state = state, !.lamports = @ - paid] = r
  BY DEF b, OrderAccounts
<1> HIDE DEF r
<1>6. ASSUME NEW q PROVE Returns(r, q) = IF q = a.rentReceiver THEN Returns(a, q) - paid ELSE 0
  <2>1. CASE q = a.rentReceiver
    <3>1. Returns(r, q) = r.lamports + r.escrowRent /\ Returns(a, q) = a.lamports + a.escrowRent
      BY <1>1, <1>3, <1>4, <2>1 DEF Returns
    <3> QED BY <1>1, <1>3, <2>1, <3>1
  <2>2. CASE q # a.rentReceiver
    BY <1>3, <2>2 DEF Returns
  <2> QED BY <2>1, <2>2
<1> QED BY <1>3, <1>5, <1>6

LEMMA SameReturnsKeep ==
  ASSUME PositionOrdersInv, NEW i \in OrderSlots, NEW r \in OrderAccounts,
         orders' = [orders EXCEPT ![i] = r], \A q : Returns(r, q) = Returns(orders[i], q),
         UNCHANGED <<positions, purse, created, offered, deleveraged>>
  PROVE  PositionOrdersInv'
<1>1. OrdersTyped /\ orders[i] \in OrderAccounts \cup {NoOrder}
  BY DEF PositionOrdersInv, OrdersTyped
<1>2. OrdersTyped'
  BY <1>1 DEF OrdersTyped
<1>3. \A q : Returns(orders[i], q) \in Int
  BY <1>1, ReturnsTyped
<1>4. purse["owner"] \in Int /\ purse["keeper"] \in Int /\ offered \in Int
  BY <1>1 DEF OrdersTyped, Parties
<1>5. purse'["owner"] + Returns(r, "owner") + offered'
         >= purse["owner"] + Returns(orders[i], "owner") + offered
  BY <1>3, <1>4
<1>6. purse'["keeper"] + Returns(r, "keeper") >= purse["keeper"] + Returns(orders[i], "keeper")
  BY <1>3, <1>4
<1> QED BY <1>2, <1>5, <1>6, OrderOnlyStep

LEMMA UpdateSizeKeeps ==
  ASSUME PositionOrdersInv, NEW i \in OrderSlots, NEW size \in SizeUpdates, UpdateOrderSize(i, size)
  PROVE  PositionOrdersInv'
<1> DEFINE a == orders[i]  r == [a EXCEPT !.size = size]
<1>1. OrdersTyped /\ size \in Nat /\ orders[i] # NoOrder
  BY OrdersAssumption DEF PositionOrdersInv, UpdateOrderSize
<1>2. a \in OrderAccounts
  BY <1>1, OrderFacts
<1>3. orders' = [orders EXCEPT ![i] = r]
  BY <1>1 DEF UpdateOrderSize, OrdersTyped
<1>4. a # NoOrder
  BY <1>1
<1> HIDE DEF a
<1>5. /\ r \in OrderAccounts /\ r.rentReceiver = a.rentReceiver
      /\ r.lamports = a.lamports /\ r.escrowRent = a.escrowRent
  BY <1>1, <1>2 DEF OrderAccounts
<1>6. r # NoOrder
  BY <1>5, OrdersAssumption
<1>7. \A q : Returns(r, q) = Returns(a, q)
  BY <1>4, <1>5, <1>6 DEF Returns
<1> HIDE DEF r
<1> QED BY <1>3, <1>5, <1>7, SameReturnsKeep DEF UpdateOrderSize, a

LEMMA CancelKeeps ==
  ASSUME PositionOrdersInv, NEW i \in OrderSlots, CancelOrderWithoutPosition(i)
  PROVE  PositionOrdersInv'
<1> DEFINE a == orders[i]  r == [a EXCEPT !.state = "cancelled"]
<1>1. OrdersTyped /\ orders[i] # NoOrder
  BY DEF PositionOrdersInv, CancelOrderWithoutPosition
<1>2. a \in OrderAccounts /\ a # NoOrder
  BY <1>1, OrderFacts
<1>3. orders' = [orders EXCEPT ![i] = r]
  BY <1>1 DEF CancelOrderWithoutPosition, OrdersTyped
<1> HIDE DEF a
<1>4. /\ r \in OrderAccounts /\ r.rentReceiver = a.rentReceiver
      /\ r.lamports = a.lamports /\ r.escrowRent = a.escrowRent
  BY <1>2 DEF OrderAccounts
<1>5. r # NoOrder
  BY <1>4, OrdersAssumption
<1>6. \A q : Returns(r, q) = Returns(a, q)
  BY <1>2, <1>4, <1>5 DEF Returns
<1> HIDE DEF r
<1> QED BY <1>3, <1>4, <1>6, SameReturnsKeep DEF CancelOrderWithoutPosition, a

LEMMA CloseKeeps ==
  ASSUME PositionOrdersInv, NEW i \in OrderSlots, NEW byOwner \in BOOLEAN,
         ClosePositionOrder(i, byOwner)
  PROVE  PositionOrdersInv'
<1> DEFINE a == orders[i]
<1>1. OrdersTyped /\ a # NoOrder
  BY DEF PositionOrdersInv, ClosePositionOrder
<1>2. /\ a.rentReceiver \in Parties /\ a.lamports \in Int /\ a.escrowRent \in Nat
      /\ \A q : q # a.rentReceiver => Returns(a, q) = 0
      /\ Returns(a, a.rentReceiver) = a.lamports + a.escrowRent
  BY <1>1, OrderFacts
<1>3. /\ orders' = [orders EXCEPT ![i] = NoOrder]
      /\ purse' = [purse EXCEPT ![a.rentReceiver] = @ + a.lamports + a.escrowRent]
      /\ UNCHANGED <<positions, offered, deleveraged>>
  BY DEF ClosePositionOrder
<1> HIDE DEF a
<1>4. \A q : Returns(NoOrder, q) = 0
  BY DEF Returns
<1>5. OrdersTyped'
  BY <1>1, <1>2, <1>3 DEF OrdersTyped
<1>6. /\ purse["owner"] \in Int /\ purse["keeper"] \in Int /\ offered \in Int
      /\ (a.rentReceiver = "owner" \/ a.rentReceiver = "keeper") /\ "owner" # "keeper"
  BY <1>1, <1>2 DEF OrdersTyped, Parties
<1>7. \A q \in Parties : purse'[q] = purse[q] + Returns(a, q)
  BY <1>1, <1>2, <1>3 DEF OrdersTyped
<1>8. /\ purse'["owner"] = purse["owner"] + Returns(a, "owner")
      /\ purse'["keeper"] = purse["keeper"] + Returns(a, "keeper")
      /\ Returns(a, "owner") \in Int /\ Returns(a, "keeper") \in Int
  BY <1>2, <1>6, <1>7 DEF Parties
<1>9. purse'["owner"] + Returns(NoOrder, "owner") + offered'
         >= purse["owner"] + Returns(orders[i], "owner") + offered
  BY <1>3, <1>4, <1>6, <1>8 DEF a
<1>10. purse'["keeper"] + Returns(NoOrder, "keeper")
         >= purse["keeper"] + Returns(orders[i], "keeper")
  BY <1>4, <1>6, <1>8 DEF a
<1> QED BY <1>3, <1>5, <1>9, <1>10, OrderOnlyStep

\* execution_lamports: no more than the order offers.
LEMMA PaidForExecution ==
  ASSUME NEW fee \in ExecutionFees, NEW max \in Nat
  PROVE  ExecutionLamports(fee, max) \in Nat /\ ExecutionLamports(fee, max) <= max
<1>1. fee \in Nat
  BY LamportsAssumption
<1> QED BY <1>1, MinOfTwo DEF ExecutionLamports

\* The order i, settled for what the keeper is paid.
SettledFor(i, paid, r) ==
    /\ orders' = [orders EXCEPT ![i] = r]
    /\ \A q : Returns(r, q) \in Int
    /\ \A q \in Parties : Returns(r, q) >= Returns(orders[i], q) - paid

LEMMA SettledIs ==
  ASSUME OrdersTyped, NEW i \in OrderSlots, orders[i] # NoOrder,
         NEW state, state \in {"pending", "completed", "cancelled"},
         NEW paid \in Nat, Settled(i, state, paid)
  PROVE  \E r \in OrderAccounts : SettledFor(i, paid, r)
<1> DEFINE a == orders[i]  r == [a EXCEPT !.state = state, !.lamports = @ - paid]
<1>1. a \in OrderAccounts /\ \A q : q # a.rentReceiver => Returns(a, q) = 0
  BY OrderFacts
<1>2. orders' = [orders EXCEPT ![i] = r]
  BY DEF Settled, OrdersTyped
<1> HIDE DEF a
<1>3. paid \in Int
  OBVIOUS
<1>4. /\ r \in OrderAccounts
      /\ \A q : Returns(r, q) = IF q = a.rentReceiver THEN Returns(a, q) - paid ELSE 0
  BY <1>1, <1>3, SettledOrder
<1>5. \A q : Returns(a, q) \in Int /\ Returns(r, q) \in Int
  BY <1>1, <1>4, ReturnsTyped
<1> HIDE DEF r
<1>6. \A q \in Parties : Returns(r, q) >= Returns(a, q) - paid
  BY <1>1, <1>4, <1>5
<1> QED BY <1>2, <1>4, <1>5, <1>6 DEF SettledFor, a

LEMMA SwapKeeps ==
  ASSUME PositionOrdersInv, NEW i \in OrderSlots, NEW fee \in ExecutionFees, ExecuteSwap(i, fee)
  PROVE  PositionOrdersInv'
<1> DEFINE a == orders[i]  paid == ExecutionLamports(fee, a.max)
<1>1. OrdersTyped /\ a # NoOrder
  BY DEF PositionOrdersInv, ExecuteSwap
<1>2. a.max \in Nat /\ a.rentReceiver \in Parties
  BY <1>1, OrderFacts
<1>3. paid \in Nat /\ paid <= a.max
  BY <1>2, PaidForExecution
<1>4. /\ Settled(i, "completed", paid) \/ Settled(i, "cancelled", paid)
      /\ purse' = [purse EXCEPT !["keeper"] = @ + paid] /\ offered' = offered + a.max
      /\ UNCHANGED <<positions, created, deleveraged>>
  BY DEF ExecuteSwap
<1> HIDE DEF paid
<1>5. PICK r \in OrderAccounts : SettledFor(i, paid, r)
  <2>1. CASE Settled(i, "completed", paid)
    BY <1>1, <1>3, <2>1, SettledIs
  <2>2. CASE Settled(i, "cancelled", paid)
    BY <1>1, <1>3, <2>2, SettledIs
  <2> QED BY <1>4, <2>1, <2>2
<1>6. orders' \in [OrderSlots -> OrderAccounts \cup {NoOrder}]
  BY <1>1, <1>5 DEF OrdersTyped, SettledFor
<1>7. /\ purse["owner"] \in Int /\ purse["keeper"] \in Int /\ offered \in Nat
      /\ purse'["owner"] = purse["owner"] /\ purse'["keeper"] = purse["keeper"] + paid
      /\ "owner" \in Parties /\ "keeper" \in Parties
  BY <1>1, <1>4 DEF OrdersTyped, Parties
<1>8. purse' \in [Parties -> Int] /\ offered' \in Nat
  BY <1>1, <1>2, <1>3, <1>4, <1>7 DEF OrdersTyped
<1>9. OrdersTyped'
  BY <1>1, <1>4, <1>6, <1>8 DEF OrdersTyped
<1>10. Returns(a, "owner") \in Int /\ Returns(a, "keeper") \in Int
  BY <1>1, ReturnsTyped DEF OrdersTyped
<1>11. /\ Returns(r, "owner") \in Int /\ Returns(r, "keeper") \in Int
       /\ Returns(r, "owner") >= Returns(a, "owner") - paid
       /\ Returns(r, "keeper") >= Returns(a, "keeper") - paid
       /\ orders' = [orders EXCEPT ![i] = r]
  BY <1>5, <1>7 DEF SettledFor
<1> HIDE DEF a
<1>12. purse'["owner"] + Returns(r, "owner") + offered' >= purse["owner"] + Returns(a, "owner") + offered
  BY <1>2, <1>3, <1>4, <1>7, <1>10, <1>11
<1>13. purse'["keeper"] + Returns(r, "keeper") >= purse["keeper"] + Returns(a, "keeper")
  BY <1>3, <1>7, <1>10, <1>11
<1> QED BY <1>4, <1>9, <1>11, <1>12, <1>13, OrderOnlyStep DEF a

-----------------------------------------------------------------------------
\* What an execution does to the position: the owner gets what the account
\* gives up but for the refund, and the keeper gets dKeeper.
PositionDone(dPosition, dOwner, dKeeper) ==
    /\ dPosition \in Int /\ dOwner \in Int /\ dKeeper \in Int
    /\ positions' \in [PositionKeys -> PositionAccounts \cup {NoPositionAccount}]
    /\ CutsPrepaid'
    /\ PositionRefunds' = PositionRefunds + dPosition
    /\ purse' \in [Parties -> Int]
    /\ purse'["owner"] = purse["owner"] + dOwner
    /\ purse'["keeper"] = purse["keeper"] + dKeeper

LEMMA RemovalDone ==
  ASSUME OrdersTyped, CutsPrepaid, NEW k \in PositionKeys, positions[k] # NoPositionAccount,
         NEW refund \in Nat, refund <= PositionRent + PositionCutRent(TRUE),
         NEW x \in Int, RemovePosition(k, refund, x)
  PROVE  LET held == PositionRent + PositionCutRent(TRUE)
         IN  PositionDone(0 - held, held - refund, refund + x)
<1> DEFINE held == PositionRent + PositionCutRent(TRUE)
<1>1. held \in Nat
  BY LamportsTyped DEF PositionCutRent
<1>2. refund <= held /\ positions[k].lamports = held
  BY DEF CutsPrepaid
<1> HIDE DEF held
<1>3. Refunded(held, refund) = refund
  BY <1>1, <1>2, MinOfTwo DEF Refunded
<1>4. /\ positions' = [positions EXCEPT ![k] = NoPositionAccount]
      /\ purse' = [purse EXCEPT !["owner"] = @ + held - refund, !["keeper"] = @ + refund + x]
  BY <1>2, <1>3 DEF RemovePosition
<1>5. positions' \in [PositionKeys -> PositionAccounts \cup {NoPositionAccount}]
  BY <1>4 DEF OrdersTyped
<1>6. CutsPrepaid'
  BY <1>4 DEF CutsPrepaid, OrdersTyped
<1>7. Refunds(NoPositionAccount) = 0 /\ Refunds(positions[k]) = held
  BY <1>2 DEF Refunds
<1>8. PositionRefunds' = PositionRefunds + (Refunds(NoPositionAccount) - Refunds(positions[k]))
  BY <1>4, PositionChanged
<1>9. PositionRefunds' = PositionRefunds + (0 - held)
  BY <1>7, <1>8
<1>10. purse["owner"] \in Int /\ purse["keeper"] \in Int /\ purse \in [Parties -> Int]
       /\ "owner" \in Parties /\ "keeper" \in Parties
  BY DEF OrdersTyped, Parties
<1>11. /\ purse'["owner"] = purse["owner"] + held - refund
       /\ purse'["keeper"] = purse["keeper"] + refund + x
       /\ DOMAIN purse' = Parties /\ purse' = [p \in Parties |-> purse'[p]]
  BY <1>4, <1>10
<1>12. purse' \in [Parties -> Int]
  BY <1>1, <1>10, <1>11 DEF Parties
<1>13. /\ purse["owner"] + held - refund = purse["owner"] + (held - refund)
       /\ purse["keeper"] + refund + x = purse["keeper"] + (refund + x)
  BY <1>1, <1>10
<1>14. 0 - held \in Int /\ held - refund \in Int /\ refund + x \in Int
  BY <1>1
<1> QED BY <1>5, <1>6, <1>9, <1>11, <1>12, <1>13, <1>14 DEF PositionDone, held

LEMMA KeptDone ==
  ASSUME OrdersTyped, CutsPrepaid, NEW k \in PositionKeys, positions[k] # NoPositionAccount,
         NEW size \in Nat, NEW x \in Int, KeepPosition(k, size, x)
  PROVE  PositionDone(0, 0, x)
<1> DEFINE a == positions[k]  b == [a EXCEPT !.size = size]
<1>1. a \in PositionAccounts /\ a.lamports = PositionRent + PositionCutRent(TRUE)
  BY DEF OrdersTyped, CutsPrepaid
<1>2. /\ positions' = [positions EXCEPT ![k] = b]
      /\ purse' = [purse EXCEPT !["keeper"] = @ + x]
  BY DEF KeepPosition, OrdersTyped
<1>3. a # NoPositionAccount
  OBVIOUS
<1> HIDE DEF a
<1>4. b \in PositionAccounts /\ b.lamports = a.lamports /\ a.lamports \in Nat
  BY <1>1 DEF PositionAccounts
<1> HIDE DEF b
<1>5. positions' \in [PositionKeys -> PositionAccounts \cup {NoPositionAccount}]
  BY <1>2, <1>4 DEF OrdersTyped
<1>6. CutsPrepaid'
  BY <1>1, <1>2, <1>4 DEF CutsPrepaid, OrdersTyped
<1>7. b # NoPositionAccount
  BY <1>4, OrdersAssumption
<1>8. Refunds(b) = a.lamports /\ Refunds(positions[k]) = a.lamports
  BY <1>3, <1>4, <1>7 DEF Refunds, a
<1>9. PositionRefunds' = PositionRefunds + (Refunds(b) - Refunds(positions[k]))
  BY <1>2, <1>4, PositionChanged
<1>10. PositionRefunds' = PositionRefunds + 0
  BY <1>4, <1>8, <1>9
<1>11. purse["owner"] \in Int /\ purse["keeper"] \in Int /\ purse \in [Parties -> Int]
       /\ "owner" \in Parties /\ "keeper" \in Parties
  BY DEF OrdersTyped, Parties
<1>12. /\ purse'["owner"] = purse["owner"] + 0 /\ purse'["keeper"] = purse["keeper"] + x
       /\ purse' \in [Parties -> Int]
  BY <1>2, <1>11
<1> QED BY <1>5, <1>6, <1>10, <1>12 DEF PositionDone

\* An order and its position, together.
LEMMA OrderAndPositionStep ==
  ASSUME PositionOrdersInv, NEW i \in OrderSlots, NEW r \in OrderAccounts,
         orders' = [orders EXCEPT ![i] = r],
         NEW dP, NEW dO, NEW dK, PositionDone(dP, dO, dK), offered' \in Nat,
         deleveraged' = deleveraged \/ deleveraged' = deleveraged + 1,
         Returns(r, "owner") + dP + dO + offered' >= Returns(orders[i], "owner") + offered,
         Returns(r, "keeper") + dK + (IF deleveraged' = deleveraged THEN 0 ELSE MinExecutionLamports)
             >= Returns(orders[i], "keeper")
  PROVE  PositionOrdersInv'
<1>1. OrdersTyped
  BY DEF PositionOrdersInv
<1>2. deleveraged' \in Nat
  BY <1>1 DEF OrdersTyped
<1>3. orders' \in [OrderSlots -> OrderAccounts \cup {NoOrder}]
  BY <1>1 DEF OrdersTyped
<1>4. OrdersTyped' /\ CutsPrepaid' /\ dP \in Int /\ PositionRefunds' = PositionRefunds + dP
  BY <1>2, <1>3 DEF OrdersTyped, PositionDone
<1>5. /\ purse["owner"] \in Int /\ purse["keeper"] \in Int /\ offered \in Int /\ offered' \in Int
      /\ dO \in Int /\ dK \in Int /\ MinExecutionLamports \in Int
      /\ purse'["owner"] = purse["owner"] + dO /\ purse'["keeper"] = purse["keeper"] + dK
  BY <1>1, LamportsTyped DEF OrdersTyped, Parties, PositionDone
<1>6. /\ Returns(r, "owner") \in Int /\ Returns(r, "keeper") \in Int
      /\ Returns(orders[i], "owner") \in Int /\ Returns(orders[i], "keeper") \in Int
  BY <1>1, ReturnsTyped DEF OrdersTyped
<1>7. purse'["owner"] + Returns(r, "owner") + dP + offered'
         >= purse["owner"] + Returns(orders[i], "owner") + offered
  BY <1>4, <1>5, <1>6
<1>8. purse'["keeper"] + Returns(r, "keeper")
         + (IF deleveraged' = deleveraged THEN 0 ELSE MinExecutionLamports)
         >= purse["keeper"] + Returns(orders[i], "keeper")
  BY <1>5, <1>6
<1> QED BY <1>4, <1>7, <1>8, OrderStep

LEMMA DecreaseTyped ==
  ASSUME NEW size \in Nat, NEW delta \in Nat, NEW capped, NEW after \in SizesAfterDecrease(size, delta, capped)
  PROVE  after \in Nat
<1>1. Min({delta, size}) \in Nat /\ Min({delta, size}) <= size
  BY MinOfTwo
<1>2. after = 0 \/ after = size - Min({delta, size})
  BY DEF SizesAfterDecrease
<1> QED BY <1>1, <1>2

LEMMA ExecuteKeeps ==
  ASSUME PositionOrdersInv, NEW i \in OrderSlots, NEW fee \in ExecutionFees, ExecuteOnPosition(i, fee)
  PROVE  PositionOrdersInv'
<1> DEFINE a == orders[i]  paid == ExecutionLamports(fee, a.max)  k == a.position
           size == positions[k].size
           held == PositionRent + PositionCutRent(TRUE)
<1>1. OrdersTyped /\ CutsPrepaid /\ a # NoOrder /\ positions[k] # NoPositionAccount
  BY DEF PositionOrdersInv, ExecuteOnPosition
<1>2. a.max \in Nat /\ a.size \in Nat /\ k \in PositionKeys
  BY <1>1, OrderFacts
<1>3. paid \in Nat /\ paid <= a.max
  BY <1>2, PaidForExecution
<1>4. size \in Nat
  BY <1>1, <1>2 DEF OrdersTyped, PositionAccounts
<1>5. \A after \in SizesAfter(a) : after \in Nat
  <2>1. ASSUME NEW after \in SizesAfter(a) PROVE after \in Nat
    <3>1. CASE a.kind \in IncreasesPosition
      BY <2>1, <3>1 DEF SizesAfter
    <3>2. CASE a.kind \notin IncreasesPosition
      <4>1. PICK b \in BOOLEAN : b = (a.kind # "MarketDecrease")
        BY Zenon
      <4>2. after \in SizesAfterDecrease(size, a.size, b)
        BY <2>1, <3>2, <4>1 DEF SizesAfter
      <4> QED BY <1>2, <1>4, <4>2, DecreaseTyped
    <3> QED BY <3>1, <3>2
  <2> QED BY <2>1
<1>6. held \in Nat /\ 0 <= held
  BY LamportsTyped DEF PositionCutRent
<1>7. /\ \/ Settled(i, "completed", paid) \/ Settled(i, "cancelled", paid)
      /\ \/ RemovePosition(k, 0, paid)
         \/ \E after \in Nat : KeepPosition(k, after, paid)
      /\ offered' = offered + a.max /\ deleveraged' = deleveraged
  BY <1>4, <1>5 DEF ExecuteOnPosition, PositionTouched
<1>8. PICK r \in OrderAccounts : SettledFor(i, paid, r)
  <2> HIDE DEF paid
  <2>1. CASE Settled(i, "completed", paid)
    BY <1>1, <1>3, <2>1, SettledIs
  <2>2. CASE Settled(i, "cancelled", paid)
    BY <1>1, <1>3, <2>2, SettledIs
  <2> QED BY <1>7, <2>1, <2>2
<1>9. Returns(a, "owner") \in Int /\ Returns(a, "keeper") \in Int /\ offered \in Nat /\ deleveraged \in Nat
  BY <1>1, ReturnsTyped DEF OrdersTyped
<1>10. /\ Returns(r, "owner") \in Int /\ Returns(r, "keeper") \in Int
       /\ Returns(r, "owner") >= Returns(a, "owner") - paid
       /\ Returns(r, "keeper") >= Returns(a, "keeper") - paid
       /\ orders' = [orders EXCEPT ![i] = r]
  BY <1>8 DEF SettledFor, Parties
<1> HIDE DEF paid, k
<1>11. \E dP, dO, dK : PositionDone(dP, dO, dK) /\ dP + dO = 0 /\ dK = paid
  <2>1. CASE RemovePosition(k, 0, paid)
    <3>1. 0 <= PositionRent + PositionCutRent(TRUE) /\ 0 \in Nat /\ paid \in Int
      BY <1>3, LamportsTyped DEF PositionCutRent
    <3>2. PositionDone(0 - held, held - 0, 0 + paid)
      BY <1>1, <1>2, <2>1, <3>1, RemovalDone
    <3> HIDE DEF held
    <3>3. (0 - held) + (held - 0) = 0 /\ 0 + paid = paid
      BY <1>3, <1>6
    <3> QED BY <3>2, <3>3
  <2>2. ASSUME NEW after \in Nat, KeepPosition(k, after, paid)
        PROVE  \E dP, dO, dK : PositionDone(dP, dO, dK) /\ dP + dO = 0 /\ dK = paid
    <3>1. PositionDone(0, 0, paid)
      BY <1>1, <1>2, <1>3, <2>2, KeptDone
    <3> QED BY <3>1
  <2> QED BY <1>7, <2>1, <2>2
<1>12. PICK dP, dO, dK : PositionDone(dP, dO, dK) /\ dP + dO = 0 /\ dK = paid
  BY <1>11
<1>13. dP \in Int /\ dO \in Int
  BY <1>12 DEF PositionDone
<1> HIDE DEF a
<1>14. offered' \in Nat
  BY <1>2, <1>7, <1>9
<1>15. Returns(r, "owner") + dP + dO + offered' >= Returns(a, "owner") + offered
  BY <1>2, <1>3, <1>7, <1>9, <1>10, <1>12, <1>13
<1>16. Returns(r, "keeper") + dK + (IF deleveraged' = deleveraged THEN 0 ELSE MinExecutionLamports)
          >= Returns(a, "keeper")
  BY <1>3, <1>7, <1>9, <1>10, <1>12
<1> QED BY <1>7, <1>10, <1>12, <1>14, <1>15, <1>16, OrderAndPositionStep DEF a

LEMMA HeldCancels ==
  ASSUME NEW base \in Int, NEW min \in Int, NEW paid \in Int,
         NEW held \in Int, NEW refund \in Int, NEW now \in Int, NEW then \in Int,
         min - paid + base - refund + then >= now
  PROVE  (base + min - paid) + (0 - held) + (held - refund) + then >= 0 + now
OBVIOUS

\* A cut: the keeper pays for the order, and gets that back from the order or
\* from the position.
LEMMA CutKeeps ==
  ASSUME PositionOrdersInv, NEW i \in OrderSlots, NEW k \in PositionKeys,
         NEW kind \in OrderKinds, NEW delta \in Nat, NEW after \in Nat, NEW refund \in Nat,
         NEW fee \in ExecutionFees, positions[k] # NoPositionAccount,
         CutPosition(i, k, kind, delta, after, refund, fee),
         \/ /\ after = 0 /\ refund = OrderRent + Escrowed + MinExecutionLamports
            /\ offered' = offered + MinExecutionLamports /\ deleveraged' = deleveraged
         \/ /\ after = 0 /\ refund = OrderRent + Escrowed
            /\ offered' = offered /\ deleveraged' = deleveraged + 1
         \/ after # 0 /\ offered' = offered /\ deleveraged' = deleveraged
  PROVE  PositionOrdersInv'
<1> DEFINE p == CutParams(kind, k, delta)
           paid == ExecutionLamports(fee, MinExecutionLamports)
           min == MinExecutionLamports
           base == OrderRent + Escrowed
           x == paid - (OrderRent + Escrowed + MinExecutionLamports)
           left == OrderRent + MinExecutionLamports - paid
           held == PositionRent + PositionCutRent(TRUE)
           to == CutRentReceiver(after = 0)
           r == NewOrder(p, "completed", to, left)
<1>1. OrdersTyped /\ CutsPrepaid /\ orders[i] = NoOrder /\ offered \in Nat /\ deleveraged \in Nat
  BY DEF PositionOrdersInv, CutPosition, OrdersTyped
<1>2. /\ OrderRent \in Nat /\ Escrowed \in Nat /\ min \in Nat /\ held \in Nat
      /\ held = PositionRent + (OrderRent + Escrowed + min) /\ PositionRent \in Nat
  BY LamportsTyped DEF PositionCutRent
<1>3. paid \in Nat /\ paid <= min
  BY <1>2, PaidForExecution
<1>4. /\ orders' = [orders EXCEPT ![i] = r]
      /\ after = 0 => RemovePosition(k, refund, x)
      /\ after # 0 => KeepPosition(k, after, x)
  BY DEF CutPosition
<1>5. to \in Parties /\ (after = 0 => to = "owner") /\ (after # 0 => to = "keeper")
  BY DEF CutRentReceiver, Parties
<1>6. p.kind \in OrderKinds /\ p.position \in PositionKeys /\ {p.size, p.amount, p.lamports} \subseteq Nat
  BY <1>2 DEF CutParams
<1> HIDE DEF p, paid, to
<1>7. left \in Int /\ x \in Int
  BY <1>2, <1>3
<1>8. /\ r \in OrderAccounts
      /\ \A q : Returns(r, q) = IF q = to THEN left + Escrowed ELSE 0
  <2> HIDE DEF left
  <2>1. "completed" \in {"pending", "completed", "cancelled"}
    OBVIOUS
  <2> QED BY <1>5, <1>6, <1>7, <2>1, NewOrderTyped
<1> HIDE DEF r
<1>9. \A q : Returns(orders[i], q) = 0
  BY <1>1 DEF Returns
<1>10. CASE after = 0
  <2>1. Returns(r, "owner") = left + Escrowed /\ Returns(r, "keeper") = 0
    BY <1>5, <1>8, <1>10
  <2>2. refund <= held
    BY <1>2, <1>10, LamportsTyped DEF PositionCutRent
  <2>3. PositionDone(0 - held, held - refund, refund + x)
    <3> HIDE DEF x
    <3> QED BY <1>1, <1>4, <1>7, <1>10, <2>2, RemovalDone
  <2>4. offered' \in Nat /\ (deleveraged' = deleveraged \/ deleveraged' = deleveraged + 1)
    BY <1>1, <1>2, <1>10
  <2>5. Returns(r, "owner") + (0 - held) + (held - refund) + offered' >= Returns(orders[i], "owner") + offered
    <3>1. min - paid + base - refund + offered' >= offered
      BY <1>1, <1>2, <1>3, <1>10
    <3>2. Returns(r, "owner") = base + min - paid
      BY <1>2, <1>3, <2>1
    <3> HIDE DEF held, base, min
    <3>3. base \in Nat
      BY <1>2 DEF base
    <3>4. Returns(r, "owner") + (0 - held) + (held - refund) + offered' >= 0 + offered
      <4>1. base \in Int /\ min \in Int /\ paid \in Int /\ held \in Int /\ refund \in Int
            /\ offered \in Int /\ offered' \in Int
        BY <1>1, <1>2, <1>3, <2>4, <3>3
      <4>2. (base + min - paid) + (0 - held) + (held - refund) + offered' >= 0 + offered
        BY <3>1, <4>1, HeldCancels
      <4> QED BY <3>2, <4>2
    <3> QED BY <1>9, <3>4
  <2>6. Returns(r, "keeper") + (refund + x)
           + (IF deleveraged' = deleveraged THEN 0 ELSE MinExecutionLamports)
           >= Returns(orders[i], "keeper")
    BY <1>1, <1>2, <1>3, <1>9, <1>10, <2>1
  <2> HIDE DEF held, x
  <2> QED BY <1>4, <1>8, <2>3, <2>4, <2>5, <2>6, OrderAndPositionStep
<1>11. CASE after # 0
  <2>1. Returns(r, "owner") = 0 /\ Returns(r, "keeper") = left + Escrowed
    BY <1>5, <1>8, <1>11
  <2>2. PositionDone(0, 0, x)
    <3> HIDE DEF x
    <3> QED BY <1>1, <1>4, <1>7, <1>11, KeptDone
  <2>3. offered' \in Nat /\ deleveraged' = deleveraged
    BY <1>1, <1>11
  <2>4. Returns(r, "owner") + 0 + 0 + offered' >= Returns(orders[i], "owner") + offered
    BY <1>1, <1>9, <1>11, <2>1
  <2>5. Returns(r, "keeper") + x + (IF deleveraged' = deleveraged THEN 0 ELSE MinExecutionLamports)
           >= Returns(orders[i], "keeper")
    BY <1>2, <1>3, <1>9, <2>1, <2>3
  <2> HIDE DEF x
  <2> QED BY <1>4, <1>8, <2>2, <2>3, <2>4, <2>5, OrderAndPositionStep
<1> QED BY <1>10, <1>11

LEMMA LiquidateKeeps ==
  ASSUME PositionOrdersInv, NEW i \in OrderSlots, NEW k \in PositionKeys, NEW fee \in ExecutionFees,
         Liquidate(i, k, fee)
  PROVE  PositionOrdersInv'
<1> DEFINE size == positions[k].size  refund == OrderRent + Escrowed + MinExecutionLamports
<1>1. positions[k] # NoPositionAccount /\ OrdersTyped
  BY DEF Liquidate, PositionOrdersInv
<1>2. size \in Nat /\ 0 \in Nat /\ "Liquidation" \in OrderKinds
  BY <1>1 DEF OrdersTyped, PositionAccounts, OrderKinds
<1>3. refund \in Nat
  BY LamportsTyped
<1>4. CutPosition(i, k, "Liquidation", size, 0, refund, fee)
  BY DEF Liquidate, PositionCutRent
<1>5. offered' = offered + MinExecutionLamports /\ deleveraged' = deleveraged
  BY DEF Liquidate
<1> HIDE DEF size
<1> QED BY <1>1, <1>2, <1>3, <1>4, <1>5, CutKeeps

LEMMA DeleverageKeeps ==
  ASSUME PositionOrdersInv, NEW i \in OrderSlots, NEW k \in PositionKeys, NEW fee \in ExecutionFees,
         NEW s \in CutSizes, AutoDeleverage(i, k, s, fee)
  PROVE  PositionOrdersInv'
<1> DEFINE size == positions[k].size  delta == Min({s, size})  refund == OrderRent + Escrowed
<1>1. positions[k] # NoPositionAccount /\ OrdersTyped /\ s \in Nat
  BY OrdersAssumption DEF AutoDeleverage, PositionOrdersInv
<1>2. size \in Nat /\ "AutoDeleveraging" \in OrderKinds
  BY <1>1 DEF OrdersTyped, PositionAccounts, OrderKinds
<1>3. refund \in Nat
  BY LamportsTyped
<1>4. PICK after \in SizesAfterDecrease(size, delta, FALSE) :
         /\ CutPosition(i, k, "AutoDeleveraging", delta, after, PositionCutRent(FALSE), fee)
         /\ deleveraged' = deleveraged + (IF after = 0 THEN 1 ELSE 0)
  BY DEF AutoDeleverage
<1>5. delta \in Nat
  <2> HIDE DEF size
  <2> QED BY <1>1, <1>2, MinOfTwo
<1> HIDE DEF size, delta
<1>6. after \in Nat
  BY <1>2, <1>5, DecreaseTyped
<1>7. PositionCutRent(FALSE) = refund
  BY LamportsTyped DEF PositionCutRent
<1>8. CutPosition(i, k, "AutoDeleveraging", delta, after, refund, fee)
  BY <1>4, <1>7
<1>9. offered' = offered /\ deleveraged \in Nat
  BY <1>1 DEF AutoDeleverage, OrdersTyped
<1>10. \/ after = 0 /\ deleveraged' = deleveraged + 1
       \/ after # 0 /\ deleveraged' = deleveraged
  BY <1>4, <1>9
<1> QED BY <1>1, <1>2, <1>3, <1>5, <1>6, <1>8, <1>9, <1>10, CutKeeps

LEMMA OrdersInit ==
  ASSUME PositionOrdersInit
  PROVE  PositionOrdersInv
<1>1. OrdersTyped
  BY DEF PositionOrdersInit, OrdersTyped
<1>2. CutsPrepaid
  BY DEF PositionOrdersInit, CutsPrepaid
<1>3. ASSUME NEW p PROVE OrderReturns(p) = 0
  <2> DEFINE f == [o \in OrderSlots |-> Returns(orders[o], p)]
  <2>1. f \in [OrderSlots -> Nat] /\ \A o \in OrderSlots : f[o] = 0
    BY DEF PositionOrdersInit, Returns
  <2> HIDE DEF f
  <2>2. SumFunction(f) = 0
    BY <2>1, SumFunctionZero, OrdersAssumption
  <2> QED BY <2>2 DEF OrderReturns, f
<1>4. PositionRefunds = 0
  <2> DEFINE f == [k \in PositionKeys |-> Refunds(positions[k])]
  <2>1. f \in [PositionKeys -> Nat] /\ \A k \in PositionKeys : f[k] = 0
    BY DEF PositionOrdersInit, Refunds
  <2> HIDE DEF f
  <2>2. SumFunction(f) = 0
    BY <2>1, SumFunctionZero, OrdersAssumption
  <2> QED BY <2>2 DEF PositionRefunds, f
<1>5. purse["owner"] = 0 /\ purse["keeper"] = 0 /\ offered = 0 /\ deleveraged = 0
  BY DEF PositionOrdersInit, Parties
<1>6. deleveraged * MinExecutionLamports = 0
  BY <1>5, LamportsTyped
<1>7. CutsPaidForOnce
  BY <1>1, <1>3, <1>4, <1>5, <1>6, EvenIs DEF OwnerIsEven, KeeperIsEven
<1> QED BY <1>1, <1>2, <1>7 DEF PositionOrdersInv

LEMMA OrdersStutter ==
  ASSUME PositionOrdersInv, UNCHANGED positionOrderVars
  PROVE  PositionOrdersInv'
BY DEF positionOrderVars, PositionOrdersInv, OrdersTyped, CutsPrepaid, CutsPaidForOnce, Worth

LEMMA OrdersNext ==
  ASSUME PositionOrdersInv, [PositionOrdersNext]_positionOrderVars
  PROVE  PositionOrdersInv'
<1>1. ASSUME NEW k \in PositionKeys, PreparePosition(k) PROVE PositionOrdersInv'
  BY <1>1, PrepareKeeps
<1>2. ASSUME NEW o \in OrderSlots, NEW p \in OrderParams, CreatePositionOrder(o, p)
      PROVE  PositionOrdersInv'
  BY <1>2, CreateKeeps
<1>3. ASSUME NEW o \in OrderSlots, NEW size \in SizeUpdates, UpdateOrderSize(o, size)
      PROVE  PositionOrdersInv'
  BY <1>3, UpdateSizeKeeps
<1>4. ASSUME NEW o \in OrderSlots, CancelOrderWithoutPosition(o) PROVE PositionOrdersInv'
  BY <1>4, CancelKeeps
<1>5. ASSUME NEW o \in OrderSlots, NEW b \in BOOLEAN, ClosePositionOrder(o, b)
      PROVE  PositionOrdersInv'
  BY <1>5, CloseKeeps
<1>6. ASSUME NEW o \in OrderSlots, NEW fee \in ExecutionFees,
             ExecuteOnPosition(o, fee) \/ ExecuteSwap(o, fee)
      PROVE  PositionOrdersInv'
  BY <1>6, ExecuteKeeps, SwapKeeps
<1>7. ASSUME NEW o \in OrderSlots, NEW fee \in ExecutionFees, NEW k \in PositionKeys,
             Liquidate(o, k, fee)
      PROVE  PositionOrdersInv'
  BY <1>7, LiquidateKeeps
<1>8. ASSUME NEW o \in OrderSlots, NEW fee \in ExecutionFees, NEW k \in PositionKeys,
             NEW size \in CutSizes, AutoDeleverage(o, k, size, fee)
      PROVE  PositionOrdersInv'
  BY <1>8, DeleverageKeeps
<1>9. CASE UNCHANGED positionOrderVars
  BY <1>9, OrdersStutter
<1> QED BY <1>1, <1>2, <1>3, <1>4, <1>5, <1>6, <1>7, <1>8, <1>9 DEF PositionOrdersNext

\* Whatever the order of cuts, failed executions, closings and new positions:
\* neither the owner nor the keeper pays more than the execution lamports that
\* are theirs to pay, counting what the accounts return when they are closed
\* (close_position, set_rent_receiver).  Inductive with the types and with
\* what every position account still holds of what was paid in advance.
THEOREM CutsArePaidForOnce == PositionOrdersSpec => []CutsPaidForOnce
<1>1. PositionOrdersInit => PositionOrdersInv
  BY OrdersInit
<1>2. PositionOrdersInv /\ [PositionOrdersNext]_positionOrderVars => PositionOrdersInv'
  BY OrdersNext
<1>3. PositionOrdersInv => CutsPaidForOnce
  BY DEF PositionOrdersInv
<1> QED BY <1>1, <1>2, <1>3, PTL DEF PositionOrdersSpec
=============================================================================
