---------------------------- MODULE MarketConfig ----------------------------
(***************************************************************************)
(* The markets of a store as their keepers manage them: vaults and market  *)
(* accounts are created, switched and configured, key by key or from a     *)
(* buffer (instructions/market.rs, states/market/config.rs).               *)
(*                                                                         *)
(* A buffer belongs to its authority, who needs no role: somebody collects *)
(* entries in it and hands it over to a MARKET_KEEPER, who applies it,     *)
(* perhaps more than once, until it expires.                               *)
(***************************************************************************)
EXTENDS Integers, Sequences, FiniteSets

CONSTANTS Managers,         \* people who may become MARKET_KEEPER
          FirstKeepers,
          Listings,         \* markets: records of index, long, short
          Mints,            \* tokens of the token map, with the vaults' mints
          Synthetic,        \* those that cannot be in a pool
          ConfigKeys,       \* MarketConfigKey
          KeyNames,         \* strings given as keys, other strings included
          FlagNames,        \* MarketConfigFlag
          Factors,          \* values of the configuration
          DefaultConfig,    \* MarketConfig::init
          Lifetimes,        \* expire_after_secs
          Transferred,      \* amounts of market_transfer_in
          MaxEntries, MaxMarketTime, MaxEdits,
          NoListing, NoBuffer

ASSUME ListingsAssumption ==
    \A l \in Listings : {l.index, l.long, l.short} \subseteq Mints
ASSUME ConfigKeysAssumption ==
    /\ ConfigKeys \subseteq KeyNames
    /\ DefaultConfig = [key \in ConfigKeys |-> DefaultConfig[key]]
    /\ FirstKeepers \subseteq Managers
    /\ Transferred \subseteq Nat /\ Lifetimes \subseteq Nat

VARIABLES time,
          keepers,          \* who holds MARKET_KEEPER
          usable,           \* tokens whose config is enabled
          vaults,           \* balances of the market vaults that exist
          listing,          \* the market account of each listing
          buffer,           \* MarketConfigBuffer
          edits             \* counts changes of roles, tokens, vaults, switches, keys

marketConfigVars == <<time, keepers, usable, vaults, listing, buffer, edits>>

MarketConfigInit ==
    /\ time = 0
    /\ keepers = FirstKeepers
    /\ usable = Mints
    /\ vaults = <<>>
    /\ listing = [l \in Listings |-> NoListing]
    /\ buffer = NoBuffer
    /\ edits = 0

Edited == edits < MaxEdits /\ edits' = edits + 1

TimePasses ==
    /\ time < MaxMarketTime
    /\ time' = time + 1
    /\ UNCHANGED <<keepers, usable, vaults, listing, buffer, edits>>

\* grant_role and revoke_role, which StoreRoles is about.
SetMarketKeepers(ps) ==
    /\ ps # keepers /\ Edited
    /\ keepers' = ps
    /\ UNCHANGED <<time, usable, vaults, listing, buffer>>

\* toggle_token_config, which Oracle is about.
ToggleMint(t) ==
    /\ keepers # {} /\ Edited
    /\ usable' = IF t \in usable THEN usable \ {t} ELSE usable \cup {t}
    /\ UNCHANGED <<time, keepers, vaults, listing, buffer>>

-----------------------------------------------------------------------------
(* Markets.  One is created once for its tokens, when both vaults exist.   *)

InitializeMarketVault(t) ==
    /\ keepers # {}
    /\ t \notin DOMAIN vaults /\ Edited
    /\ vaults' = [u \in DOMAIN vaults \cup {t} |-> IF u = t THEN 0 ELSE vaults[u]]
    /\ UNCHANGED <<time, keepers, usable, listing, buffer>>

PoolToken(t) == t \in usable /\ t \notin Synthetic /\ t \in DOMAIN vaults

\* Market::init.
NewListing(l, enable) ==
    [enabled |-> enable, pure |-> l.long = l.short, gt |-> FALSE, flags |-> {},
     config |-> DefaultConfig, balance |-> [isLong \in BOOLEAN |-> 0]]

InitializeMarket(l, enable) ==
    /\ keepers # {}
    /\ listing[l] = NoListing
    /\ l.index \in usable /\ PoolToken(l.long) /\ PoolToken(l.short)
    /\ listing' = [listing EXCEPT ![l] = NewListing(l, enable)]
    /\ UNCHANGED <<time, keepers, usable, vaults, buffer, edits>>

SetListing(l, new) ==
    /\ keepers # {}
    /\ listing[l] # NoListing
    /\ listing' = [listing EXCEPT ![l] = new]
    /\ UNCHANGED <<time, keepers, usable, buffer>>

ToggleMarket(l, enable) ==
    SetListing(l, [listing[l] EXCEPT !.enabled = enable]) /\ Edited /\ UNCHANGED vaults

ToggleGtMinting(l, enable) ==
    SetListing(l, [listing[l] EXCEPT !.gt = enable]) /\ Edited /\ UNCHANGED vaults

\* The token tells the side; both are one in a pure market, whose balance is
\* kept as the long one.
MarketTransferIn(l, t, amount) ==
    /\ listing[l] # NoListing /\ listing[l].enabled
    /\ t \in {l.long, l.short}
    /\ SetListing(l, [listing[l] EXCEPT !.balance[t = l.long] = @ + amount])
    /\ Edited
    /\ vaults' = [vaults EXCEPT ![t] = @ + amount]

\* MarketConfig::get_mut and set_flag.
WithValue(config, key, value) == [config EXCEPT ![key] = value]
WithFlag(flags, flag, value) == IF value THEN flags \cup {flag} ELSE flags \ {flag}

UpdateMarketConfig(l, key, value) ==
    /\ key \in ConfigKeys
    /\ SetListing(l, [listing[l] EXCEPT !.config = WithValue(@, key, value)])
    /\ Edited /\ UNCHANGED vaults

UpdateMarketConfigFlag(l, flag, value) ==
    /\ flag \in FlagNames
    /\ SetListing(l, [listing[l] EXCEPT !.flags = WithFlag(@, flag, value)])
    /\ Edited /\ UNCHANGED vaults

-----------------------------------------------------------------------------
(* Buffers.  An entry remembers who pushed it and the buffer how many      *)
(* entries it had when its authority received it: history, no data.        *)

BufferStep(new) == buffer' = new /\ UNCHANGED <<time, keepers, usable, vaults, listing, edits>>

InitializeMarketConfigBuffer(p, secs) ==
    /\ buffer = NoBuffer
    /\ BufferStep([authority |-> p, expiry |-> time + secs, entries |-> <<>>, received |-> 0])

SetMarketConfigBufferAuthority(p, to) ==
    /\ buffer # NoBuffer /\ buffer.authority = p
    /\ BufferStep([buffer EXCEPT !.authority = to, !.received = Len(buffer.entries)])

CloseMarketConfigBuffer(p) ==
    /\ buffer # NoBuffer /\ buffer.authority = p
    /\ BufferStep(NoBuffer)

PusherAnybody(p) == buffer # NoBuffer    \* a mutant: no has_one = authority

Pusher(p) == buffer # NoBuffer /\ buffer.authority = p

Pushed(key, value, p) ==
    [buffer EXCEPT !.entries = Append(@, [key |-> key, value |-> value, by |-> p])]

PushToMarketConfigBuffer(p, key, value) ==
    /\ Pusher(p)
    /\ Len(buffer.entries) < MaxEntries
    /\ key \in ConfigKeys
    /\ BufferStep(Pushed(key, value, p))

\* update_config_with_buffer: entry by entry, so that of two entries with one
\* key the later counts.
UpdatedWith(config, entries) ==
    LET after[n \in 0 .. Len(entries)] ==
          IF n = 0 THEN config
          ELSE WithValue(after[n - 1], entries[n].key, entries[n].value)
    IN  after[Len(entries)]

\* The keeper who signs is the buffer's authority.
UpdateMarketConfigWithBuffer(l) ==
    /\ buffer # NoBuffer
    /\ buffer.authority \in keepers
    /\ time < buffer.expiry
    /\ SetListing(l, [listing[l] EXCEPT !.config = UpdatedWith(@, buffer.entries)])
    /\ UNCHANGED <<vaults, edits>>

MarketConfigNext ==
    \/ TimePasses
    \/ \E ps \in SUBSET Managers : SetMarketKeepers(ps)
    \/ \E t \in Mints : ToggleMint(t) \/ InitializeMarketVault(t)
    \/ \E l \in Listings :
         \/ \E enable \in BOOLEAN : \/ InitializeMarket(l, enable)
                                    \/ ToggleMarket(l, enable)
                                    \/ ToggleGtMinting(l, enable)
         \/ \E t \in Mints, amount \in Transferred : MarketTransferIn(l, t, amount)
         \/ \E key \in KeyNames, value \in Factors : UpdateMarketConfig(l, key, value)
         \/ \E flag \in FlagNames, value \in BOOLEAN : UpdateMarketConfigFlag(l, flag, value)
         \/ UpdateMarketConfigWithBuffer(l)
    \/ \E p \in Managers :
         \/ \E secs \in Lifetimes : InitializeMarketConfigBuffer(p, secs)
         \/ \E to \in Managers : SetMarketConfigBufferAuthority(p, to)
         \/ \E key \in KeyNames, value \in Factors : PushToMarketConfigBuffer(p, key, value)
         \/ CloseMarketConfigBuffer(p)

MarketConfigSpec == MarketConfigInit /\ [][MarketConfigNext]_marketConfigVars

-----------------------------------------------------------------------------
Written(key) == {n \in DOMAIN buffer.entries : buffer.entries[n].key = key}
LastValue(key) ==
    buffer.entries[CHOOSE n \in Written(key) : \A i \in Written(key) : i <= n].value

AppliesBuffer(l) ==
    /\ buffer # NoBuffer
    /\ buffer.authority \in keepers /\ time < buffer.expiry
    /\ \A n \in buffer.received + 1 .. Len(buffer.entries) :
         buffer.entries[n].by = buffer.authority
    /\ \A key \in ConfigKeys :
         listing'[l].config[key] = IF Written(key) # {} THEN LastValue(key)
                                   ELSE listing[l].config[key]

Reconfigured(l) == {key \in ConfigKeys : listing'[l].config[key] # listing[l].config[key]}
ManyKeysByBuffer ==
    \A l \in Listings : (listing[l] # NoListing /\ listing'[l] # NoListing) =>
                            (Cardinality(Reconfigured(l)) > 1 => AppliesBuffer(l))

\* What a keeper applies is what it was handed over and what it added since:
\* when more than one key of a market changes at once, a keeper owns a buffer
\* that has not expired, nobody else has pushed to it since the keeper has it,
\* and the market takes over the last value of every key in it, and no other.
AppliedAsHandedOver == [][ManyKeysByBuffer]_marketConfigVars
=============================================================================
