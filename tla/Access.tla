------------------------------- MODULE Access -------------------------------
(***************************************************************************)
(* Which role an instruction of the store program asks of its caller: the  *)
(* access_control attributes of programs/gmsol-store/src/lib.rs, section   *)
(* by section.  "signer" means no role: the accounts of the instruction    *)
(* and its handler decide what the signer may do (an owner, the receiver,  *)
(* a buffer's authority, and for the close_* instructions an owner or an   *)
(* ORDER_KEEPER).                                                          *)
(***************************************************************************)
EXTENDS TLC

StoreAccess ==
    [initialize |-> "signer", update_last_restarted_slot |-> "ADMIN",
     transfer_store_authority |-> "ADMIN", accept_store_authority |-> "signer",
     transfer_receiver |-> "signer", accept_receiver |-> "signer",
     set_token_map |-> "MARKET_KEEPER"]
RoleReads ==
    [check_admin |-> "signer", check_role |-> "signer",
     has_admin |-> "signer", has_role |-> "signer"]
RoleAccess ==
    [enable_role |-> "ADMIN", disable_role |-> "ADMIN",
     grant_role |-> "ADMIN", revoke_role |-> "ADMIN"]
ConfigAccess ==
    [insert_amount |-> "CONFIG_KEEPER", insert_factor |-> "CONFIG_KEEPER",
     insert_address |-> "CONFIG_KEEPER",
     insert_order_fee_discount_for_referred_user |-> "MARKET_KEEPER"]
FeatureAccess == [toggle_feature |-> "FEATURE_KEEPER"]
TokenMapAccess ==
    [initialize_token_map |-> "signer", push_to_token_map |-> "MARKET_KEEPER",
     push_to_token_map_synthetic |-> "MARKET_KEEPER",
     toggle_token_config |-> "MARKET_KEEPER"]
TokenFeedAccess ==
    [set_expected_provider |-> "MARKET_KEEPER", set_feed_config |-> "MARKET_KEEPER"]
TokenReads ==
    [is_token_config_enabled |-> "signer", token_expected_provider |-> "signer",
     token_feed |-> "signer", token_timestamp_adjustment |-> "signer",
     token_name |-> "signer", token_decimals |-> "signer",
     token_precision |-> "signer"]
OracleAccess ==
    [initialize_oracle |-> "signer", clear_all_prices |-> "ORACLE_CONTROLLER",
     set_prices_from_price_feed |-> "ORACLE_CONTROLLER",
     initialize_price_feed |-> "PRICE_KEEPER",
     update_price_feed_with_chainlink |-> "PRICE_KEEPER"]
MarketAccess ==
    [initialize_market |-> "MARKET_KEEPER", toggle_market |-> "MARKET_KEEPER",
     market_transfer_in |-> "MARKET_KEEPER"]
MarketConfigAccess ==
    [update_market_config |-> "MARKET_KEEPER",
     update_market_config_flag |-> "MARKET_KEEPER",
     update_market_config_with_buffer |-> "MARKET_KEEPER",
     get_market_status |-> "signer", get_market_token_price |-> "signer"]
BufferAccess ==
    [initialize_market_config_buffer |-> "signer",
     set_market_config_buffer_authority |-> "signer",
     close_market_config_buffer |-> "signer",
     push_to_market_config_buffer |-> "signer"]
MarketVaultAccess ==
    [toggle_gt_minting |-> "MARKET_KEEPER", claim_fees_from_market |-> "signer",
     initialize_market_vault |-> "MARKET_KEEPER",
     use_claimable_account |-> "ORDER_KEEPER",
     close_empty_claimable_account |-> "ORDER_KEEPER",
     prepare_associated_token_account |-> "signer"]
DepositAccess ==
    [create_deposit |-> "signer", close_deposit |-> "signer",
     execute_deposit |-> "ORDER_KEEPER"]
WithdrawalAccess ==
    [create_withdrawal |-> "signer", close_withdrawal |-> "signer",
     execute_withdrawal |-> "ORDER_KEEPER"]
OrderAccess ==
    [prepare_position |-> "signer", create_order |-> "signer",
     close_order |-> "signer", cancel_order_if_no_position |-> "ORDER_KEEPER"]
TradeAccess ==
    [prepare_trade_event_buffer |-> "signer", update_order |-> "signer",
     execute_increase_or_swap_order |-> "ORDER_KEEPER"]
DecreaseAccess == [execute_decrease_order |-> "ORDER_KEEPER"]
PositionCutAccess ==
    [liquidate |-> "ORDER_KEEPER", update_adl_state |-> "ORDER_KEEPER",
     auto_deleverage |-> "ORDER_KEEPER"]
ShiftAccess ==
    [create_shift |-> "signer", execute_shift |-> "ORDER_KEEPER",
     close_shift |-> "signer"]
GtAccess ==
    [initialize_gt |-> "MARKET_KEEPER",
     gt_set_order_fee_discount_factors |-> "MARKET_KEEPER",
     gt_set_referral_reward_factors |-> "GT_CONTROLLER",
     gt_set_exchange_time_window |-> "GT_CONTROLLER"]
GtExchangeAccess ==
    [prepare_gt_exchange_vault |-> "signer",
     confirm_gt_exchange_vault |-> "GT_CONTROLLER",
     request_gt_exchange |-> "signer", close_gt_exchange |-> "GT_CONTROLLER"]
UserAccess ==
    [prepare_user |-> "signer", initialize_referral_code |-> "signer",
     set_referrer |-> "signer", transfer_referral_code |-> "signer",
     cancel_referral_code_transfer |-> "signer", accept_referral_code |-> "signer",
     migrate_referral_code |-> "MIGRATION_KEEPER"]
GlvConfigAccess ==
    [initialize_glv |-> "MARKET_KEEPER", update_glv_market_config |-> "MARKET_KEEPER",
     toggle_glv_market_flag |-> "MARKET_KEEPER", update_glv_config |-> "MARKET_KEEPER"]
GlvMarketAccess ==
    [insert_glv_market |-> "MARKET_KEEPER", remove_glv_market |-> "MARKET_KEEPER"]
GlvDepositAccess ==
    [create_glv_deposit |-> "signer", close_glv_deposit |-> "signer",
     execute_glv_deposit |-> "ORDER_KEEPER"]
GlvWithdrawalAccess ==
    [create_glv_withdrawal |-> "signer", close_glv_withdrawal |-> "signer",
     execute_glv_withdrawal |-> "ORDER_KEEPER"]
GlvShiftAccess ==
    [create_glv_shift |-> "ORDER_KEEPER", close_glv_shift |-> "ORDER_KEEPER",
     execute_glv_shift |-> "ORDER_KEEPER"]

OtherAccess ==
    RoleReads @@ ConfigAccess @@ FeatureAccess
    @@ TokenMapAccess @@ TokenFeedAccess @@ TokenReads @@ OracleAccess
    @@ MarketAccess @@ MarketConfigAccess @@ BufferAccess @@ MarketVaultAccess
    @@ DepositAccess @@ WithdrawalAccess @@ OrderAccess @@ TradeAccess
    @@ DecreaseAccess @@ PositionCutAccess @@ ShiftAccess @@ GtAccess
    @@ GtExchangeAccess @@ UserAccess @@ GlvConfigAccess @@ GlvMarketAccess
    @@ GlvDepositAccess @@ GlvWithdrawalAccess @@ GlvShiftAccess
RequiredRole ==
    [i \in DOMAIN StoreAccess \cup DOMAIN RoleAccess \cup DOMAIN OtherAccess |->
        IF i \in DOMAIN StoreAccess THEN StoreAccess[i]
        ELSE IF i \in DOMAIN RoleAccess THEN RoleAccess[i]
        ELSE OtherAccess[i]]
Instructions == DOMAIN RequiredRole

\* What StoreRoles models by actions of their own.
Administrative ==
    {"update_last_restarted_slot", "transfer_store_authority",
     "accept_store_authority", "transfer_receiver", "accept_receiver"}
    \cup DOMAIN RoleAccess
=============================================================================
