--------------------------- MODULE MCTenantRouting --------------------------
(***************************************************************************)
(* TenantRouting for TLC: two of the four secrets.                         *)
(***************************************************************************)
EXTENDS TenantRouting

TwoSecrets == <<"odoo_url", "odoo_api_key">>
=============================================================================
