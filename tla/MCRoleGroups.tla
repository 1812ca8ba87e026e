---------------------------- MODULE MCRoleGroups ----------------------------
(* RoleGroups with a next release that declares one permission for an app  *)
(* after apps.common and one for an app before it, gives both to staff,    *)
(* and takes one away from the customers.                                  *)
EXTENDS RoleGroups, TLC

NextPermissions == "wallets.new" :> "wallets" @@ "authentication.new" :> "authentication"

NextLists ==
    [RolePermissions EXCEPT
        !["staff"] = @ \cup {"wallets.new", "authentication.new"},
        !["customer_verified"] = @ \ {"wallets.own_transactions"}]
=============================================================================
