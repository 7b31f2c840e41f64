-------------------------- MODULE MCTenantLifecycle --------------------------
(***************************************************************************)
(* Messages for model-checking TenantLifecycle over one platform that is   *)
(* there from the start.                                                   *)
(***************************************************************************)
EXTENDS TenantLifecycle, TLC

CONSTANTS platform, entity, stranger

SeedRows ==
    platform :> [kind |-> "platform", parent |-> NoTenant, entity |-> entity,
                 fields |-> [display_name |-> "old", tenant_status |-> "active",
                             netting_window_minutes |-> 3]]

Post(kind, parent, e, form) ==
    [op |-> "POST", form |-> form, kind |-> kind, parent |-> parent, entity |-> e,
     fields |-> [display_name |-> "old", tenant_status |-> Absent,
                 netting_window_minutes |-> Absent]]

Patch(id, name, status, window, form) ==
    [op |-> "PATCH", form |-> form, id |-> id,
     fields |-> [display_name |-> name, tenant_status |-> status,
                 netting_window_minutes |-> window]]

\* Creations under every possible parent and what the table refuses; updates of
\* one column, of two, of a number that wraps, and of nothing a column takes;
\* reads of both kinds.
AllMessages ==
    {Post("connected", p, entity, "ok") : p \in Requests \union {platform, NoTenant}}
    \union {Post("seller", platform, entity, "ok"), Post("direct", NoTenant, stranger, "ok"),
            Post("platform", NoTenant, entity, "bad")}
    \union UNION {{Patch(t, "new", Absent, Absent, "ok"), Patch(t, Absent, "closed", 14, "ok")} :
                t \in Requests \union {platform}}
    \union {Patch(platform, "new", "suspended", Absent, "ok"),
            Patch(platform, "new", Absent, Absent, "unfit"), Patch(stranger, "new", Absent, Absent, "ok")}
    \union {[op |-> "GET", form |-> "ok", id |-> t] : t \in Requests \union {platform}}
    \union {[op |-> "LIST", form |-> "ok", entity |-> entity]}

\* Requests are interchangeable.
RequestSymmetry == Permutations(Requests)

=============================================================================
