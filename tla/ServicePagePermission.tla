-------------------------- MODULE ServicePagePermission --------------------------
(***************************************************************************)
(* The permissions a session grants for the use of an external service's   *)
(* page.  They are kept in the order of their creation and only the newest *)
(* one is ever in force; it may be revoked, and the artifacts of any of    *)
(* them deleted.                                                           *)
(***************************************************************************)
EXTENDS Naturals

CONSTANTS MaxPermissions    \* bound on the permissions of the session

ASSUME PermissionAssumption == MaxPermissions \in Nat

PermissionIds == 1 .. MaxPermissions

\* "preview" stands for read too, "fill_draft" for copy_generated_value.
PageActions == {"preview", "fill_draft", "final_submit_request"}
PerAction   == {"fill_draft", "final_submit_request"}

\* sound: origin, URL, redaction preview, purpose and blocked classes are as they must be.
PermissionPayloads ==
    [allows : SUBSET PageActions \ {{}}, perAction : BOOLEAN, finalSubmit : BOOLEAN, sound : BOOLEAN]

Permissions ==
    [allows : SUBSET PageActions, perAction : BOOLEAN, artifacts : BOOLEAN,
     status : {"absent", "granted", "blocked", "final_submit_requested", "revoked"}]

NoPermission == [allows |-> {}, perAction |-> FALSE, artifacts |-> FALSE, status |-> "absent"]

VARIABLES
    pages,      \* the permissions, by the order of their creation
    newest      \* the one created last, or 0

pageVars == <<pages, newest>>

PagesInit == pages = [n \in PermissionIds |-> NoPermission] /\ newest = 0

BlockedPayload(p) ==
    \/ ~p.sound
    \/ ~p.perAction /\ "fill_draft" \in p.allows
    \/ p.finalSubmit \/ "final_submit_request" \in p.allows

StatusOf(p) ==
    CASE BlockedPayload(p) -> "blocked"
      [] ~BlockedPayload(p) /\ p.finalSubmit -> "final_submit_requested"
      [] OTHER -> "granted"

Revokable == {"granted", "final_submit_requested"}

CreateServicePageUsePermission(p) ==
    /\ newest < MaxPermissions
    /\ newest' = newest + 1
    /\ pages' = [pages EXCEPT ![newest + 1] =
            [allows |-> p.allows, perAction |-> p.perAction, artifacts |-> TRUE, status |-> StatusOf(p)]]

\* Only the newest permission can be revoked.
RevokeServicePageUsePermission(n) ==
    /\ n = newest
    /\ pages[n].status \in Revokable
    /\ pages' = [pages EXCEPT ![n].status = "revoked"]
    /\ UNCHANGED newest

\* The artifacts of any permission may be deleted, whatever its status.
DeleteServicePageUsePermissionArtifacts(n) ==
    /\ n <= newest
    /\ pages[n].artifacts
    /\ pages' = [pages EXCEPT ![n].artifacts = FALSE]
    /\ UNCHANGED newest

InForce(n) == n = newest /\ pages[n].status \in {"granted", "final_submit_requested"}

\* Slip: any permission that was not revoked is in force.
PagePermitsOlder(n, a) ==
    /\ pages[n].status \in {"granted", "final_submit_requested"}
    /\ a \in pages[n].allows
    /\ a \in PerAction => pages[n].perAction

\* What servicePageUsePermissionBrowserActionBlockReasons lets pass.
PagePermits(n, a) ==
    /\ InForce(n)
    /\ a \in pages[n].allows
    /\ a \in PerAction => pages[n].perAction
=============================================================================
