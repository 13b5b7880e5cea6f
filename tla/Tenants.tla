---- MODULE Tenants ----
(***************************************************************************)
(* The provisioner (provisioner/index.mjs, openshell.mjs): it reads who holds *)
(* a role, and in passes that never overlap gives each tenant its workspace   *)
(* (an access group, a graph token, an identity on the OpenShell gateway, a   *)
(* container), or locks out one whose role is gone.  What a pass records is    *)
(* written at its end, and only then outlives the process.                     *)
(*                                                                          *)
(* Authentik, Docker and the gateway are external: a call to them may fail.   *)
(***************************************************************************)
EXTENDS FiniteSets, Naturals

CONSTANTS
    Tenants,
    Seed,          \* SEED_TENANTS: known from the start, their containers compose's
    Sandboxed      \* OPENSHELL_TENANTS

ASSUME TenantsAssumption == Seed \subseteq Tenants

VARIABLES
    chances,   \* how often roles change, calls fail and the provisioner restarts (bounds)
    role,      \* external: the tier each tenant's user holds in authentik, or "none"
    recorded,  \* .provisioner-state.json: per tenant "none", "tenant" or "identity" (on the gateway)
    group,     \* tenants whose access group has its owner
    token,     \* token-map.json: per tenant "none", "denied" or the tier of its caps
    loaded,    \* the token map as graph-rag last read it
    account,   \* tenants whose gateway identity is active
    container, \* per tenant: "none", "stopped" or "running"
    pass,      \* the pass at work
    strayed    \* history: tenants of whom something was granted and its record lost

tenantVars == <<chances, role, recorded, group, token, loaded, account, container, pass, strayed>>

Tiers == {"user", "admin"}
NoPass == [pc |-> "idle", wanted |-> [t \in Tenants |-> "none"], seen |-> [t \in Tenants |-> "none"],
           notes |-> [t \in Tenants |-> "none"], todo |-> {}, at |-> "none"]

\* (the roles at the start are the scenario's)
TenantsInit ==
    /\ recorded = [t \in Tenants |-> "none"] /\ token = recorded /\ loaded = recorded
    /\ group = {} /\ account = {} /\ strayed = {} /\ pass = NoPass
    /\ container = [t \in Tenants |-> IF t \in Seed THEN "running" ELSE "none"]

Chance(q) == chances[q] > 0 /\ chances' = [chances EXCEPT ![q] = @ - 1]

\* (faulty variant: those with a role, and no one else)
KnownWanted(wanted) == {t \in Tenants : wanted[t] # "none"}

\* Those with a role, those recorded, and the seed tenants.
Known(wanted) == {t \in Tenants : wanted[t] # "none" \/ recorded[t] # "none"} \cup Seed

\* reconcile() reads the roles and the containers, and records who has none yet.
PassBegin ==
    /\ pass.pc = "idle"
    /\ pass' = [pc |-> "next", wanted |-> role, seen |-> container, todo |-> Known(role), at |-> "none",
                notes |-> [t \in Tenants |->
                    IF recorded[t] = "none" /\ t \in Known(role) THEN "tenant" ELSE recorded[t]]]
    /\ UNCHANGED <<chances, role, recorded, group, token, loaded, account, container, strayed>>

\* One of the services does not answer before the tenants' turn: the pass is given up.
PassFails ==
    /\ pass.pc = "next" /\ pass.todo = Known(pass.wanted) /\ Chance("fault")
    /\ pass' = NoPass
    /\ UNCHANGED <<role, recorded, group, token, loaded, account, container, strayed>>

NextTenant(t) ==
    /\ pass.pc = "next" /\ t \in pass.todo
    /\ pass' = [pass EXCEPT !.todo = @ \ {t}, !.at = t, !.pc = IF pass.wanted[t] # "none" THEN "objects" ELSE "stop"]
    /\ UNCHANGED <<chances, role, recorded, group, token, loaded, account, container, strayed>>

AtStep(pc) == pass.pc = pc
Proceeds(pc) == pass' = [pass EXCEPT !.pc = pc]

\* A step's call fails: what is left of the tenant's turn is skipped.
TenantFails ==
    /\ pass.pc \in {"objects", "identity", "container", "stop", "deactivate", "empty"}
    /\ Chance("fault") /\ Proceeds("next")
    /\ UNCHANGED <<role, recorded, group, token, loaded, account, container, strayed>>

\* ensureTenantObjects: the access group and what hangs on it; a seed tenant has its own.
EnsureObjects ==
    /\ AtStep("objects") /\ Proceeds("token")
    /\ group' = IF pass.at \in Seed THEN group ELSE group \cup {pass.at}
    /\ UNCHANGED <<chances, role, recorded, token, loaded, account, container, strayed>>

EnsureToken ==
    /\ AtStep("token")
    /\ token' = [token EXCEPT ![pass.at] = pass.wanted[pass.at]]
    /\ Proceeds(IF pass.at \in Sandboxed THEN "identity" ELSE "container")
    /\ UNCHANGED <<chances, role, recorded, group, loaded, account, container, strayed>>

\* ensureTenant: the identity works before its last call is answered; only that answer is noted.
EnsureIdentity ==
    LET t == pass.at IN
    /\ AtStep("identity")
    /\ account' = account \cup {t}
    /\ \/ /\ pass' = [pass EXCEPT !.notes[t] = "identity", !.pc = "container"]
          /\ UNCHANGED <<chances, strayed>>
       \/ /\ Chance("fault") /\ Proceeds("next")
          /\ strayed' = IF pass.notes[t] = "identity" THEN strayed ELSE strayed \cup {t}
    /\ UNCHANGED <<role, recorded, group, token, loaded, container>>

\* ensureContainer: one that is there is started, or one is made; made, it may fail to start.
EnsureContainer ==
    LET t == pass.at IN
    /\ AtStep("container") /\ Proceeds("next")
    /\ \/ container' = [container EXCEPT ![t] = IF pass.seen[t] = "running" THEN @ ELSE "running"]
          /\ UNCHANGED chances
       \/ pass.seen[t] = "none" /\ Chance("fault") /\ container' = [container EXCEPT ![t] = "stopped"]
    /\ UNCHANGED <<role, recorded, group, token, loaded, account, strayed>>

\* lockContainer, by what the pass saw.
LockContainer ==
    /\ AtStep("stop") /\ Proceeds("deny")
    /\ container' = [container EXCEPT ![pass.at] = IF pass.seen[pass.at] = "running" THEN "stopped" ELSE @]
    /\ UNCHANGED <<chances, role, recorded, group, token, loaded, account, strayed>>

LockToken ==
    LET t == pass.at IN
    /\ AtStep("deny")
    /\ token' = [token EXCEPT ![t] = IF @ = "none" THEN "none" ELSE "denied"]
    /\ Proceeds(IF pass.notes[t] = "identity" THEN "deactivate" ELSE IF t \in Seed THEN "next" ELSE "empty")
    /\ UNCHANGED <<chances, role, recorded, group, loaded, account, container, strayed>>

\* lockTenant, of a tenant with an identity on record.
LockIdentity ==
    /\ AtStep("deactivate")
    /\ account' = account \ {pass.at}
    /\ Proceeds(IF pass.at \in Seed THEN "next" ELSE "empty")
    /\ UNCHANGED <<chances, role, recorded, group, token, loaded, container, strayed>>

EmptyGroup ==
    /\ AtStep("empty") /\ Proceeds("next")
    /\ group' = group \ {pass.at}
    /\ UNCHANGED <<chances, role, recorded, token, loaded, account, container, strayed>>

\* The records are written.
PassEnds ==
    /\ pass.pc = "next" /\ pass.todo = {}
    /\ recorded' = pass.notes
    /\ strayed' = {t \in strayed : pass.notes[t] = "none" \/ (t \in account /\ pass.notes[t] = "tenant")}
    /\ pass' = NoPass
    /\ UNCHANGED <<chances, role, group, token, loaded, account, container>>

\* The provisioner crashes or is restarted in the middle of a pass, or cannot write the routes at its end.
ProvisionerRestart ==
    /\ pass.pc # "idle" /\ Chance("restart")
    /\ pass' = NoPass
    /\ strayed' = strayed \cup {t \in Tenants : pass.notes[t] # recorded[t]}
    /\ UNCHANGED <<role, recorded, group, token, loaded, account, container>>

\* External: an admin gives a role, or takes it away.
RoleChanges(t, r) ==
    /\ role[t] # r /\ Chance("role")
    /\ role' = [role EXCEPT ![t] = r]
    /\ UNCHANGED <<recorded, group, token, loaded, account, container, pass, strayed>>

\* External: someone stops a container, or starts it.
ContainerChanges(t) ==
    /\ container[t] # "none" /\ Chance("fault")
    /\ container' = [container EXCEPT ![t] = IF @ = "running" THEN "stopped" ELSE "running"]
    /\ UNCHANGED <<role, recorded, group, token, loaded, account, pass, strayed>>

\* graph-rag reads the token map it watches.
LoadTokenMap ==
    /\ loaded # token /\ loaded' = token
    /\ UNCHANGED <<chances, role, recorded, group, token, account, container, pass, strayed>>

PassStep ==
    \/ PassBegin \/ PassFails \/ TenantFails \/ PassEnds
    \/ \E t \in Tenants : NextTenant(t)
    \/ EnsureObjects \/ EnsureToken \/ EnsureIdentity \/ EnsureContainer
    \/ LockContainer \/ LockToken \/ LockIdentity \/ EmptyGroup

TenantStep ==
    \/ PassStep \/ ProvisionerRestart \/ LoadTokenMap
    \/ \E t \in Tenants : ContainerChanges(t) \/ \E r \in Tiers \cup {"none"} : RoleChanges(t, r)

--------------------------------------------------------------------------
TenantsTypeOK ==
    /\ recorded \in [Tenants -> {"none", "tenant", "identity"}]
    /\ group \subseteq Tenants \ Seed /\ account \subseteq Sandboxed
    /\ token \in [Tenants -> Tiers \cup {"none", "denied"}]
    /\ pass.notes \in [Tenants -> {"none", "tenant", "identity"}] /\ pass.todo \subseteq Tenants

LockedOut(t) ==
    container[t] # "running" /\ loaded[t] \in {"none", "denied"} /\ t \notin account /\ t \notin group
Granted(t) ==
    /\ container[t] = "running" /\ loaded[t] = role[t]
    /\ t \in Sandboxed => t \in account
    /\ t \notin Seed => t \in group

====
