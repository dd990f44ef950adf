------------------------------ MODULE Accounts ------------------------------
(***************************************************************************)
(* The accounts of a tenant: sign-in and token checks (auth.ts, the socket *)
(* middlewares), the requests of auth.route.ts and super.route.ts that     *)
(* create, edit and deactivate accounts, the transfer of what an account   *)
(* owns (account-lifecycle.service.ts), the tenant's switch with the cache *)
(* of tenant-state.ts, and the users page that sends the edits.            *)
(*                                                                         *)
(* Each user has one browser; a screen has a session without an account.   *)
(* Passwords, names and e-mail addresses are left out, and so is the       *)
(* difference between operators and viewers.                               *)
(***************************************************************************)
EXTENDS Naturals, FiniteSets

CONSTANTS
    Users, Screens,
    Root,            \* the system administrator, who may act in any tenant
    Assets,          \* devices, media and playlists that can be owned
    Nodes,           \* backend processes behind the Redis adapter
    Overlap,         \* whether requests may overlap
    MaxRequests,     \* bound on the requests that are made
    MaxCrashes,      \* bound on the processes that end
    None

AccountsAssumption ==
    /\ Users \cap Screens = {} /\ Root \notin Users /\ None \notin Users \union Nodes
    /\ Overlap \in BOOLEAN /\ MaxRequests \in Nat /\ MaxCrashes \in Nat

Roles == {"owner", "admin", "operator"}

VARIABLES
    user,            \* the account documents
    owner,           \* of each asset
    active,          \* isActive of the tenant
    cache, lookup,   \* tenant-state.ts on each node, and its pending query
    token,           \* the role claimed by the cookie of each browser
    socket,          \* of each browser and each screen
    page,            \* the accounts as the users page has listed them
    call,            \* the request each user has under way
    closing,         \* the node of a PUT /tenants/:tenantId that has yet to disconnect
    requests, crashes

vars == <<user, owner, active, cache, lookup, token, socket, page, call, closing,
          requests, crashes>>

Callers == Users \union {Root}
Active == {u \in Users : user[u].state = "active"}
Owners == {u \in Active : user[u].role = "owner"}
NoCall == [at |-> "idle", target |-> None, role |-> None, on |-> FALSE, to |-> None,
           touched |-> {}, node |-> None]
NoSocket == [at |-> "none", role |-> None, node |-> None]
Quiet == /\ \A u \in Callers : call[u].at = "idle"
         /\ \A p \in Users \union Screens : socket[p].at # "checked"
         /\ \A n \in Nodes : lookup[n] = "none"
         /\ closing = None
MayStart == requests < MaxRequests /\ (Overlap \/ Quiet)

Init ==
    /\ user = [u \in Users |-> [state |-> "none", role |-> None]]
    /\ owner = [a \in Assets |-> None]
    /\ active = TRUE
    /\ cache = [n \in Nodes |-> "none"] /\ lookup = [n \in Nodes |-> "none"]
    /\ token = [u \in Users |-> None]
    /\ socket = [p \in Users \union Screens |-> NoSocket]
    /\ page = [u \in Callers |-> None]
    /\ call = [u \in Callers |-> NoCall]
    /\ closing = None /\ requests = 0 /\ crashes = 0

-----------------------------------------------------------------------------
(* Who is let in                                                           *)

\* isTenantActive: what the database answers is kept for 30 seconds.
LookupStarts(n) ==
    /\ cache[n] = "none" /\ lookup[n] = "none" /\ (Overlap \/ Quiet)
    /\ lookup' = [lookup EXCEPT ![n] = IF active THEN "yes" ELSE "no"]
    /\ UNCHANGED <<user, owner, active, cache, token, socket, page, call, closing,
                   requests, crashes>>

LookupEnds(n) ==
    /\ lookup[n] # "none"
    /\ cache' = [cache EXCEPT ![n] = lookup[n]]
    /\ lookup' = [lookup EXCEPT ![n] = "none"]
    /\ UNCHANGED <<user, owner, active, token, socket, page, call, closing,
                   requests, crashes>>

EntryExpires(n) ==
    /\ cache[n] # "none"
    /\ cache' = [cache EXCEPT ![n] = "none"]
    /\ UNCHANGED <<user, owner, active, lookup, token, socket, page, call, closing,
                   requests, crashes>>

\* POST /auth/login asks the database itself.
Login(u) ==
    /\ u \in Active /\ active /\ token[u] # user[u].role
    /\ token' = [token EXCEPT ![u] = user[u].role]
    /\ UNCHANGED <<user, owner, active, cache, lookup, socket, page, call, closing,
                   requests, crashes>>

\* requireUserAuth: the account as it is now must be the one the claims tell of.
\* Mutant: the claims are not compared with the account.
AdmittedByClaims(u, n) ==
    u # Root => token[u] # None /\ u \in Active /\ cache[n] = "yes"
Admitted(u, n) ==
    u # Root => token[u] # None /\ u \in Active /\ user[u].role = token[u] /\ cache[n] = "yes"

\* requireRoles(["tenant_owner", "tenant_admin"]) lets system administrators in.
IsAdmin(u) == u # Root /\ token[u] = "admin"
MayManage(u) == u # Root => token[u] \in {"owner", "admin"}

\* The middlewares of the two namespaces; the ticket carries the same claims.
SocketChecks(p, n) ==
    /\ socket[p].at = "none" /\ (Overlap \/ Quiet)
    /\ IF p \in Users THEN Admitted(p, n) ELSE cache[n] = "yes"
    /\ socket' = [socket EXCEPT ![p] =
            [at |-> "checked", role |-> IF p \in Users THEN token[p] ELSE None, node |-> n]]
    /\ UNCHANGED <<user, owner, active, cache, lookup, token, page, call, closing,
                   requests, crashes>>

\* "connection": only now is the socket in the rooms it can be found by.
SocketJoins(p) ==
    /\ socket[p].at = "checked"
    /\ socket' = [socket EXCEPT ![p].at = "open"]
    /\ UNCHANGED <<user, owner, active, cache, lookup, token, page, call, closing,
                   requests, crashes>>

SocketCloses(p) ==
    /\ socket[p].at = "open"
    /\ socket' = [socket EXCEPT ![p] = NoSocket]
    /\ UNCHANGED <<user, owner, active, cache, lookup, token, page, call, closing,
                   requests, crashes>>

\* disconnectUserSockets and disconnectTenantSockets reach every node.
Without(ps) == [p \in Users \union Screens |->
                    IF p \in ps /\ socket[p].at = "open" THEN NoSocket ELSE socket[p]]

-----------------------------------------------------------------------------
(* The system administrator (super.route.ts)                               *)

SuperCreates(t, role) ==
    /\ MayStart /\ active /\ user[t].state = "none"
    /\ Active # {} \/ role = "owner"
    /\ user' = [user EXCEPT ![t] = [state |-> "active", role |-> role]]
    /\ requests' = requests + 1
    /\ UNCHANGED <<owner, active, cache, lookup, token, socket, page, call, closing, crashes>>

SwitchesTenant(n) ==
    /\ MayStart /\ closing = None
    /\ active' = ~active
    /\ cache' = [cache EXCEPT ![n] = "none"]
    /\ closing' = IF active THEN n ELSE None
    /\ requests' = requests + 1
    /\ UNCHANGED <<user, owner, lookup, token, socket, page, call, crashes>>

ClosesTenant ==
    /\ closing # None
    /\ socket' = Without(Users \union Screens)
    /\ closing' = None
    /\ UNCHANGED <<user, owner, active, cache, lookup, token, page, call, requests, crashes>>

-----------------------------------------------------------------------------
(* The users page and the requests of auth.route.ts                        *)

\* GET /users of an administrator; the page lists again after each change.
Lists(u, n) ==
    /\ MayStart /\ call[u].at = "idle"
    /\ Admitted(u, n) /\ MayManage(u)
    /\ page' = [page EXCEPT ![u] = user]
    /\ requests' = requests + 1
    /\ UNCHANGED <<user, owner, active, cache, lookup, token, socket, call, closing, crashes>>

\* A request passes requireUserAuth and requireRoles on a node.
Requests(u, n, at, c) ==
    /\ MayStart /\ call[u].at = "idle" /\ Admitted(u, n)
    /\ call' = [call EXCEPT ![u] = [c EXCEPT !.at = at, !.node = n]]
    /\ requests' = requests + 1
    /\ UNCHANGED <<user, owner, active, cache, lookup, token, socket, page, closing, crashes>>

\* POST /users
AsksToCreate(u, n, t, role) ==
    /\ MayManage(u) /\ (IsAdmin(u) => role = "operator")
    /\ Requests(u, n, "creating", [NoCall EXCEPT !.target = t, !.role = role])

\* PUT /users/:userId as the page sends it: what was not touched is what the
\* page has listed.
AsksToEdit(u, n, t, role, on) ==
    /\ MayManage(u) /\ page[u] # None /\ page[u][t].state # "none"
    /\ Requests(u, n, "editing",
            [NoCall EXCEPT !.target = t, !.role = role, !.on = on,
                !.touched = (IF role # page[u][t].role THEN {"role"} ELSE {})
                    \union (IF on # (page[u][t].state = "active") THEN {"on"} ELSE {})])

\* DELETE /users/:userId; transfer_to_user_id, which the page does not send, may
\* name the account that is to receive the assets.
AsksToDeactivate(u, n, t, to) ==
    /\ MayManage(u) /\ t # u
    /\ Requests(u, n, "deactivating", [NoCall EXCEPT !.target = t, !.to = to])

\* POST /playlists, POST /media/upload, POST /pairing/confirm
AsksForAsset(u, n) == u # Root /\ Requests(u, n, "owning", NoCall)

Done(u) == [call EXCEPT ![u] = NoCall]
Refused(u) ==
    /\ call' = Done(u)
    /\ UNCHANGED <<user, owner, active, cache, lookup, token, socket, page, closing,
                   requests, crashes>>
MayTouch(u, t) == IsAdmin(u) => user[t].role = "operator"
OtherOwner(t) == Owners \ {t} # {}

Creates(u) ==
    LET t == call[u].target IN
    /\ call[u].at = "creating"
    /\ \/ /\ active /\ user[t].state = "none"
          /\ user' = [user EXCEPT ![t] = [state |-> "active", role |-> call[u].role]]
          /\ call' = Done(u) /\ page' = [page EXCEPT ![u] = None]
          /\ UNCHANGED <<owner, active, cache, lookup, token, socket, closing,
                         requests, crashes>>
       \/ (~active \/ user[t].state # "none") /\ Refused(u)

EditAllowed(u) ==
    LET t == call[u].target IN
    /\ user[t].state # "none" /\ MayTouch(u, t)
    /\ IsAdmin(u) => call[u].role = "operator"
    /\ call[u].on
    /\ t = u => call[u].role = user[t].role
    /\ (user[t].role = "owner" /\ call[u].role # "owner") => OtherOwner(t)

\* The document is loaded and checked; save() will write what differs from it.
EditReads(u) ==
    LET t == call[u].target IN
    /\ call[u].at = "editing"
    /\ \/ /\ EditAllowed(u)
          /\ call' = [call EXCEPT ![u] =
                [@ EXCEPT !.at = "saving",
                          !.role = IF @ = user[t].role THEN None ELSE @,
                          !.on = user[t].state = "off"]]
          /\ UNCHANGED <<user, owner, active, cache, lookup, token, socket, page, closing,
                         requests, crashes>>
       \/ ~EditAllowed(u) /\ Refused(u)

EditSaves(u) ==
    LET t == call[u].target IN
    /\ call[u].at = "saving"
    /\ user' = [user EXCEPT ![t] =
            [role |-> IF call[u].role = None THEN @.role ELSE call[u].role,
             state |-> IF call[u].on THEN "active" ELSE @.state]]
    /\ call' = [call EXCEPT ![u].at = "disconnecting"]
    /\ UNCHANGED <<owner, active, cache, lookup, token, socket, page, closing, requests,
                   crashes>>

\* disconnectUserSockets, after the account was written; then the page lists again.
Disconnects(u) ==
    /\ call[u].at = "disconnecting"
    /\ socket' = Without({call[u].target})
    /\ call' = Done(u) /\ page' = [page EXCEPT ![u] = None]
    /\ UNCHANGED <<user, owner, active, cache, lookup, token, closing, requests, crashes>>

\* LAST_OWNER_REQUIRED
DeactivationAllowed(u) ==
    LET t == call[u].target IN
    /\ t \in Active /\ MayTouch(u, t)
    /\ user[t].role = "owner" => OtherOwner(t)

\* Who may receive the assets: the account that was asked for, in any role, or
\* else another owner.
Receivers(u) ==
    IF call[u].to # None THEN {call[u].to} \cap Active ELSE Owners \ {call[u].target}

DeactivateReads(u) ==
    /\ call[u].at = "deactivating"
    /\ \/ /\ DeactivationAllowed(u)
          /\ \E to \in Receivers(u) :
               call' = [call EXCEPT ![u] = [@ EXCEPT !.at = "transferring", !.to = to]]
          /\ UNCHANGED <<user, owner, active, cache, lookup, token, socket, page,
                         closing, requests, crashes>>
       \/ (~DeactivationAllowed(u) \/ Receivers(u) = {}) /\ Refused(u)

\* deactivateUserAndTransferAssets looks at both accounts once more.
Transferable(c) == c.target # c.to /\ {c.target, c.to} \subseteq Active
TransferReads(u) ==
    /\ call[u].at = "transferring"
    /\ \/ /\ Transferable(call[u])
          /\ call' = [call EXCEPT ![u].at = "moving"]
          /\ UNCHANGED <<user, owner, active, cache, lookup, token, socket, page, closing,
                         requests, crashes>>
       \/ ~Transferable(call[u]) /\ Refused(u)

TransferMoves(u) ==
    /\ call[u].at = "moving"
    /\ owner' = [a \in Assets |-> IF owner[a] = call[u].target THEN call[u].to ELSE owner[a]]
    /\ call' = [call EXCEPT ![u].at = "closing"]
    /\ UNCHANGED <<user, active, cache, lookup, token, socket, page, closing, requests, crashes>>

TransferEnds(u) ==
    LET t == call[u].target IN
    /\ call[u].at = "closing"
    /\ \/ /\ t \in Active
          /\ user' = [user EXCEPT ![t].state = "off"]
          /\ call' = [call EXCEPT ![u].at = "disconnecting"]
          /\ UNCHANGED <<owner, active, cache, lookup, token, socket, page, closing,
                         requests, crashes>>
       \/ t \notin Active /\ Refused(u)   \* USER_STATE_CHANGED

Owns(u) ==
    /\ call[u].at = "owning"
    /\ \E a \in Assets :
        /\ owner[a] = None
        /\ owner' = [owner EXCEPT ![a] = u]
    /\ call' = Done(u)
    /\ UNCHANGED <<user, active, cache, lookup, token, socket, page, closing, requests, crashes>>

\* Every asset there can be exists: the request is not made.
OwnsNothing(u) == call[u].at = "owning" /\ (\A a \in Assets : owner[a] # None) /\ Refused(u)

\* A process ends with its handlers, its sockets and its cache.
Crash(n) ==
    /\ crashes < MaxCrashes
    /\ crashes' = crashes + 1
    /\ call' = [u \in Callers |-> IF call[u].node = n THEN NoCall ELSE call[u]]
    /\ socket' = [p \in Users \union Screens |->
                    IF socket[p].node = n THEN NoSocket ELSE socket[p]]
    /\ cache' = [cache EXCEPT ![n] = "none"] /\ lookup' = [lookup EXCEPT ![n] = "none"]
    /\ closing' = IF closing = n THEN None ELSE closing
    /\ UNCHANGED <<user, owner, active, token, page, requests>>

-----------------------------------------------------------------------------

HandlerStep(u) ==
    \/ Creates(u) \/ EditReads(u) \/ EditSaves(u) \/ DeactivateReads(u) \/ TransferReads(u)
    \/ TransferMoves(u) \/ TransferEnds(u) \/ Disconnects(u) \/ Owns(u) \/ OwnsNothing(u)

Asks(u, n) ==
    \/ \E t \in Users, role \in Roles : AsksToCreate(u, n, t, role)
    \/ \E t \in Users, role \in Roles, on \in BOOLEAN : AsksToEdit(u, n, t, role, on)
    \/ \E t \in Users, to \in Users \union {None} : AsksToDeactivate(u, n, t, to)
    \/ Lists(u, n) \/ AsksForAsset(u, n)

Next ==
    \/ \E n \in Nodes : LookupStarts(n) \/ LookupEnds(n) \/ EntryExpires(n)
                        \/ SwitchesTenant(n) \/ Crash(n)
    \/ \E t \in Users, role \in Roles : SuperCreates(t, role)
    \/ ClosesTenant
    \/ \E p \in Users \union Screens :
        (\E n \in Nodes : SocketChecks(p, n)) \/ SocketJoins(p) \/ SocketCloses(p)
    \/ \E u \in Users : Login(u)
    \/ \E u \in Callers : HandlerStep(u) \/ \E n \in Nodes : Asks(u, n)

Spec == Init /\ [][Next]_vars

-----------------------------------------------------------------------------
(* Properties                                                              *)

TypeOK ==
    /\ \A u \in Users :
        /\ user[u].state \in {"none", "active", "off"} /\ user[u].role \in Roles \union {None}
        /\ user[u].state = "none" <=> user[u].role = None
        /\ token[u] \in Roles \union {None}
    /\ \A u \in Callers :
        /\ call[u].target \in Users \union {None} /\ call[u].to \in Users \union {None}
    /\ \A a \in Assets : owner[a] \in Users \union {None}
    /\ active \in BOOLEAN /\ closing \in Nodes \union {None}
    /\ \A n \in Nodes : {cache[n], lookup[n]} \subseteq {"none", "yes", "no"}

KeepsAnOwner == Owners # {} => Owners' # {}

\* "At least one active tenant owner is required": a tenant that has an active
\* owner never loses its last one.
OwnerRemains == [][KeepsAnOwner]_vars

\* "The first tenant user must be a tenant owner": no tenant has active
\* accounts and never had an owner.
FirstIsOwner == Active # {} => \E u \in Users : user[u].role = "owner"

\* A deactivated account owns nothing: what it had went to the account that
\* received its assets, also when the process ended half-way.
NoOrphanAssets == \A a \in Assets : owner[a] # None => owner[a] \in Active

\* An open dashboard socket belongs to an account that is active and has the
\* role the socket was admitted with, once the request that changed it has
\* disconnected it.
Disconnecting(u) == \E c \in Callers : call[c].at = "disconnecting" /\ call[c].target = u
ConnectedAreCurrent ==
    \A u \in Users : socket[u].at = "open" /\ ~Disconnecting(u)
                        => u \in Active /\ socket[u].role = user[u].role

\* Deactivating a tenant closes all connections of its users and screens.
ClosedTenantIsCutOff ==
    (~active /\ closing = None) => \A p \in Users \union Screens : socket[p].at # "open"

TouchesOperatorsOnly ==
    \A u, t \in Users :
        (IsAdmin(u) /\ call[u].target = t /\ call'[u] # call[u] /\ user'[t] # user[t])
            => {user[t].role, user'[t].role} \subseteq {"operator", None}

\* "Admins cannot modify owners or other admins": what an administrator's
\* request changes is an operator before and after.
AdminsStayBelow == [][TouchesOperatorsOnly]_vars

\* An edit changes what was edited: the role or the state of an account that
\* the form did not touch is not set back to what the page had listed.
EditsOnlyWhatWasTouched ==
    [][\A u \in Callers : LET t == call[u].target IN
        (call[u].at = "saving" /\ call'[u].at = "disconnecting") =>
            /\ user'[t].role # user[t].role => "role" \in call[u].touched
            /\ user'[t].state # user[t].state => "on" \in call[u].touched]_vars
=============================================================================
