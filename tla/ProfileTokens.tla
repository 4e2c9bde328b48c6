----------------------------- MODULE ProfileTokens ----------------------------
(***************************************************************************)
(* Links from which a user downloads a client profile.                     *)
(*                                                                         *)
(* An administrator mints a link for a client; it expires, may be revoked, *)
(* and may be limited to a number of uses.  GET /p/{token} reads the link, *)
(* checks it, counts the use with a second statement, and only then        *)
(* renders the profile of the client that has the link's common name       *)
(* (internal/db/tokens.go, internal/api/handlers_profile.go).  Downloads   *)
(* run concurrently and interleave between the statements.                 *)
(*                                                                         *)
(* One common name of one instance is modelled.  Deleting its client       *)
(* deletes the links (ON DELETE CASCADE).                                  *)
(***************************************************************************)
EXTENDS Naturals, FiniteSets

CONSTANTS
    Tokens,      \* link values; they are random and never reused
    Downloads,    \* concurrent downloads
    Limits,      \* the max_uses administrators choose; 0 is unlimited
    MaxUses,     \* bound: no more downloads of a link are tried after these
    MaxClients,  \* bound: client rows created under the common name
    NoLink, NoToken

ASSUME TokensAssumption ==
    /\ IsFiniteSet(Downloads)
    /\ Limits \subseteq Nat
    /\ MaxUses \in Nat /\ MaxClients \in Nat
    /\ NoToken \notin Tokens

(* A row of profile_tokens.                                                  *)
Link == [max : Limits, uses : Nat, revoked : BOOLEAN, expired : BOOLEAN]

ASSUME LinkSentinel == NoLink \notin Link

VARIABLES
    client,     \* the id of the client row with the common name; 0: none
    clients,    \* client rows created so far
    material,   \* endpoint, certificates and key needed to render are there
    link,       \* the profile_tokens table
    minted,     \* tokens drawn so far
    request,    \* the downloads in progress
    served      \* history: profiles each link has delivered

tokensVars == <<client, clients, material, link, minted, request, served>>

NoDownload == [pc |-> "idle", token |-> NoToken, live |-> FALSE]

TokensInit ==
    /\ client = 0 /\ clients = 0
    /\ material \in BOOLEAN
    /\ link = [t \in Tokens |-> NoLink]
    /\ minted = {}
    /\ request = [r \in Downloads |-> NoDownload]
    /\ served = [t \in Tokens |-> 0]

------------------------------------------------------------------------------
(* The administrator's calls.                                                *)

CreateClient ==
    /\ client = 0 /\ clients < MaxClients
    /\ clients' = clients + 1
    /\ client' = clients'
    /\ UNCHANGED <<material, link, minted, request, served>>

DeleteClient ==
    /\ client # 0
    /\ client' = 0
    /\ link' = [t \in Tokens |-> NoLink]
    /\ UNCHANGED <<clients, material, minted, request, served>>

(* handleCreateProfileLink mints nothing that could not be rendered.         *)
Mint(t, max) ==
    /\ client # 0 /\ material /\ t \notin minted
    /\ minted' = minted \cup {t}
    /\ link' = [link EXCEPT ![t] =
                  [max |-> max, uses |-> 0, revoked |-> FALSE, expired |-> FALSE]]
    /\ UNCHANGED <<client, clients, material, request, served>>

Revoke(t) ==
    /\ link[t] # NoLink
    /\ link' = [link EXCEPT ![t].revoked = TRUE]
    /\ UNCHANGED <<client, clients, material, minted, request, served>>

(* Time passes expires_at.                                                   *)
Expire(t) ==
    /\ link[t] # NoLink
    /\ link' = [link EXCEPT ![t].expired = TRUE]
    /\ UNCHANGED <<client, clients, material, minted, request, served>>

(* The files or the instance's endpoint come and go.                         *)
ChangeMaterial ==
    /\ material' = ~material
    /\ UNCHANGED <<client, clients, link, minted, request, served>>

------------------------------------------------------------------------------
(* GET /p/{token}                                                            *)

(* Mutants of Valid: the last use is given twice; revocation is not looked   *)
(* at.                                                                       *)
ValidOnceMore(l) ==
    l # NoLink /\ ~l.revoked /\ ~l.expired /\ (l.max > 0 => l.uses <= l.max)
ValidUnlessExpired(l) ==
    l # NoLink /\ ~l.expired /\ (l.max > 0 => l.uses < l.max)

(* The checks of ConsumeProfileToken.                                        *)
Valid(l) == l # NoLink /\ ~l.revoked /\ ~l.expired /\ (l.max > 0 => l.uses < l.max)

(* Nobody guesses a token before it is drawn.                                *)
Arrive(r, t) ==
    /\ request[r].pc = "idle" /\ t \in minted
    /\ link[t] # NoLink => link[t].uses < MaxUses
    /\ request' = [request EXCEPT ![r] = [pc |-> "check", token |-> t,
          live |-> link[t] # NoLink /\ ~link[t].revoked /\ ~link[t].expired]]
    /\ UNCHANGED <<client, clients, material, link, minted, served>>

(* SELECT and the checks; 401 ends the request.                              *)
Check(r) ==
    /\ request[r].pc = "check"
    /\ request' = [request EXCEPT ![r] =
          IF Valid(link[request[r].token]) THEN [@ EXCEPT !.pc = "count"] ELSE NoDownload]
    /\ UNCHANGED <<client, clients, material, link, minted, served>>

(* Mutant of Counted: the count is not made.                                 *)
NotCounted(t) == link

(* UPDATE ... SET use_count = use_count + 1 WHERE id = ?; it may hit no row. *)
Counted(t) == IF link[t] = NoLink THEN link ELSE [link EXCEPT ![t].uses = @ + 1]

Count(r) ==
    /\ request[r].pc = "count"
    /\ link' = Counted(request[r].token)
    /\ request' = [request EXCEPT ![r].pc = "render"]
    /\ UNCHANGED <<client, clients, material, minted, served>>

(* renderClientOVPN looks the client up by its name; the use that a failure  *)
(* has counted is not given back.                                            *)
Render(r) ==
    LET t == request[r].token IN
    /\ request[r].pc = "render"
    /\ served' = IF client # 0 /\ material THEN [served EXCEPT ![t] = @ + 1] ELSE served
    /\ request' = [request EXCEPT ![r] = NoDownload]
    /\ UNCHANGED <<client, clients, material, link, minted>>

(* The user goes away: the statement in progress fails.                      *)
Abort(r) ==
    /\ request[r].pc # "idle"
    /\ request' = [request EXCEPT ![r] = NoDownload]
    /\ UNCHANGED <<client, clients, material, link, minted, served>>

Download(r) ==
    \/ \E t \in Tokens : Arrive(r, t)
    \/ Check(r) \/ Count(r) \/ Render(r) \/ Abort(r)

TokensNext ==
    \/ CreateClient \/ DeleteClient \/ ChangeMaterial
    \/ \E t \in Tokens : Revoke(t) \/ Expire(t) \/ \E max \in Limits : Mint(t, max)
    \/ \E r \in Downloads : Download(r)

TokensSpec == TokensInit /\ [][TokensNext]_tokensVars

------------------------------------------------------------------------------
TokensTypeOK ==
    /\ client \in 0..MaxClients /\ clients \in 0..MaxClients
    /\ material \in BOOLEAN
    /\ link \in [Tokens -> Link \cup {NoLink}]
    /\ minted \subseteq Tokens
    /\ request \in [Downloads -> [pc : {"idle", "check", "count", "render"},
                                 token : Tokens \cup {NoToken}, live : BOOLEAN]]
    /\ served \in [Tokens -> Nat]

(* Every download of a link is in its use_count, however requests            *)
(* interleave, so a link that has served max_uses profiles is spent.         *)
CountsEveryDownload == \A t \in Tokens : link[t] # NoLink => served[t] <= link[t].uses

(* The check and the count are two statements, so concurrent requests may    *)
(* all pass the check; but a limited link is overdrawn by no more than the   *)
(* other requests in progress: with one request at a time the limit is exact.*)
BoundedOveruse ==
    \A t \in Tokens :
        (link[t] # NoLink /\ link[t].max > 0)
            => served[t] <= link[t].max + Cardinality(Downloads) - 1

(* A request that arrives when its link is revoked, expired or gone never    *)
(* gets as far as counting a use or rendering.                               *)
DeadLinksServeNothing ==
    \A r \in Downloads : request[r].pc \in {"count", "render"} => request[r].live

(* Links "can be single-use (`max_uses: 1`)" (README.md:151).                *)
SingleUse ==
    \A t \in Tokens : (link[t] # NoLink /\ link[t].max = 1) => served[t] <= 1
===============================================================================
