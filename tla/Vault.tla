--------------------------------- MODULE Vault ---------------------------------
(***************************************************************************)
(* Vendor credentials, their grants to agents, and the decryption a run    *)
(* asks for.  CredentialsService reads a credential, then its grant, then  *)
(* writes by id: every access to the tables is a step of its own, and      *)
(* other calls write between them.                                         *)
(*                                                                         *)
(* Payload and key version are stored together, so the version stands for  *)
(* both.  A call is stale once another one has written the credential or   *)
(* a grant of it after this one has found the credential.                  *)
(***************************************************************************)
EXTENDS Naturals, Requests

CONSTANTS Credentials, Vendors,  \* identities of rows
          Grantees,              \* agents that may hold grants
          MaxVersion             \* bound: key versions of one credential

ASSUME VaultAssumption ==
  /\ None \notin Credentials \cup Grantees \cup Vendors
  /\ MaxVersion \in Nat \ {0}

VARIABLES cred,      \* cred[k]: a row of credentials
          grant,     \* grant[k][a]: the row of credential_agent_grants
          vaultCall  \* vaultCall[c]: an API call

vaultVars == <<cred, grant, vaultCall>>

\* version: encryptionVersion, the key version its payload is sealed under.
CredentialRecord ==
  [status: {"absent", "active", "rotated", "revoked"}, version: 0..MaxVersion,
   vendor: Vendors \cup {None}]

GrantStates == {"absent", "live", "revoked"}

VaultOps == {"none", "update", "grant", "revokeGrant", "revoke", "decrypt"}

\* rotate: update has got a new secret; vendor: the new one of update, that of the
\* run of decrypt, None for neither; version: as update has read it;
\* live, granted: seen since decrypt was called (read by the properties only).
VaultCallRecord ==
  [pc: {"idle", "find", "findGrant", "write", "create"}, op: VaultOps,
   cred: Credentials \cup {None}, agent: Grantees \cup {None}, vendor: Vendors \cup {None},
   rotate: BOOLEAN, version: 0..MaxVersion,
   stale: BOOLEAN, live: BOOLEAN, granted: BOOLEAN]

NoVaultCall == [pc |-> "idle", op |-> "none", cred |-> None, agent |-> None, vendor |-> None,
                rotate |-> FALSE, version |-> 0,
                stale |-> FALSE, live |-> FALSE, granted |-> FALSE]

IsLive(k) == cred[k].status \in {"active", "rotated"}

\* Rows and calls have their types; a call in flight is about a credential, and
\* one about a grant names the agent.
VaultTypeOK ==
  /\ cred \in [Credentials -> CredentialRecord]
  /\ grant \in [Credentials -> [Grantees -> GrantStates]]
  /\ vaultCall \in [Calls -> VaultCallRecord]
  /\ \A c \in Calls : vaultCall[c].pc # "idle" =>
       /\ vaultCall[c].cred \in Credentials
       /\ vaultCall[c].op \in {"grant", "revokeGrant", "decrypt"} => vaultCall[c].agent \in Grantees

VaultInit ==
  /\ cred = [k \in Credentials |-> [status |-> "absent", version |-> 0, vendor |-> None]]
  /\ grant = [k \in Credentials |-> [a \in Grantees |-> "absent"]]
  /\ vaultCall = [c \in Calls |-> NoVaultCall]

VaultCallAt(c, pc, op) == vaultCall[c].pc = pc /\ vaultCall[c].op = op

VaultCallGoto(c, pc) == vaultCall' = [vaultCall EXCEPT ![c].pc = pc]

VaultCallRespond(c) == vaultCall' = [vaultCall EXCEPT ![c] = NoVaultCall]

\* The end of a call that has written credential k or grants of it.
VaultWritten(c, k) ==
  vaultCall' = [d \in Calls |->
    IF d = c THEN NoVaultCall
    ELSE IF vaultCall[d].pc = "idle" \/ vaultCall[d].cred # k \/ UNCHANGED <<cred, grant>>
    THEN vaultCall[d]
    ELSE [vaultCall[d] EXCEPT !.stale = TRUE,
            !.live = @ \/ (vaultCall[d].op = "decrypt" /\ cred'[k].status \in {"active", "rotated"}),
            !.granted = @ \/ (vaultCall[d].op = "decrypt" /\ grant'[k][vaultCall[d].agent] = "live")]]
-----------------------------------------------------------------------------
\* create: the row and its payload are written in one transaction.
CreateCredential(c, k, v) ==
  /\ vaultCall[c].pc = "idle" /\ cred[k].status = "absent"
  /\ cred' = [cred EXCEPT ![k] = [status |-> "active", version |-> 1, vendor |-> v]]
  /\ UNCHANGED <<grant, vaultCall>>

RequestCredential(c, op, k, a, v, rotate) ==
  /\ vaultCall[c].pc = "idle" /\ cred[k].status # "absent"
  /\ op # "none"
  /\ IF op \in {"grant", "revokeGrant", "decrypt"} THEN a # None ELSE a = None
  /\ op \notin {"update", "decrypt"} => v = None
  /\ rotate => op = "update"
  /\ vaultCall' = [vaultCall EXCEPT ![c] =
       [NoVaultCall EXCEPT !.pc = "find", !.op = op, !.cred = k, !.agent = a, !.vendor = v,
                           !.rotate = rotate,
                           !.live = op = "decrypt" /\ IsLive(k),
                           !.granted = op = "decrypt" /\ grant[k][a] = "live"]]
  /\ UNCHANGED <<cred, grant>>

\* Bug: update and grant do not ask whether the credential is revoked.
AcceptsRevoked(c) == vaultCall[c].rotate => cred[vaultCall[c].cred].version < MaxVersion

\* What the handler asks of the credential it has found, and the bound.
Accepts(c) ==
  /\ vaultCall[c].rotate => cred[vaultCall[c].cred].version < MaxVersion
  /\ vaultCall[c].op \in {"update", "grant", "decrypt"} => cred[vaultCall[c].cred].status # "revoked"
  /\ vaultCall[c].op = "decrypt" => vaultCall[c].vendor \in {None, cred[vaultCall[c].cred].vendor}

\* findCredentialInOrganization, or the findUnique of decryptForRun.
FindCredential(c) ==
  LET op == vaultCall[c].op
  IN /\ vaultCall[c].pc = "find"
     /\ IF Accepts(c)
        THEN vaultCall' = [vaultCall EXCEPT
               ![c].pc = IF op \in {"update", "revoke"} THEN "write" ELSE "findGrant",
               ![c].version = IF op = "update" THEN cred[vaultCall[c].cred].version ELSE 0,
               ![c].stale = FALSE]
        ELSE VaultCallRespond(c)
     /\ UNCHANGED <<cred, grant>>

\* nextKeyVersion.
NextKeyVersion(version) == version + 1

\* Bug: a new secret is sealed under the key version there is.
UpdateReusesVersion(c) ==
  LET k == vaultCall[c].cred
      row == [cred[k] EXCEPT !.vendor = IF vaultCall[c].vendor = None THEN @ ELSE vaultCall[c].vendor]
  IN /\ VaultCallAt(c, "write", "update")
     /\ cred' = [cred EXCEPT ![k] =
                   IF vaultCall[c].rotate
                   THEN [row EXCEPT !.status = "rotated", !.version = vaultCall[c].version]
                   ELSE row]
     /\ UNCHANGED grant
     /\ VaultWritten(c, k)

UpdateCredential(c) ==
  LET k == vaultCall[c].cred
      row == [cred[k] EXCEPT !.vendor = IF vaultCall[c].vendor = None THEN @ ELSE vaultCall[c].vendor]
  IN /\ VaultCallAt(c, "write", "update")
     /\ cred' = [cred EXCEPT ![k] =
                   IF vaultCall[c].rotate
                   THEN [row EXCEPT !.status = "rotated",
                                    !.version = NextKeyVersion(vaultCall[c].version)]
                   ELSE row]
     /\ UNCHANGED grant
     /\ VaultWritten(c, k)

RevokeCredential(c) ==
  /\ VaultCallAt(c, "write", "revoke")
  /\ cred' = [cred EXCEPT ![vaultCall[c].cred].status = "revoked"]
  /\ UNCHANGED grant
  /\ VaultWritten(c, vaultCall[c].cred)

GrantOf(c) == grant[vaultCall[c].cred][vaultCall[c].agent]

SetGrant(c, state) ==
  /\ grant' = [grant EXCEPT ![vaultCall[c].cred][vaultCall[c].agent] = state]
  /\ UNCHANGED cred
  /\ VaultWritten(c, vaultCall[c].cred)

\* Bug: decryptForRun takes any row of the grants.
FindAnyGrant(c) ==
  /\ vaultCall[c].pc = "findGrant"
  /\ CASE vaultCall[c].op = "grant" ->
            VaultCallGoto(c, IF GrantOf(c) = "absent" THEN "create" ELSE "write")
       [] vaultCall[c].op # "grant" ->
            IF GrantOf(c) # "absent" THEN VaultCallGoto(c, "write") ELSE VaultCallRespond(c)
  /\ UNCHANGED <<cred, grant>>

FindGrant(c) ==
  /\ vaultCall[c].pc = "findGrant"
  /\ CASE vaultCall[c].op = "grant" ->
            VaultCallGoto(c, IF GrantOf(c) = "absent" THEN "create" ELSE "write")
       [] vaultCall[c].op = "revokeGrant" ->
            IF GrantOf(c) # "absent" THEN VaultCallGoto(c, "write") ELSE VaultCallRespond(c)
       [] vaultCall[c].op = "decrypt" ->
            IF GrantOf(c) = "live" THEN VaultCallGoto(c, "write") ELSE VaultCallRespond(c)
  /\ UNCHANGED <<cred, grant>>

UpdateGrant(c) == VaultCallAt(c, "write", "grant") /\ SetGrant(c, "live")

\* The pair is unique: the second create of a pair fails.
CreateGrant(c) ==
  /\ VaultCallAt(c, "create", "grant")
  /\ IF GrantOf(c) = "absent" THEN SetGrant(c, "live")
                              ELSE VaultCallRespond(c) /\ UNCHANGED <<cred, grant>>

RevokeGrant(c) == VaultCallAt(c, "write", "revokeGrant") /\ SetGrant(c, "revoked")

\* The end of decryptForRun: lastUsedAt, the event, and the secret to the worker.
Decrypt(c) == VaultCallAt(c, "write", "decrypt") /\ VaultCallRespond(c) /\ UNCHANGED <<cred, grant>>

VaultNext ==
  \E c \in Calls :
    \/ \E k \in Credentials, v \in Vendors : CreateCredential(c, k, v)
    \/ \E op \in VaultOps, k \in Credentials, a \in Grantees \cup {None}, v \in Vendors \cup {None},
          rotate \in BOOLEAN : RequestCredential(c, op, k, a, v, rotate)
    \/ FindCredential(c) \/ FindGrant(c)
    \/ UpdateCredential(c) \/ RevokeCredential(c) \/ UpdateGrant(c) \/ CreateGrant(c)
    \/ RevokeGrant(c) \/ Decrypt(c)

VaultSpec == VaultInit /\ [][VaultNext]_vaultVars
-----------------------------------------------------------------------------
\* The call that has made the step is over.
VaultCallEnds(c) == vaultCall[c].pc # "idle" /\ vaultCall'[c].pc = "idle"

VaultCallEndsStale == \E c \in Calls : VaultCallEnds(c) /\ vaultCall[c].stale

RevokedIsLeftAlone(k) ==
  cred[k].status = "revoked" /\ ~VaultCallEndsStale =>
    /\ cred'[k].status = "revoked" /\ cred'[k].version = cred[k].version
    /\ \A a \in Grantees : grant'[k][a] = "live" => grant[k][a] = "live"

VersionGrows(k) ==
  \A c \in Calls :
    VaultCallEnds(c) /\ VaultCallAt(c, "write", "update") /\ vaultCall[c].rotate /\ vaultCall[c].cred = k
      => cred'[k].version > cred[k].version \/ vaultCall[c].stale

\* A revoked credential is not used, rotated or granted again: its row stays and its
\* grants can only be revoked (update and grant ask for the status they have read).  A
\* key version names one secret: a new secret has a version above all earlier ones
\* (nextKeyVersion).  Both unless another call has overtaken the one that writes.
CredentialsMoveOn ==
  [][\A k \in Credentials : RevokedIsLeftAlone(k) /\ VersionGrows(k)]_vaultVars

\* A secret is handed out only if, since the worker asked, the credential has been
\* live and the agent of the run has held a grant of it (decryptForRun).
SecretsAreForGrantees ==
  [][\A c \in Calls : VaultCallEnds(c) /\ VaultCallAt(c, "write", "decrypt") =>
       vaultCall[c].live /\ vaultCall[c].granted]_vaultVars
=============================================================================
