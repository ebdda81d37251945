----------------------------- MODULE AgentTokens -----------------------------
(***************************************************************************)
(* The tokens of one agent and the client configuration files on the host *)
(* that hold them: the store operations that issue and revoke tokens, the *)
(* rotation that replaces a token in the detected files before revoking   *)
(* it, and the Hermes importer, which writes a Toolmux entry into the     *)
(* profile's config.yaml, or removes it, by swapping the file.             *)
(*                                                                         *)
(* Files are shared with other programs: between any two steps of Toolmux *)
(* an editor may change them, and Toolmux may stop.  Tokens are numbered  *)
(* in the order they are issued, 0 is none.                                *)
(***************************************************************************)
EXTENDS Naturals

CONSTANTS
  Files,      \* the configuration files Files(agent) names
  Config,     \* the one the importer writes
  Importers,  \* import and deletion requests being served at the same time
  NoFile,     \* a file that does not exist or is not of interest
  MaxTokens,  \* bound: the tokens issued to the agent
  MaxEdits    \* bound: changes other programs make to the files

ASSUME AgentTokensAssumption ==
  /\ Config \in Files
  /\ MaxTokens \in Nat \ {0}
  /\ MaxEdits \in Nat

VARIABLES
  status,   \* agents.status, or that the row does not exist
  issued,   \* how many tokens were ever issued
  live,     \* rows of agent_tokens with revoked_at IS NULL
  file,     \* what each configuration file holds
  rot,      \* the rotation in progress; rotationMu admits one
  imp,      \* what each import or deletion is doing and has read
  severed,  \* history: tokens put out of use by what a person decided
  disowned, \* history: tokens revoked by an import that failed after writing them
  edits,    \* how often other programs changed a file
  touched,  \* history: files changed by others while Toolmux changed their tokens
  edited,   \* history: the file the rotation has compared and not yet written changed
  broken    \* history: the swap of the config was interrupted

disk == <<file, edits, touched, edited, broken>>
db == <<status, issued, live, severed, disowned>>
vars == <<db, disk, rot, imp>>

-----------------------------------------------------------------------------
Tokens == 0 .. MaxTokens

\* A file's Toolmux server entry, its model provider entry and all the rest.
Doc == [mcp : Tokens, model : Tokens, text : 0 .. MaxEdits]

ASSUME NoFileAssumption == NoFile \notin Doc

Holds(d, t) == d # NoFile /\ t # 0 /\ t \in {d.mcp, d.model}

\* Exactly the occurrences of one token are replaced.
Swap(d, old, new) ==
  [d EXCEPT !.mcp   = IF @ = old THEN new ELSE @,
            !.model = IF @ = old THEN new ELSE @]

RotSteps == {"idle", "issue", "verify", "recheck", "write", "revoke"}
ImpSteps == {"idle", "entry", "issue", "read", "away", "in", "remove", "discard", "disown"}
Jobs     == {"none", "import", "delete"}

RotIdle == [step |-> "idle", old |-> 0, new |-> 0,
            refs |-> [f \in Files |-> NoFile], todo |-> {}, at |-> NoFile]
ImpIdle == [step |-> "idle", job |-> "none", token |-> 0, doc |-> NoFile, prev |-> NoFile]

\* A profile imported by an earlier installation may have an entry whose token
\* this one never issued: token 1, which is not live.
Init ==
  /\ status = "absent"
  /\ issued = 1
  /\ live = {}
  /\ \E entry \in {0, 1} :
       file = [f \in Files |-> [mcp |-> IF f = Config THEN entry ELSE 0,
                                model |-> 0, text |-> 0]]
  /\ rot = RotIdle
  /\ imp = [i \in Importers |-> ImpIdle]
  /\ edits = 0 /\ severed = {1} /\ disowned = {} /\ touched = {}
  /\ edited = FALSE /\ broken = FALSE

\* The foreign key of agent_tokens.
AgentExists == status # "absent"

NewToken ==
  /\ issued < MaxTokens
  /\ issued' = issued + 1
  /\ live' = live \cup {issued + 1}

-----------------------------------------------------------------------------
(* The store: what a person decides about the agent                        *)

\* Neither the store nor the control endpoint looks at the agent's status.
IssueAgentToken ==
  /\ AgentExists
  /\ NewToken
  /\ UNCHANGED <<status, severed, disowned, disk, rot, imp>>

RevokeAgentTokenByID(t) ==
  /\ t \in live
  /\ live' = live \ {t}
  /\ severed' = severed \cup {t}
  /\ UNCHANGED <<status, issued, disowned, disk, rot, imp>>

DisableAgent ==
  /\ status = "active"
  /\ status' = "disabled"
  /\ live' = {}
  /\ severed' = severed \cup live
  /\ UNCHANGED <<issued, disowned, disk, rot, imp>>

EnableAgent ==
  /\ status = "disabled"
  /\ status' = "active"
  /\ UNCHANGED <<issued, live, severed, disowned, disk, rot, imp>>

-----------------------------------------------------------------------------
(* Other programs                                                          *)

\* The rotation does not see what happens to the file it is about to write.
Touch(f) == edited' = (edited \/ f = rot.at)

EditedByOthers(f) ==
  /\ file[f] # NoFile
  /\ edits < MaxEdits
  /\ edits' = edits + 1
  /\ Touch(f)

EditText(f) ==
  /\ EditedByOthers(f)
  /\ file' = [file EXCEPT ![f].text = edits + 1]
  /\ UNCHANGED <<db, rot, imp, touched, broken>>

\* The tokens people have seen: not those an import has yet to write.
Shown == live \ {imp[i].token : i \in Importers}

\* Somebody pastes a token into a file.  Pasting the token that is being replaced
\* into a file the rotation has passed undoes its work.
EditToken(f, t) ==
  /\ EditedByOthers(f)
  /\ t \in Shown
  /\ \/ file' = [file EXCEPT ![f].mcp = t]
     \/ file' = [file EXCEPT ![f].model = t]
  /\ file' # file
  /\ touched' = IF rot # RotIdle /\ t = rot.old
                  THEN touched \cup {f} ELSE touched
  /\ UNCHANGED <<db, rot, imp, broken>>

-----------------------------------------------------------------------------
(* Rotation                                                                *)

\* The files that hold token t, with their content.
Inspect(t) == [f \in Files |-> IF Holds(file[f], t) THEN file[f] ELSE NoFile]

Refs == {f \in Files : rot.refs[f] # NoFile}

\* The operator submits the rotation page.  The page lists the files that were
\* found when it was opened, and a submission that finds anything else changes
\* nothing, so the files found now stand for both.  Rotating without the files
\* leaves it to the operator to update whoever uses the old token, and so does a
\* file that is being swapped and is not found.
RotateToken(t, local) ==
  /\ rot = RotIdle
  /\ status = "active"
  /\ t \in live
  /\ rot' = [RotIdle EXCEPT !.step = "issue", !.old = t,
                            !.refs = IF local THEN Inspect(t) ELSE @]
  /\ \/ /\ ~local
        /\ UNCHANGED touched
     \/ /\ local
        /\ \E f \in Files : Holds(file[f], t)
        /\ touched' = touched \cup {f \in Files : file[f] = NoFile}
  /\ UNCHANGED <<db, file, edits, edited, broken, imp>>

RotateIssue ==
  /\ rot.step = "issue"
  /\ AgentExists
  /\ NewToken
  /\ rot' = [rot EXCEPT !.step = IF Refs = {} THEN "revoke" ELSE "verify",
                        !.new = issued + 1, !.todo = Refs]
  /\ UNCHANGED <<status, severed, disowned, disk, imp>>

\* The token could not be issued.
RotateFails ==
  /\ rot.step = "issue"
  /\ rot' = RotIdle
  /\ UNCHANGED <<db, disk, imp>>

Unchanged(f) == file[f] = rot.refs[f]

\* Comparing the files once, before the first is written.
NoRecheck(f) == TRUE

\* A rotation that revokes the old token all the same.
Regardless == rot' = [rot EXCEPT !.step = "revoke", !.at = NoFile]

\* What stops a rotation half-way leaves both tokens active.
Incomplete == rot' = RotIdle

VerifyAll ==
  /\ rot.step = "verify"
  /\ \/ /\ \A f \in Refs : Unchanged(f)
        /\ rot' = [rot EXCEPT !.step = "recheck"]
     \/ /\ \E f \in Refs : ~Unchanged(f)
        /\ Incomplete
  /\ UNCHANGED <<db, disk, imp>>

\* Each file is compared again immediately before it is written.
Rechecked(f) == Unchanged(f)

Recheck(f) ==
  /\ rot.step = "recheck"
  /\ f \in rot.todo
  /\ \/ /\ Rechecked(f)
        /\ rot' = [rot EXCEPT !.step = "write", !.at = f]
     \/ /\ ~Rechecked(f)
        /\ Incomplete
  /\ UNCHANGED <<db, disk, imp>>

Write(f) ==
  /\ rot.step = "write"
  /\ rot.at = f
  /\ file' = [file EXCEPT ![f] = Swap(rot.refs[f], rot.old, rot.new)]
  /\ rot' = [rot EXCEPT !.todo = @ \ {f}, !.at = NoFile,
                        !.step = IF rot.todo = {f} THEN "revoke" ELSE "recheck"]
  /\ edited' = FALSE
  /\ UNCHANGED <<db, edits, touched, broken, imp>>

WriteFails ==
  /\ rot.step = "write"
  /\ Incomplete
  /\ edited' = FALSE
  /\ UNCHANGED <<db, file, edits, touched, broken, imp>>

\* The last step: revoking the old token, unless it was revoked meanwhile.
RotateRevoke ==
  /\ rot.step = "revoke"
  /\ \/ /\ live' = live \ {rot.old}
        /\ severed' = IF Refs = {} THEN severed \cup {rot.old} ELSE severed
     \/ UNCHANGED <<live, severed>>         \* it could not be revoked
  /\ rot' = RotIdle
  /\ UNCHANGED <<status, issued, disowned, disk, imp>>

-----------------------------------------------------------------------------
(* Import and deletion of the agent                                        *)

\* Importer i goes on to step s; what it has read of the file is used no more.
ImpGoto(i, s) == imp' = [imp EXCEPT ![i].step = s, ![i].doc = NoFile, ![i].prev = NoFile]
ImpDone(i) == imp' = [imp EXCEPT ![i] = ImpIdle]

\* EnsureDiscoveredAgent creates the agent with its first token, or finds it.
BeginImport(i) ==
  /\ imp[i] = ImpIdle
  /\ file[Config] # NoFile
  /\ \/ /\ status = "absent"
        /\ status' = "active"
        /\ NewToken
        /\ imp' = [imp EXCEPT ![i] = [ImpIdle EXCEPT !.step = "entry", !.job = "import",
                                                     !.token = issued + 1]]
     \/ /\ status # "absent"
        /\ imp' = [imp EXCEPT ![i] = [ImpIdle EXCEPT !.step = "entry", !.job = "import"]]
        /\ UNCHANGED <<status, issued, live>>
  /\ UNCHANGED <<severed, disowned, disk, rot>>

\* An entry is left alone if its token is active, or if the agent is new.
Configured(i) ==
  /\ file[Config].mcp # 0
  /\ imp[i].token = 0 => file[Config].mcp \in live

CheckEntry(i) ==
  /\ imp[i].step = "entry"
  /\ \/ /\ file[Config] = NoFile
        /\ IF imp[i].token = 0 THEN ImpDone(i) ELSE ImpGoto(i, "read")
     \/ /\ file[Config] # NoFile /\ Configured(i)
        /\ ImpDone(i)
     \/ /\ file[Config] # NoFile /\ ~Configured(i)
        /\ ImpGoto(i, IF imp[i].token = 0 THEN "issue" ELSE "read")
  /\ UNCHANGED <<db, disk, rot>>

ImportIssue(i) ==
  /\ imp[i].step = "issue"
  /\ AgentExists
  /\ NewToken
  /\ imp' = [imp EXCEPT ![i].step = "read", ![i].token = issued + 1]
  /\ UNCHANGED <<status, severed, disowned, disk, rot>>

ImportFails(i) ==
  /\ imp[i].step \in {"entry", "issue"}
  /\ ImpDone(i)
  /\ UNCHANGED <<db, disk, rot>>

\* Deleting the agent removes its entry from the profile first.
BeginDelete(i) ==
  /\ imp[i] = ImpIdle
  /\ status # "absent"
  /\ imp' = [imp EXCEPT ![i] = [ImpIdle EXCEPT !.step = "read", !.job = "delete"]]
  /\ UNCHANGED <<db, disk, rot>>

\* A swap that does not work revokes the token it was to write, and keeps the
\* agent it was to delete.
GiveUp(i) == IF imp[i].job = "import" THEN ImpGoto(i, "discard") ELSE ImpDone(i)

ReadConfig(i) ==
  /\ imp[i].step = "read"
  /\ \/ /\ file[Config] # NoFile
        /\ imp' = [imp EXCEPT ![i].step = "away", ![i].doc = file[Config]]
     \/ /\ imp[i].job = "delete"           \* no servers at all: nothing to swap
        /\ file[Config] # NoFile /\ file[Config].mcp = 0
        /\ ImpGoto(i, "remove")
     \/ GiveUp(i)
  /\ UNCHANGED <<db, disk, rot>>

\* The original is renamed away; a second swap may do so during the first.
SwapAway(i) ==
  /\ imp[i].step = "away"
  /\ \/ /\ file[Config] # NoFile
        /\ imp' = [imp EXCEPT ![i].step = "in", ![i].prev = file[Config]]
        /\ file' = [file EXCEPT ![Config] = NoFile]
        /\ touched' = IF \E j \in Importers : imp[j].step = "in"
                        THEN touched \cup {Config} ELSE touched
        /\ Touch(Config)
     \/ /\ GiveUp(i)
        /\ UNCHANGED <<file, touched, edited>>
  /\ UNCHANGED <<db, edits, broken, rot>>

\* The changed document takes its place.  What others wrote since the importer
\* read it is gone.
SwapIn(i) ==
  /\ imp[i].step = "in"
  /\ file' = [file EXCEPT ![Config] = [imp[i].doc EXCEPT !.mcp = imp[i].token]]
  /\ touched' = IF imp[i].prev # imp[i].doc \/ file[Config] # NoFile
                  THEN touched \cup {Config} ELSE touched
  /\ Touch(Config)
  /\ ImpGoto(i, "remove")
  /\ UNCHANGED <<db, edits, broken, rot>>

\* A swap that leaves the original where it put it.
NotRestored(i) == UNCHANGED <<file, touched, edited, broken>>

\* The original is renamed back, if that works.
Restored(i) ==
  \/ /\ file' = [file EXCEPT ![Config] = imp[i].prev]
     /\ touched' = IF file[Config] # NoFile THEN touched \cup {Config} ELSE touched
     /\ Touch(Config)
     /\ UNCHANGED broken
  \/ /\ broken' = TRUE
     /\ UNCHANGED <<file, touched, edited>>

SwapFails(i) ==
  /\ imp[i].step = "in"
  /\ Restored(i)
  /\ GiveUp(i)
  /\ UNCHANGED <<db, edits, rot>>

\* The original is removed; DeleteAgent follows on a deletion.
SwapDone(i) ==
  /\ imp[i].step = "remove"
  /\ \/ /\ imp[i].job = "import"
        /\ UNCHANGED <<status, live, severed>>
     \/ /\ imp[i].job = "delete"
        /\ status' = "absent"
        /\ live' = {}
        /\ severed' = severed \cup live
     \/ /\ imp[i].job = "delete"         \* the store fails: the agent stays
        /\ UNCHANGED <<status, live, severed>>
  /\ ImpDone(i)
  /\ UNCHANGED <<issued, disowned, disk, rot>>

\* Failing to remove the original counts as a failed swap, although the changed
\* document is in place: an import goes on to revoke the token it has written.
RemoveFails(i) ==
  /\ imp[i].step = "remove"
  /\ IF imp[i].job = "import" THEN ImpGoto(i, "disown") ELSE ImpDone(i)
  /\ UNCHANGED <<db, disk, rot>>

Disown(i) ==
  /\ imp[i].step = "disown"
  /\ \/ /\ live' = live \ {imp[i].token}
        /\ disowned' = disowned \cup ({imp[i].token} \cap live)
     \/ UNCHANGED <<live, disowned>>
  /\ ImpDone(i)
  /\ UNCHANGED <<status, issued, severed, disk, rot>>

\* RevokeAgentToken, whose error is ignored.
Discard(i) ==
  /\ imp[i].step = "discard"
  /\ \/ live' = live \ {imp[i].token}
     \/ UNCHANGED live
  /\ ImpDone(i)
  /\ UNCHANGED <<status, issued, severed, disowned, disk, rot>>

\* The process stops between any two steps.
Restart ==
  /\ rot # RotIdle \/ \E i \in Importers : imp[i] # ImpIdle
  /\ rot' = RotIdle
  /\ imp' = [i \in Importers |-> ImpIdle]
  /\ broken' = (broken \/ \E i \in Importers : imp[i].step = "in")
  /\ edited' = FALSE
  /\ UNCHANGED <<db, file, edits, touched>>

-----------------------------------------------------------------------------
People ==
  \/ IssueAgentToken \/ DisableAgent \/ EnableAgent
  \/ \E t \in Tokens : RevokeAgentTokenByID(t)
  \/ \E f \in Files : EditText(f)
  \/ \E f \in Files, t \in Tokens : EditToken(f, t)

Rotation ==
  \/ \E t \in Tokens, local \in BOOLEAN : RotateToken(t, local)
  \/ RotateIssue \/ RotateFails \/ VerifyAll
  \/ \E f \in Files : Recheck(f) \/ Write(f)
  \/ WriteFails \/ RotateRevoke

Import(i) ==
  \/ BeginImport(i) \/ CheckEntry(i) \/ ImportIssue(i) \/ ImportFails(i) \/ BeginDelete(i)
  \/ ReadConfig(i) \/ SwapAway(i) \/ SwapIn(i) \/ SwapFails(i) \/ SwapDone(i)
  \/ RemoveFails(i) \/ Disown(i) \/ Discard(i)

Next == People \/ Rotation \/ (\E i \in Importers : Import(i)) \/ Restart

Spec == Init /\ [][Next]_vars

-----------------------------------------------------------------------------
(* What the tokens and the files promise                                   *)

Rotating == [step : RotSteps, old : Tokens, new : Tokens,
             refs : [Files -> Doc \cup {NoFile}], todo : SUBSET Files,
             at : Files \cup {NoFile}]
Importing == [step : ImpSteps, job : Jobs, token : Tokens,
              doc : Doc \cup {NoFile}, prev : Doc \cup {NoFile}]

\* Every row and every file has its shape, and tokens belong to an agent that
\* exists.
TypeOK ==
  /\ status \in {"absent", "active", "disabled"}
  /\ issued \in Tokens
  /\ live \subseteq 1 .. issued
  /\ status = "absent" => live = {}
  /\ severed \subseteq Tokens /\ disowned \subseteq Tokens
  /\ file \in [Files -> Doc \cup {NoFile}]
  /\ edits \in 0 .. MaxEdits
  /\ touched \subseteq Files /\ edited \in BOOLEAN
  /\ broken \in BOOLEAN
  /\ rot \in Rotating
  /\ imp \in [Importers -> Importing]

\* A file never holds a token that no longer works: the old token of a rotation
\* stays valid until every detected file is rewritten, and when that fails
\* half-way both remain ("If an update partially fails, both tokens remain
\* valid", docs/administration.md).  There are three exceptions: a person put the
\* token out of use, others changed the file while Toolmux replaced its token, or
\* an import failed at its very last step, removing the replaced file, and
\* revoked the token it had just written (replaceYAML, ImportAll).
FilesHoldWorkingTokens ==
  \A f \in Files, t \in Tokens :
    Holds(file[f], t) => t \in live \cup severed \cup disowned \/ f \in touched

\* A rotation keeps what others wrote to a file up to the moment it compares the
\* file for the last time (Apply).
RotationKeepsEdits ==
  [][\A f \in Files : Write(f) =>
       edited \/ (file[f] # NoFile /\ file'[f].text = file[f].text)]_vars

\* The profile's configuration is missing only while it is being swapped, or if
\* the swap was cut short (replaceYAML).
ConfigIsNotLost ==
  file[Config] = NoFile => broken \/ \E i \in Importers : imp[i].step = "in"

-----------------------------------------------------------------------------
(* What the documentation says and the code does not keep                  *)

\* "DisableAgent stops the agent and revokes every token it holds" and "Its
\* previous tokens stay revoked, so a new token must be issued afterwards"
\* (EnableAgent): a disabled agent holds no token that enabling would bring back.
DisabledHoldsNoToken == status = "disabled" => live = {}

\* The import "writes each profile's own Toolmux URL and token into its
\* mcp_servers map": an import that is content with the entry it finds finds
\* one that works.
ImportedEntryWorks ==
  [][\A i \in Importers :
       CheckEntry(i) /\ file[Config] # NoFile /\ imp'[i] = ImpIdle
         => file[Config].mcp \in live]_vars
=============================================================================
