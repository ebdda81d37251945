------------------------- MODULE AgentTokensProofs -------------------------
(* Proofs about AgentTokens, for any set of files and of import requests   *)
(* and any number of tokens.                                               *)
EXTENDS AgentTokens, TLAPS

\* The rotation keeps the content of every file it has yet to write, and an
\* importer that of the file it is swapping.
ShapeOK ==
  /\ rot.todo \subseteq Refs
  /\ rot.step = "write" => rot.at \in rot.todo
  /\ \A i \in Importers :
       /\ imp[i].step \in {"away", "in"} => imp[i].doc \in Doc
       /\ imp[i].step = "in" => imp[i].prev \in Doc

Inv == TypeOK /\ ShapeOK

LEMMA IdleOK ==
  /\ RotIdle \in Rotating
  /\ RotIdle.step = "idle" /\ RotIdle.todo = {} /\ RotIdle.refs = [f \in Files |-> NoFile]
  /\ ImpIdle \in Importing /\ ImpIdle.step = "idle"
  BY AgentTokensAssumption
     DEF RotIdle, ImpIdle, Rotating, Importing, RotSteps, ImpSteps, Jobs, Tokens

LEMMA InvInit == Init => Inv
<1> SUFFICES ASSUME Init PROVE Inv
  OBVIOUS
<1>1. 0 \in Tokens /\ 1 \in Tokens /\ 0 \in 0 .. MaxEdits
  BY AgentTokensAssumption DEF Tokens
<1>2. file \in [Files -> Doc \cup {NoFile}]
  BY <1>1 DEF Init, Doc
<1>3. rot \in Rotating /\ imp \in [Importers -> Importing]
  BY IdleOK DEF Init
<1>4. ShapeOK
  BY IdleOK DEF Init, ShapeOK
<1> QED BY <1>1, <1>2, <1>3, <1>4 DEF Init, Inv, TypeOK, Tokens

\* What a rotation step leaves behind is well formed.
LEMMA RotUpdate ==
  ASSUME Inv, NEW r \in Rotating, rot' = r, UNCHANGED imp,
         r.todo \subseteq {f \in Files : r.refs[f] # NoFile},
         r.step = "write" => r.at \in r.todo
  PROVE  rot' \in Rotating /\ imp' \in [Importers -> Importing] /\ ShapeOK'
  BY DEF Inv, TypeOK, ShapeOK, Refs

\* What an import step leaves behind is well formed.
LEMMA ImpUpdate ==
  ASSUME Inv, NEW i \in Importers, NEW r \in Importing, UNCHANGED rot,
         r.step \in {"away", "in"} => r.doc \in Doc,
         r.step = "in" => r.prev \in Doc,
         imp' = [imp EXCEPT ![i] = r]
  PROVE  rot' \in Rotating /\ imp' \in [Importers -> Importing] /\ ShapeOK'
  BY DEF Inv, TypeOK, ShapeOK, Refs

LEMMA ImpGotoOK ==
  ASSUME Inv, NEW i \in Importers, NEW s \in ImpSteps \ {"away", "in"}, UNCHANGED rot,
         ImpGoto(i, s)
  PROVE  rot' \in Rotating /\ imp' \in [Importers -> Importing] /\ ShapeOK'
<1> DEFINE r == [imp[i] EXCEPT !.step = s, !.doc = NoFile, !.prev = NoFile]
<1>1. imp[i] \in Importing
  BY DEF Inv, TypeOK
<1>2. r \in Importing /\ r.step = s
  BY <1>1 DEF Importing
<1>3. imp' = [imp EXCEPT ![i] = r]
  BY DEF ImpGoto
<1> HIDE DEF r
<1> QED BY <1>2, <1>3, ImpUpdate

LEMMA ImpDoneOK ==
  ASSUME Inv, NEW i \in Importers, UNCHANGED rot, ImpDone(i)
  PROVE  rot' \in Rotating /\ imp' \in [Importers -> Importing] /\ ShapeOK'
  BY IdleOK, ImpUpdate DEF ImpDone

LEMMA GiveUpOK ==
  ASSUME Inv, NEW i \in Importers, UNCHANGED rot, GiveUp(i)
  PROVE  rot' \in Rotating /\ imp' \in [Importers -> Importing] /\ ShapeOK'
  BY ImpDoneOK, ImpGotoOK DEF GiveUp, ImpSteps

LEMMA NewTokenOK ==
  ASSUME Inv, NewToken
  PROVE  /\ issued' \in Tokens /\ issued + 1 \in Tokens /\ issued' = issued + 1
         /\ live' \subseteq 1 .. issued'
  BY AgentTokensAssumption DEF Inv, TypeOK, NewToken, Tokens

LEMMA InvNext == Inv /\ [Next]_vars => Inv'
<1> SUFFICES ASSUME Inv, [Next]_vars PROVE Inv'
  OBVIOUS
<1> USE AgentTokensAssumption, IdleOK DEF disk, db
<1>1. CASE IssueAgentToken
  BY <1>1, NewTokenOK DEF IssueAgentToken, AgentExists, Inv, TypeOK, ShapeOK, Refs
<1>2. ASSUME NEW t \in Tokens, RevokeAgentTokenByID(t)
      PROVE  Inv'
  BY <1>2 DEF RevokeAgentTokenByID, Inv, TypeOK, ShapeOK, Refs, Tokens
<1>3. CASE DisableAgent
  BY <1>3 DEF DisableAgent, Inv, TypeOK, ShapeOK, Refs, Tokens
<1>4. CASE EnableAgent
  BY <1>4 DEF EnableAgent, Inv, TypeOK, ShapeOK, Refs
<1>5. ASSUME NEW f \in Files, EditText(f)
      PROVE  Inv'
  <2>1. file' \in [Files -> Doc \cup {NoFile}]
    <3>1. file[f] \in Doc /\ edits + 1 \in 0 .. MaxEdits
      BY <1>5 DEF EditText, EditedByOthers, Inv, TypeOK
    <3>2. [file[f] EXCEPT !.text = edits + 1] \in Doc
      BY <3>1 DEF Doc
    <3> QED BY <1>5, <3>2 DEF EditText, Inv, TypeOK
  <2>2. edits' \in 0 .. MaxEdits /\ edited' \in BOOLEAN
    BY <1>5 DEF EditText, EditedByOthers, Touch, Inv, TypeOK
  <2> QED BY <1>5, <2>1, <2>2 DEF EditText, Inv, TypeOK, ShapeOK, Refs
<1>6. ASSUME NEW f \in Files, NEW t \in Tokens, EditToken(f, t)
      PROVE  Inv'
  <2>1. file' \in [Files -> Doc \cup {NoFile}]
    <3>1. file[f] \in Doc
      BY <1>6 DEF EditToken, EditedByOthers, Inv, TypeOK
    <3>2. [file[f] EXCEPT !.mcp = t] \in Doc /\ [file[f] EXCEPT !.model = t] \in Doc
      BY <3>1 DEF Doc
    <3> QED BY <1>6, <3>2 DEF EditToken, Inv, TypeOK
  <2>2. edits' \in 0 .. MaxEdits /\ edited' \in BOOLEAN
    BY <1>6 DEF EditToken, EditedByOthers, Touch, Inv, TypeOK
  <2> QED BY <1>6, <2>1, <2>2 DEF EditToken, Inv, TypeOK, ShapeOK, Refs
<1>7. ASSUME NEW t \in Tokens, NEW local \in BOOLEAN, RotateToken(t, local)
      PROVE  Inv'
  <2> DEFINE r == [RotIdle EXCEPT !.step = "issue", !.old = t,
                                  !.refs = IF local THEN Inspect(t) ELSE @]
  <2>1. Inspect(t) \in [Files -> Doc \cup {NoFile}]
    BY DEF Inspect, Inv, TypeOK
  <2>2. r \in Rotating /\ r.step = "issue" /\ r.todo = {}
    BY <2>1 DEF RotIdle, Rotating, RotSteps
  <2>3. rot' = r /\ UNCHANGED imp
    BY <1>7 DEF RotateToken
  <2> HIDE DEF r
  <2>4. rot' \in Rotating /\ imp' \in [Importers -> Importing] /\ ShapeOK'
    BY <2>2, <2>3, RotUpdate
  <2> QED BY <1>7, <2>4 DEF RotateToken, Inv, TypeOK
<1>8. CASE RotateIssue
  <2> DEFINE r == [rot EXCEPT !.step = IF Refs = {} THEN "revoke" ELSE "verify",
                              !.new = issued + 1, !.todo = Refs]
  <2>1. NewToken
    BY <1>8 DEF RotateIssue
  <2>2. rot \in Rotating /\ Refs \subseteq Files
    BY DEF Inv, TypeOK, Refs
  <2>3. r \in Rotating /\ r.step # "write" /\ r.todo = Refs /\ r.refs = rot.refs
    BY <2>1, <2>2, NewTokenOK DEF Rotating, RotSteps
  <2>4. rot' = r /\ UNCHANGED imp
    BY <1>8 DEF RotateIssue
  <2> HIDE DEF r
  <2>5. rot' \in Rotating /\ imp' \in [Importers -> Importing] /\ ShapeOK'
    BY <2>3, <2>4, RotUpdate DEF Refs
  <2> QED BY <1>8, <2>1, <2>5, NewTokenOK DEF RotateIssue, AgentExists, Inv, TypeOK
<1>9. CASE RotateFails
  <2>1. rot' \in Rotating /\ imp' \in [Importers -> Importing] /\ ShapeOK'
    BY <1>9, RotUpdate DEF RotateFails
  <2> QED BY <1>9, <2>1 DEF RotateFails, Inv, TypeOK
<1>10. CASE VerifyAll
  <2>1. CASE rot' = [rot EXCEPT !.step = "recheck"]
    BY <1>10, <2>1 DEF VerifyAll, Inv, TypeOK, ShapeOK, Refs, Rotating, RotSteps
  <2>2. CASE Incomplete
    <3>1. rot' \in Rotating /\ imp' \in [Importers -> Importing] /\ ShapeOK'
      BY <1>10, <2>2, RotUpdate DEF VerifyAll, Incomplete
    <3> QED BY <1>10, <3>1 DEF VerifyAll, Inv, TypeOK
  <2> QED BY <1>10, <2>1, <2>2 DEF VerifyAll
<1>11. ASSUME NEW f \in Files, Recheck(f)
       PROVE  Inv'
  <2>1. CASE rot' = [rot EXCEPT !.step = "write", !.at = f]
    BY <1>11, <2>1 DEF Recheck, Inv, TypeOK, ShapeOK, Refs, Rotating, RotSteps
  <2>2. CASE Incomplete
    <3>1. rot' \in Rotating /\ imp' \in [Importers -> Importing] /\ ShapeOK'
      BY <1>11, <2>2, RotUpdate DEF Recheck, Incomplete
    <3> QED BY <1>11, <3>1 DEF Recheck, Inv, TypeOK
  <2> QED BY <1>11, <2>1, <2>2 DEF Recheck
<1>12. ASSUME NEW f \in Files, Write(f)
       PROVE  Inv'
  <2>1. rot.refs[f] \in Doc /\ rot.old \in Tokens /\ rot.new \in Tokens
    BY <1>12 DEF Write, Inv, TypeOK, ShapeOK, Refs, Rotating
  <2>2. Swap(rot.refs[f], rot.old, rot.new) \in Doc
    BY <2>1 DEF Swap, Doc
  <2>3. file' \in [Files -> Doc \cup {NoFile}]
    BY <1>12, <2>2 DEF Write, Inv, TypeOK
  <2>4. rot' \in Rotating /\ ShapeOK'
    BY <1>12 DEF Write, Inv, TypeOK, ShapeOK, Refs, Rotating, RotSteps
  <2> QED BY <1>12, <2>3, <2>4 DEF Write, Inv, TypeOK
<1>13. CASE WriteFails
  <2>1. rot' \in Rotating /\ imp' \in [Importers -> Importing] /\ ShapeOK'
    BY <1>13, RotUpdate DEF WriteFails, Incomplete
  <2> QED BY <1>13, <2>1 DEF WriteFails, Inv, TypeOK
<1>14. CASE RotateRevoke
  <2>1. rot' \in Rotating /\ imp' \in [Importers -> Importing] /\ ShapeOK'
    BY <1>14, RotUpdate DEF RotateRevoke
  <2>2. live' \subseteq live /\ severed' \subseteq Tokens
    BY <1>14 DEF RotateRevoke, Inv, TypeOK, Rotating
  <2> QED BY <1>14, <2>1, <2>2 DEF RotateRevoke, Inv, TypeOK
<1>15. ASSUME NEW i \in Importers, BeginImport(i)
       PROVE  Inv'
  <2>1. CASE /\ NewToken /\ status' = "active"
             /\ imp' = [imp EXCEPT ![i] = [ImpIdle EXCEPT !.step = "entry", !.job = "import",
                                                          !.token = issued + 1]]
    <3> DEFINE r == [ImpIdle EXCEPT !.step = "entry", !.job = "import", !.token = issued + 1]
    <3>1. r \in Importing /\ r.step = "entry"
      BY <2>1, NewTokenOK DEF ImpIdle, Importing, ImpSteps, Jobs
    <3>2. rot' \in Rotating /\ imp' \in [Importers -> Importing] /\ ShapeOK'
      <4> HIDE DEF r
      <4> QED BY <1>15, <2>1, <3>1, ImpUpdate DEF BeginImport, r
    <3> QED BY <1>15, <2>1, <3>2, NewTokenOK DEF BeginImport, Inv, TypeOK
  <2>2. CASE /\ imp' = [imp EXCEPT ![i] = [ImpIdle EXCEPT !.step = "entry", !.job = "import"]]
             /\ UNCHANGED <<status, issued, live>>
    <3> DEFINE r == [ImpIdle EXCEPT !.step = "entry", !.job = "import"]
    <3>1. r \in Importing /\ r.step = "entry"
      BY DEF ImpIdle, Importing, ImpSteps, Jobs
    <3>2. rot' \in Rotating /\ imp' \in [Importers -> Importing] /\ ShapeOK'
      <4> HIDE DEF r
      <4> QED BY <1>15, <2>2, <3>1, ImpUpdate DEF BeginImport, r
    <3> QED BY <1>15, <2>2, <3>2 DEF BeginImport, Inv, TypeOK
  <2> QED BY <1>15, <2>1, <2>2 DEF BeginImport
<1>16. ASSUME NEW i \in Importers, CheckEntry(i)
       PROVE  Inv'
  <2>1. rot' \in Rotating /\ imp' \in [Importers -> Importing] /\ ShapeOK'
    BY <1>16, ImpGotoOK, ImpDoneOK DEF CheckEntry, ImpSteps
  <2> QED BY <1>16, <2>1 DEF CheckEntry, Inv, TypeOK
<1>17. ASSUME NEW i \in Importers, ImportIssue(i)
       PROVE  Inv'
  <2>1. NewToken
    BY <1>17 DEF ImportIssue
  <2>2. rot' \in Rotating /\ imp' \in [Importers -> Importing] /\ ShapeOK'
    <3> DEFINE r == [imp[i] EXCEPT !.step = "read", !.token = issued + 1]
    <3>1. imp[i] \in Importing /\ issued + 1 \in Tokens
      BY <2>1, NewTokenOK DEF Inv, TypeOK
    <3>2. r \in Importing /\ r.step = "read"
      BY <3>1 DEF Importing, ImpSteps
    <3>3. imp' = [imp EXCEPT ![i] = r] /\ UNCHANGED rot
      BY <1>17 DEF ImportIssue
    <3> HIDE DEF r
    <3> QED BY <3>2, <3>3, ImpUpdate
  <2> QED BY <1>17, <2>1, <2>2, NewTokenOK DEF ImportIssue, AgentExists, Inv, TypeOK
<1>18. ASSUME NEW i \in Importers, ImportFails(i)
       PROVE  Inv'
  <2>1. rot' \in Rotating /\ imp' \in [Importers -> Importing] /\ ShapeOK'
    BY <1>18, ImpDoneOK DEF ImportFails
  <2> QED BY <1>18, <2>1 DEF ImportFails, Inv, TypeOK
<1>19. ASSUME NEW i \in Importers, BeginDelete(i)
       PROVE  Inv'
  <2> DEFINE r == [ImpIdle EXCEPT !.step = "read", !.job = "delete"]
  <2>1. r \in Importing /\ r.step = "read"
    BY DEF ImpIdle, Importing, ImpSteps, Jobs
  <2>2. rot' \in Rotating /\ imp' \in [Importers -> Importing] /\ ShapeOK'
    <3> HIDE DEF r
    <3> QED BY <1>19, <2>1, ImpUpdate DEF BeginDelete, r
  <2> QED BY <1>19, <2>2 DEF BeginDelete, Inv, TypeOK
<1>20. ASSUME NEW i \in Importers, ReadConfig(i)
       PROVE  Inv'
  <2>1. rot' \in Rotating /\ imp' \in [Importers -> Importing] /\ ShapeOK'
    <3>1. CASE /\ file[Config] # NoFile
               /\ imp' = [imp EXCEPT ![i].step = "away", ![i].doc = file[Config]]
      <4> DEFINE r == [imp[i] EXCEPT !.step = "away", !.doc = file[Config]]
      <4>1. imp[i] \in Importing /\ file[Config] \in Doc
        BY <3>1 DEF Inv, TypeOK
      <4>2. r \in Importing /\ r.step = "away" /\ r.doc \in Doc
        BY <4>1 DEF Importing, ImpSteps
      <4>3. imp' = [imp EXCEPT ![i] = r] /\ UNCHANGED rot
        BY <1>20, <3>1 DEF ReadConfig
      <4> HIDE DEF r
      <4> QED BY <4>2, <4>3, ImpUpdate
    <3> QED BY <1>20, <3>1, ImpGotoOK, GiveUpOK DEF ReadConfig, ImpSteps
  <2> QED BY <1>20, <2>1 DEF ReadConfig, Inv, TypeOK
<1>21. ASSUME NEW i \in Importers, SwapAway(i)
       PROVE  Inv'
  <2>1. rot' \in Rotating /\ imp' \in [Importers -> Importing] /\ ShapeOK'
    <3>1. CASE /\ file[Config] # NoFile
               /\ imp' = [imp EXCEPT ![i].step = "in", ![i].prev = file[Config]]
      BY <1>21, <3>1 DEF SwapAway, Inv, TypeOK, ShapeOK, Refs, Importing, ImpSteps
    <3> QED BY <1>21, <3>1, GiveUpOK DEF SwapAway
  <2>2. /\ file' \in [Files -> Doc \cup {NoFile}]
        /\ touched' \subseteq Files /\ edited' \in BOOLEAN
    BY <1>21 DEF SwapAway, Touch, Inv, TypeOK
  <2> QED BY <1>21, <2>1, <2>2 DEF SwapAway, Inv, TypeOK
<1>22. ASSUME NEW i \in Importers, SwapIn(i)
       PROVE  Inv'
  <2>1. rot' \in Rotating /\ imp' \in [Importers -> Importing] /\ ShapeOK'
    BY <1>22, ImpGotoOK DEF SwapIn, ImpSteps
  <2>2. [imp[i].doc EXCEPT !.mcp = imp[i].token] \in Doc
    <3>1. imp[i].doc \in Doc /\ imp[i].token \in Tokens
      BY <1>22 DEF SwapIn, Inv, TypeOK, ShapeOK, Importing
    <3> QED BY <3>1 DEF Doc
  <2>3. /\ file' \in [Files -> Doc \cup {NoFile}]
        /\ touched' \subseteq Files /\ edited' \in BOOLEAN
    BY <1>22, <2>2 DEF SwapIn, Touch, Inv, TypeOK
  <2> QED BY <1>22, <2>1, <2>3 DEF SwapIn, Inv, TypeOK
<1>23. ASSUME NEW i \in Importers, SwapFails(i)
       PROVE  Inv'
  <2>1. rot' \in Rotating /\ imp' \in [Importers -> Importing] /\ ShapeOK'
    BY <1>23, GiveUpOK DEF SwapFails
  <2>2. imp[i].prev \in Doc
    BY <1>23 DEF SwapFails, Inv, ShapeOK
  <2>3. /\ file' \in [Files -> Doc \cup {NoFile}] /\ broken' \in BOOLEAN
        /\ touched' \subseteq Files /\ edited' \in BOOLEAN
    BY <1>23, <2>2 DEF SwapFails, Restored, Touch, Inv, TypeOK
  <2> QED BY <1>23, <2>1, <2>3 DEF SwapFails, Inv, TypeOK
<1>24. ASSUME NEW i \in Importers, SwapDone(i)
       PROVE  Inv'
  <2>1. rot' \in Rotating /\ imp' \in [Importers -> Importing] /\ ShapeOK'
    BY <1>24, ImpDoneOK DEF SwapDone
  <2>2. /\ status' \in {"absent", "active", "disabled"}
        /\ status' = "absent" => live' = {}
        /\ live' \subseteq live /\ severed' \subseteq Tokens
    <3>1. live \subseteq Tokens
      BY DEF Inv, TypeOK, Tokens
    <3>2. CASE UNCHANGED <<status, live, severed>>
      BY <3>2 DEF Inv, TypeOK
    <3>3. CASE status' = "absent" /\ live' = {} /\ severed' = severed \cup live
      BY <3>1, <3>3 DEF Inv, TypeOK
    <3> QED BY <1>24, <3>2, <3>3 DEF SwapDone
  <2> QED BY <1>24, <2>1, <2>2 DEF SwapDone, Inv, TypeOK
<1>25. ASSUME NEW i \in Importers, RemoveFails(i)
       PROVE  Inv'
  <2>1. rot' \in Rotating /\ imp' \in [Importers -> Importing] /\ ShapeOK'
    BY <1>25, ImpDoneOK, ImpGotoOK DEF RemoveFails, ImpSteps
  <2> QED BY <1>25, <2>1 DEF RemoveFails, Inv, TypeOK
<1>29. ASSUME NEW i \in Importers, Disown(i)
       PROVE  Inv'
  <2>1. rot' \in Rotating /\ imp' \in [Importers -> Importing] /\ ShapeOK'
    BY <1>29, ImpDoneOK DEF Disown
  <2>2. live' \subseteq live /\ disowned' \subseteq disowned \cup live
    BY <1>29 DEF Disown
  <2>3. disowned' \subseteq Tokens
    <3>1. issued \in Tokens /\ live \subseteq 1 .. issued /\ disowned \subseteq Tokens
      BY DEF Inv, TypeOK
    <3>2. live \subseteq Tokens
      BY <3>1 DEF Tokens
    <3> QED BY <2>2, <3>1, <3>2
  <2>4. UNCHANGED <<status, issued, severed, file, edits, touched, edited, broken>>
    BY <1>29 DEF Disown
  <2> QED BY <2>1, <2>2, <2>3, <2>4 DEF Inv, TypeOK
<1>26. ASSUME NEW i \in Importers, Discard(i)
       PROVE  Inv'
  <2>1. rot' \in Rotating /\ imp' \in [Importers -> Importing] /\ ShapeOK'
    BY <1>26, ImpDoneOK DEF Discard
  <2>2. live' \subseteq live
    BY <1>26 DEF Discard
  <2> QED BY <1>26, <2>1, <2>2 DEF Discard, Inv, TypeOK
<1>27. CASE Restart
  <2>1. ShapeOK'
    BY <1>27 DEF Restart, ShapeOK
  <2> QED BY <1>27, <2>1 DEF Restart, Inv, TypeOK
<1>28. CASE UNCHANGED vars
  BY <1>28 DEF vars, Inv, TypeOK, ShapeOK, Refs
<1> QED
  BY <1>1, <1>2, <1>3, <1>4, <1>5, <1>6, <1>7, <1>8, <1>9, <1>10, <1>11, <1>12, <1>13,
     <1>14, <1>15, <1>16, <1>17, <1>18, <1>19, <1>20, <1>21, <1>22, <1>23, <1>24, <1>25,
     <1>26, <1>27, <1>28, <1>29 DEF Next, People, Rotation, Import

\* Every row and every file has its shape, and tokens belong to an agent that
\* exists.
THEOREM TypeCorrect == Spec => []TypeOK
<1>1. Spec => []Inv
  BY InvInit, InvNext, PTL DEF Spec
<1>2. Inv => TypeOK
  BY DEF Inv
<1> QED BY <1>1, <1>2, PTL

-----------------------------------------------------------------------------
(* The configuration is not lost                                           *)

LEMMA KeptInit == Init => ConfigIsNotLost
  BY AgentTokensAssumption, NoFileAssumption DEF Init, ConfigIsNotLost, Doc, Tokens

\* Only a swap takes the file away, and only a swap that fails leaves it away.
LEMMA KeptNext == Inv /\ ConfigIsNotLost /\ [Next]_vars => ConfigIsNotLost'
<1> SUFFICES ASSUME Inv, ConfigIsNotLost, [Next]_vars PROVE ConfigIsNotLost'
  OBVIOUS
<1> USE AgentTokensAssumption, NoFileAssumption DEF disk, db
<1> DEFINE In(i) == imp[i].step = "in"
<1>1. ASSUME UNCHANGED <<file, broken, imp>>
      PROVE  ConfigIsNotLost'
  BY <1>1 DEF ConfigIsNotLost
<1>2. ASSUME NEW i \in Importers, UNCHANGED <<file, broken>>, ~In(i),
             \A j \in Importers \ {i} : imp'[j] = imp[j]
      PROVE  ConfigIsNotLost'
  BY <1>2 DEF ConfigIsNotLost
<1>3. ASSUME NEW i \in Importers, ImpDone(i) \/ (\E s \in ImpSteps : ImpGoto(i, s)) \/ GiveUp(i)
      PROVE  \A j \in Importers \ {i} : imp'[j] = imp[j]
  BY <1>3 DEF ImpDone, ImpGoto, GiveUp, Inv, TypeOK
<1>4. ASSUME NEW f \in Files, EditText(f)
      PROVE  ConfigIsNotLost'
  <2>1. file'[f] \in Doc
    <3>1. file[f] \in Doc /\ edits + 1 \in 0 .. MaxEdits
      BY <1>4 DEF EditText, EditedByOthers, Inv, TypeOK
    <3>2. [file[f] EXCEPT !.text = edits + 1] \in Doc
      BY <3>1 DEF Doc
    <3> QED BY <1>4, <3>2 DEF EditText, Inv, TypeOK
  <2> QED BY <1>4, <2>1 DEF EditText, EditedByOthers, ConfigIsNotLost, Inv, TypeOK
<1>5. ASSUME NEW f \in Files, NEW t \in Tokens, EditToken(f, t)
      PROVE  ConfigIsNotLost'
  <2>1. file'[f] \in Doc
    <3>1. file[f] \in Doc
      BY <1>5 DEF EditToken, EditedByOthers, Inv, TypeOK
    <3>2. [file[f] EXCEPT !.mcp = t] \in Doc /\ [file[f] EXCEPT !.model = t] \in Doc
      BY <3>1 DEF Doc
    <3> QED BY <1>5, <3>2 DEF EditToken, Inv, TypeOK
  <2> QED BY <1>5, <2>1 DEF EditToken, EditedByOthers, ConfigIsNotLost, Inv, TypeOK
<1>6. ASSUME NEW f \in Files, Write(f)
      PROVE  ConfigIsNotLost'
  <2>1. rot.refs[f] \in Doc /\ rot.old \in Tokens /\ rot.new \in Tokens
    BY <1>6 DEF Write, Inv, TypeOK, ShapeOK, Refs, Rotating
  <2>2. Swap(rot.refs[f], rot.old, rot.new) \in Doc
    BY <2>1 DEF Swap, Doc
  <2> QED BY <1>6, <2>2 DEF Write, ConfigIsNotLost, Inv, TypeOK
<1>7. ASSUME NEW i \in Importers, Import(i)
      PROVE  ConfigIsNotLost'
  <2>1. CASE BeginImport(i)
    BY <1>2, <2>1 DEF BeginImport, ImpIdle, Inv, TypeOK
  <2>2. CASE CheckEntry(i)
    BY <1>2, <1>3, <2>2 DEF CheckEntry, ImpSteps
  <2>3. CASE ImportIssue(i)
    BY <1>2, <2>3 DEF ImportIssue, Inv, TypeOK
  <2>4. CASE ImportFails(i)
    BY <1>2, <1>3, <2>4 DEF ImportFails
  <2>5. CASE BeginDelete(i)
    BY <1>2, <2>5 DEF BeginDelete, ImpIdle, Inv, TypeOK
  <2>6. CASE ReadConfig(i)
    <3>1. \A j \in Importers \ {i} : imp'[j] = imp[j]
      BY <1>3, <2>6 DEF ReadConfig, ImpSteps, Inv, TypeOK
    <3> QED BY <1>2, <2>6, <3>1 DEF ReadConfig
  <2>7. CASE SwapAway(i)
    <3>1. CASE GiveUp(i) /\ UNCHANGED file
      BY <1>2, <1>3, <2>7, <3>1 DEF SwapAway
    <3>2. CASE imp' = [imp EXCEPT ![i].step = "in", ![i].prev = file[Config]]
      BY <3>2 DEF ConfigIsNotLost, Inv, TypeOK, Importing
    <3> QED BY <2>7, <3>1, <3>2 DEF SwapAway
  <2>8. CASE SwapIn(i)
    <3>1. [imp[i].doc EXCEPT !.mcp = imp[i].token] \in Doc
      <4>1. imp[i].doc \in Doc /\ imp[i].token \in Tokens
        BY <2>8 DEF SwapIn, Inv, TypeOK, ShapeOK, Importing
      <4> QED BY <4>1 DEF Doc
    <3> QED BY <2>8, <3>1 DEF SwapIn, ConfigIsNotLost, Inv, TypeOK
  <2>9. CASE SwapFails(i)
    BY <2>9 DEF SwapFails, Restored, ConfigIsNotLost, Inv, TypeOK, ShapeOK
  <2>10. CASE SwapDone(i)
    BY <1>2, <1>3, <2>10 DEF SwapDone
  <2>11. CASE RemoveFails(i)
    BY <1>2, <1>3, <2>11 DEF RemoveFails, ImpSteps
  <2>13. CASE Disown(i)
    BY <1>2, <1>3, <2>13 DEF Disown
  <2>12. CASE Discard(i)
    BY <1>2, <1>3, <2>12 DEF Discard
  <2> QED
    BY <1>7, <2>1, <2>2, <2>3, <2>4, <2>5, <2>6, <2>7, <2>8, <2>9, <2>10, <2>11, <2>12,
       <2>13
       DEF Import
<1>8. CASE Restart
  BY <1>8 DEF Restart, ConfigIsNotLost
<1>9. CASE UNCHANGED vars
  BY <1>1, <1>9 DEF vars
<1>10. CASE IssueAgentToken \/ DisableAgent \/ EnableAgent
  BY <1>1, <1>10 DEF IssueAgentToken, DisableAgent, EnableAgent
<1>11. ASSUME NEW t \in Tokens, RevokeAgentTokenByID(t)
       PROVE  ConfigIsNotLost'
  BY <1>1, <1>11 DEF RevokeAgentTokenByID
<1>12. ASSUME NEW t \in Tokens, NEW local \in BOOLEAN, RotateToken(t, local)
       PROVE  ConfigIsNotLost'
  BY <1>1, <1>12 DEF RotateToken
<1>13. CASE RotateIssue \/ RotateFails \/ VerifyAll \/ WriteFails \/ RotateRevoke
  BY <1>1, <1>13 DEF RotateIssue, RotateFails, VerifyAll, WriteFails, RotateRevoke
<1>14. ASSUME NEW f \in Files, Recheck(f)
       PROVE  ConfigIsNotLost'
  BY <1>1, <1>14 DEF Recheck
<1> QED
  BY <1>4, <1>5, <1>6, <1>7, <1>8, <1>9, <1>10, <1>11, <1>12, <1>13, <1>14
     DEF Next, People, Rotation

\* The profile's configuration is missing only while it is being swapped, or if
\* the swap was cut short.
THEOREM ConfigKept == Spec => []ConfigIsNotLost
<1>1. Spec => []Inv
  BY InvInit, InvNext, PTL DEF Spec
<1> QED BY <1>1, KeptInit, KeptNext, PTL DEF Spec

-----------------------------------------------------------------------------
(* A rotation keeps the edits it can see                                   *)

\* The file about to be written is as it was compared, or edited says so.
Compared == rot.step = "write" /\ ~edited => file[rot.at] = rot.refs[rot.at]

LEMMA ComparedInit == Init => Compared
  BY IdleOK DEF Init, Compared

LEMMA ComparedNext == Inv /\ Compared /\ [Next]_vars => Compared'
<1> SUFFICES ASSUME Inv, Compared, [Next]_vars PROVE Compared'
  OBVIOUS
<1> USE DEF disk, db
<1>1. ASSUME UNCHANGED <<file, edited, rot>>
      PROVE  Compared'
  BY <1>1 DEF Compared
<1>2. ASSUME rot'.step # "write"
      PROVE  Compared'
  BY <1>2 DEF Compared
\* Whoever changes a file leaves all others alone and tells the rotation.
<1>3. ASSUME NEW f \in Files, NEW d \in Doc \cup {NoFile},
             file' = [file EXCEPT ![f] = d], Touch(f), UNCHANGED rot
      PROVE  Compared'
  <2>1. CASE edited'
    BY <2>1 DEF Compared
  <2>2. CASE ~edited'
    <3>1. ~edited /\ f # rot.at
      BY <1>3, <2>2 DEF Touch
    <3> QED BY <1>3, <3>1 DEF Compared, Inv, TypeOK
  <2> QED BY <2>1, <2>2
<1>4. CASE IssueAgentToken \/ DisableAgent \/ EnableAgent
  BY <1>1, <1>4 DEF IssueAgentToken, DisableAgent, EnableAgent
<1>5. ASSUME NEW t \in Tokens, RevokeAgentTokenByID(t)
      PROVE  Compared'
  BY <1>1, <1>5 DEF RevokeAgentTokenByID
<1>6. ASSUME NEW f \in Files, EditText(f)
      PROVE  Compared'
  <2>1. file[f] \in Doc /\ edits + 1 \in 0 .. MaxEdits
    BY <1>6, AgentTokensAssumption DEF EditText, EditedByOthers, Inv, TypeOK
  <2>2. [file[f] EXCEPT !.text = edits + 1] \in Doc
    BY <2>1 DEF Doc
  <2>3. file' = [file EXCEPT ![f] = [file[f] EXCEPT !.text = edits + 1]]
    BY <1>6 DEF EditText
  <2> QED BY <1>3, <1>6, <2>2, <2>3 DEF EditText, EditedByOthers
<1>7. ASSUME NEW f \in Files, NEW t \in Tokens, EditToken(f, t)
      PROVE  Compared'
  <2>1. file[f] \in Doc
    BY <1>7 DEF EditToken, EditedByOthers, Inv, TypeOK
  <2>2. [file[f] EXCEPT !.mcp = t] \in Doc /\ [file[f] EXCEPT !.model = t] \in Doc
    BY <2>1 DEF Doc
  <2>3. \/ file' = [file EXCEPT ![f] = [file[f] EXCEPT !.mcp = t]]
        \/ file' = [file EXCEPT ![f] = [file[f] EXCEPT !.model = t]]
    BY <1>7 DEF EditToken
  <2> QED BY <1>3, <1>7, <2>2, <2>3 DEF EditToken, EditedByOthers
<1>8. ASSUME NEW t \in Tokens, NEW local \in BOOLEAN, RotateToken(t, local)
      PROVE  Compared'
  BY <1>2, <1>8 DEF RotateToken, RotIdle
<1>9. CASE RotateIssue
  BY <1>2, <1>9 DEF RotateIssue, Inv, TypeOK, Rotating
<1>10. CASE RotateFails \/ WriteFails \/ RotateRevoke
  BY <1>2, <1>10, IdleOK DEF RotateFails, WriteFails, RotateRevoke, Incomplete
<1>11. CASE VerifyAll
  BY <1>2, <1>11, IdleOK DEF VerifyAll, Incomplete, Inv, TypeOK, Rotating
<1>12. ASSUME NEW f \in Files, Recheck(f)
       PROVE  Compared'
  <2>1. CASE Incomplete
    BY <1>2, <2>1, IdleOK DEF Incomplete
  <2>2. CASE Rechecked(f) /\ rot' = [rot EXCEPT !.step = "write", !.at = f]
    BY <1>12, <2>2 DEF Recheck, Rechecked, Unchanged, Compared, Inv, TypeOK, Rotating
  <2> QED BY <1>12, <2>1, <2>2 DEF Recheck
<1>13. ASSUME NEW f \in Files, Write(f)
       PROVE  Compared'
  BY <1>2, <1>13 DEF Write, Inv, TypeOK, Rotating
<1>14. ASSUME NEW i \in Importers, Import(i)
       PROVE  Compared'
  <2> USE AgentTokensAssumption
  <2>1. CASE BeginImport(i) \/ CheckEntry(i) \/ ImportIssue(i) \/ ImportFails(i)
    BY <1>1, <2>1 DEF BeginImport, CheckEntry, ImportIssue, ImportFails
  <2>2. CASE BeginDelete(i) \/ ReadConfig(i) \/ SwapDone(i) \/ RemoveFails(i)
            \/ Disown(i) \/ Discard(i)
    BY <1>1, <2>2 DEF BeginDelete, ReadConfig, SwapDone, RemoveFails, Disown, Discard
  <2>3. CASE SwapAway(i)
    <3>1. CASE UNCHANGED <<file, touched, edited>>
      BY <1>1, <2>3, <3>1 DEF SwapAway
    <3> QED BY <1>3, <2>3, <3>1 DEF SwapAway
  <2>4. CASE SwapIn(i)
    <3>1. [imp[i].doc EXCEPT !.mcp = imp[i].token] \in Doc
      <4>1. imp[i].doc \in Doc /\ imp[i].token \in Tokens
        BY <2>4 DEF SwapIn, Inv, TypeOK, ShapeOK, Importing
      <4> QED BY <4>1 DEF Doc
    <3> QED BY <1>3, <2>4, <3>1 DEF SwapIn
  <2>5. CASE SwapFails(i)
    <3>1. imp[i].prev \in Doc
      BY <2>5 DEF SwapFails, Inv, ShapeOK
    <3>2. CASE UNCHANGED <<file, touched, edited>>
      BY <1>1, <2>5, <3>2 DEF SwapFails
    <3> QED BY <1>3, <2>5, <3>1, <3>2 DEF SwapFails, Restored
  <2> QED BY <1>14, <2>1, <2>2, <2>3, <2>4, <2>5 DEF Import
<1>15. CASE Restart
  BY <1>2, <1>15, IdleOK DEF Restart
<1>16. CASE UNCHANGED vars
  BY <1>1, <1>16 DEF vars
<1> QED
  BY <1>4, <1>5, <1>6, <1>7, <1>8, <1>9, <1>10, <1>11, <1>12, <1>13, <1>14, <1>15, <1>16
     DEF Next, People, Rotation

\* What is written is what was compared, with one token in place of another.
LEMMA WriteKeeps ==
  ASSUME Inv, Compared, NEW f \in Files, Write(f)
  PROVE  edited \/ (file[f] # NoFile /\ file'[f].text = file[f].text)
<1>1. rot.refs[f] \in Doc /\ rot.refs[f] # NoFile
  BY NoFileAssumption DEF Write, Inv, TypeOK, ShapeOK, Refs, Rotating
<1>2. Swap(rot.refs[f], rot.old, rot.new).text = rot.refs[f].text
  BY <1>1 DEF Swap, Doc
<1>3. file'[f] = Swap(rot.refs[f], rot.old, rot.new)
  BY DEF Write, Inv, TypeOK
<1>4. edited \/ file[f] = rot.refs[f]
  BY DEF Write, Compared
<1> QED BY <1>1, <1>2, <1>3, <1>4

\* A rotation keeps what others wrote to a file up to the moment it compares the
\* file for the last time.
THEOREM EditsKept == Spec => RotationKeepsEdits
<1>1. Inv /\ Compared /\ [Next]_vars =>
        [\A f \in Files : Write(f) =>
           edited \/ (file[f] # NoFile /\ file'[f].text = file[f].text)]_vars
  BY WriteKeeps
<1>2. Spec => []Inv
  BY InvInit, InvNext, PTL DEF Spec
<1>3. Spec => []Compared
  BY <1>2, ComparedInit, ComparedNext, PTL DEF Spec
<1> QED BY <1>1, <1>2, <1>3, PTL DEF Spec, RotationKeepsEdits

-----------------------------------------------------------------------------
(* No configuration file is left with a token that does not work, but for  *)
(* what people put out of use and what a failed import revokes.            *)

\* The tokens a file may hold without working.
Excused == severed \cup disowned

\* Tokens that work, or are excused.
Alive == live \cup Excused

\* What the rotation has found and not yet replaced.
Pending == IF rot.step = "issue" THEN Refs ELSE rot.todo

RotationOK ==
  /\ rot.step = "idle" => Refs = {}
  /\ rot.step = "revoke" => rot.todo = {}
  /\ \A f \in Refs : Holds(rot.refs[f], rot.old)
  /\ rot.step \notin {"idle", "issue"} => rot.new \in Alive /\ rot.new # rot.old

\* Tokens that something holds.
Used ==
  {t \in Tokens :
     \/ \E f \in Files : Holds(file[f], t) \/ Holds(rot.refs[f], t)
     \/ \E i \in Importers : Holds(imp[i].doc, t) \/ Holds(imp[i].prev, t)}

\* Every token anywhere has been issued, so that a new one is new.
AllIssued ==
  /\ rot.old <= issued /\ rot.new <= issued
  /\ \A i \in Importers : imp[i].token <= issued
  /\ \A t \in Used : t <= issued

\* Everybody who has a token to write has one of their own.
Distinct ==
  \A i \in Importers : imp[i].token # 0 =>
    /\ imp[i].token # rot.new
    /\ \A j \in Importers \ {i} : imp[i].token # imp[j].token

\* A token an import has yet to write works and is nowhere.
Unwritten ==
  \A i \in Importers : imp[i].token # 0 /\ imp[i].step \notin {"remove", "disown"} =>
    \/ imp[i].token \in Excused
    \/ imp[i].token \in live /\ imp[i].token \notin Used

\* The original an importer has renamed away, as long as nothing took its place,
\* stands for the file itself.
Away(i) == imp[i].step = "in" /\ file[Config] = NoFile /\ Config \notin touched

KeptAlive ==
  /\ \A f \in Files \ touched, t \in Tokens : Holds(file[f], t) => t \in Alive
  /\ \A f \in Files \ touched, t \in Tokens : Holds(rot.refs[f], t) => t \in Alive
  /\ \A i \in Importers, t \in Tokens : Away(i) /\ Holds(imp[i].prev, t) => t \in Alive

\* The token being replaced is left only in files yet to be written.
OldReplaced ==
  Refs # {} /\ rot.old \notin Excused =>
    /\ \A f \in Files \ touched : Holds(file[f], rot.old) => f \in Pending
    /\ \A i \in Importers : Away(i) /\ Holds(imp[i].prev, rot.old) => Config \in Pending

TokenInv == RotationOK /\ AllIssued /\ Distinct /\ Unwritten /\ KeptAlive /\ OldReplaced

-----------------------------------------------------------------------------
(* What the changes of a document do to the tokens it holds                *)

LEMMA NothingHeld == \A t : ~Holds(NoFile, t)
  BY DEF Holds

LEMMA HeldTokens ==
  ASSUME NEW d \in Doc \cup {NoFile}, NEW t, Holds(d, t)
  PROVE  t \in Tokens /\ t # 0 /\ d \in Doc
  BY DEF Holds, Doc

LEMMA SwapHolds ==
  ASSUME NEW d \in Doc, NEW old \in Tokens, NEW new \in Tokens, old # new,
         NEW t, Holds(Swap(d, old, new), t)
  PROVE  t # old /\ (t = new \/ Holds(d, t))
<1>1. d # NoFile
  BY NoFileAssumption
<1>2. /\ Swap(d, old, new).mcp = IF d.mcp = old THEN new ELSE d.mcp
      /\ Swap(d, old, new).model = IF d.model = old THEN new ELSE d.model
  BY DEF Swap, Doc
<1> QED BY <1>1, <1>2 DEF Holds

LEMMA McpHolds ==
  ASSUME NEW d \in Doc, NEW x \in Tokens, NEW t, Holds([d EXCEPT !.mcp = x], t)
  PROVE  t = x \/ Holds(d, t)
  BY NoFileAssumption DEF Holds, Doc

LEMMA ModelHolds ==
  ASSUME NEW d \in Doc, NEW x \in Tokens, NEW t, Holds([d EXCEPT !.model = x], t)
  PROVE  t = x \/ Holds(d, t)
  BY NoFileAssumption DEF Holds, Doc

LEMMA TextHolds ==
  ASSUME NEW d \in Doc, NEW x \in 0 .. MaxEdits, NEW t, Holds([d EXCEPT !.text = x], t)
  PROVE  Holds(d, t)
  BY NoFileAssumption DEF Holds, Doc

-----------------------------------------------------------------------------
LEMMA TokenInit == Init => TokenInv
<1> SUFFICES ASSUME Init PROVE TokenInv
  OBVIOUS
<1> USE AgentTokensAssumption
<1>1. /\ rot.step = "idle" /\ rot.old = 0 /\ rot.new = 0
      /\ \A f \in Files : rot.refs[f] = NoFile
      /\ \A i \in Importers : imp[i].step = "idle" /\ imp[i].token = 0
                              /\ imp[i].doc = NoFile /\ imp[i].prev = NoFile
  BY DEF Init, RotIdle, ImpIdle
<1>2. \A f \in Files, t \in Tokens : Holds(file[f], t) => t = 1
  BY DEF Init, Holds
<1>3. Refs = {} /\ issued = 1 /\ Excused = {1}
  BY <1>1 DEF Excused, Refs, Init
<1> QED
  BY <1>1, <1>2, <1>3, NothingHeld
     DEF TokenInv, RotationOK, AllIssued, Distinct, Unwritten, KeptAlive, OldReplaced,
         Used, Away, Alive, Tokens

\* The store grants and revokes, and one importer i goes on; no file changes.
LEMMA ImpStep ==
  ASSUME Inv, TokenInv, NEW i \in Importers, NEW r \in Importing,
         UNCHANGED <<file, rot, touched>>,
         issued' \in Tokens, issued <= issued',
         Excused \subseteq Excused', live \subseteq live' \cup Excused',
         imp' = [imp EXCEPT ![i] = r],
         r.doc \in {NoFile, imp[i].doc, file[Config]},
         r.prev \in {NoFile, imp[i].prev},
         r.step # "in",
         \/ r.token = 0
         \/ r.token = imp[i].token /\ (imp[i].step \notin {"remove", "disown"} \/ r.step = "disown")
         \/ r.token = imp[i].token /\ r.token \in Excused'
         \/ r.token = issued + 1 /\ r.token <= issued' /\ r.token \in live'
  PROVE  TokenInv'
<1> USE AgentTokensAssumption
<1>1. \A j \in Importers : imp'[j] = IF j = i THEN r ELSE imp[j]
  BY DEF Inv, TypeOK
<1>2. Alive \subseteq Alive' /\ Refs' = Refs /\ Pending' = Pending
  BY DEF Alive, Refs, Pending
<1>3. /\ issued \in Nat /\ issued' \in Nat /\ Tokens \subseteq Nat /\ r.token \in Tokens
      /\ \A j \in Importers : imp[j].token \in Nat
      /\ rot.old \in Nat /\ rot.new \in Nat
  BY DEF Inv, TypeOK, Tokens, Importing, Rotating
<1>4. Used' \subseteq Used
  BY <1>1, NothingHeld DEF Used
<1>5. RotationOK'
  BY <1>2 DEF TokenInv, RotationOK
<1>6. AllIssued'
  <2>1. rot.old <= issued' /\ rot.new <= issued'
    BY <1>3 DEF TokenInv, AllIssued
  <2>2. \A j \in Importers : imp[j].token <= issued'
    BY <1>3 DEF TokenInv, AllIssued
  <2>3. r.token <= issued'
    BY <1>3, <2>2
  <2>4. \A t \in Used' : t <= issued'
    <3>1. \A t \in Used : t \in Nat
      BY <1>3 DEF Used
    <3>2. \A t \in Used : t <= issued
      BY DEF TokenInv, AllIssued
    <3>3. \A t \in Used : t <= issued'
      BY <1>3, <3>1, <3>2
    <3> QED BY <1>4, <3>3
  <2> QED BY <1>1, <2>1, <2>2, <2>3, <2>4 DEF AllIssued
<1>7. Distinct'
  BY <1>1, <1>3 DEF TokenInv, AllIssued, Distinct
<1>8. Unwritten'
  <2> SUFFICES ASSUME NEW j \in Importers, imp'[j].token # 0, imp'[j].step \notin {"remove", "disown"}
               PROVE  imp'[j].token \in Excused' \/ (imp'[j].token \in live' /\ imp'[j].token \notin Used')
    BY DEF Unwritten
  <2>1. CASE j # i \/ (r.token = imp[i].token /\ (imp[i].step \notin {"remove", "disown"} \/ r.step = "disown"))
    BY <1>1, <1>4, <2>1 DEF TokenInv, Unwritten
  <2>2. CASE j = i /\ r.token \in Excused'
    BY <1>1, <2>2
  <2>3. CASE j = i /\ r.token = issued + 1 /\ r.token \in live'
    <3>1. r.token \notin Used
      BY <1>3, <2>3 DEF TokenInv, AllIssued, Used
    <3> QED BY <1>1, <1>4, <2>3, <3>1
  <2> QED BY <1>1, <2>1, <2>2, <2>3
<1>9. \A j \in Importers : Away(j)' => Away(j) /\ imp'[j] = imp[j]
  BY <1>1 DEF Away
<1>10. KeptAlive'
  BY <1>2, <1>9 DEF TokenInv, KeptAlive
<1>11. OldReplaced'
  BY <1>2, <1>9 DEF TokenInv, OldReplaced
<1> QED BY <1>5, <1>6, <1>7, <1>8, <1>10, <1>11 DEF TokenInv

\* The store grants and revokes; nobody else does anything.
LEMMA StoreStep ==
  ASSUME Inv, TokenInv, UNCHANGED <<file, rot, imp, touched>>,
         issued' \in Tokens, issued <= issued',
         Excused \subseteq Excused', live \subseteq live' \cup Excused'
  PROVE  TokenInv'
<1>1. Alive \subseteq Alive' /\ Refs' = Refs /\ Pending' = Pending /\ Used' = Used
  BY DEF Alive, Refs, Pending, Used
<1>2. /\ issued \in Nat /\ issued' \in Nat /\ Tokens \subseteq Nat
      /\ \A j \in Importers : imp[j].token \in Nat
      /\ rot.old \in Nat /\ rot.new \in Nat
  BY DEF Inv, TypeOK, Tokens, Importing, Rotating
<1>3. RotationOK'
  BY <1>1 DEF TokenInv, RotationOK
<1>4. AllIssued'
  <2>1. \A t \in Used : t \in Nat
    BY <1>2 DEF Used
  <2> QED BY <1>1, <1>2, <2>1 DEF TokenInv, AllIssued
<1>5. Distinct' /\ Unwritten'
  BY <1>1 DEF TokenInv, Distinct, Unwritten
<1>6. KeptAlive' /\ OldReplaced'
  BY <1>1 DEF TokenInv, KeptAlive, OldReplaced, Away
<1> QED BY <1>3, <1>4, <1>5, <1>6 DEF TokenInv

\* A file takes a token from nowhere but itself and the store.
LEMMA EditStep ==
  ASSUME Inv, TokenInv, NEW f \in Files, NEW d \in Doc, NEW t \in Tokens,
         file[f] # NoFile, file' = [file EXCEPT ![f] = d],
         UNCHANGED <<rot, imp, issued, live, Excused>>,
         t = 0 \/ t \in live, \A i \in Importers : t # 0 => t # imp[i].token,
         \A u : Holds(d, u) => u = t \/ Holds(file[f], u),
         touched \subseteq touched',
         t # 0 /\ t = rot.old /\ Refs # {} => f \in touched'
  PROVE  TokenInv'
<1>1. Alive' = Alive /\ Refs' = Refs /\ Pending' = Pending
  BY DEF Alive, Refs, Pending
<1>2. \A g \in Files : file'[g] = IF g = f THEN d ELSE file[g]
  BY DEF Inv, TypeOK
<1>3. \A u : Holds(d, u) => u # 0
  BY DEF Holds
<1>4. Used' \subseteq Used \cup {t} /\ (t = 0 => Used' \subseteq Used)
  BY <1>2, <1>3 DEF Used
<1>5. /\ issued \in Nat /\ \A u \in live : u <= issued
      /\ \A u \in Used : u # 0
  BY DEF Inv, TypeOK, Tokens, Used, Holds
<1>6. RotationOK'
  BY <1>1 DEF TokenInv, RotationOK
<1>7. AllIssued'
  BY <1>4, <1>5 DEF TokenInv, AllIssued
<1>8. Distinct' /\ Unwritten'
  BY <1>4 DEF TokenInv, Distinct, Unwritten
<1>9. \A j \in Importers : Away(j)' => Away(j)
  BY <1>2, NoFileAssumption DEF Away
<1>10. KeptAlive'
  BY <1>1, <1>2, <1>3, <1>9 DEF TokenInv, KeptAlive, Alive
<1>11. OldReplaced'
  BY <1>1, <1>2, <1>3, <1>9 DEF TokenInv, OldReplaced
<1> QED BY <1>6, <1>7, <1>8, <1>10, <1>11 DEF TokenInv

\* The rotation ends, and what it leaves works or was revoked by a person.
LEMMA RotStops ==
  ASSUME Inv, TokenInv, rot' = RotIdle, UNCHANGED <<file, imp, touched, issued>>,
         Excused \subseteq Excused', live \subseteq live' \cup Excused'
  PROVE  TokenInv'
<1> USE AgentTokensAssumption
<1>1. rot'.step = "idle" /\ rot'.old = 0 /\ rot'.new = 0 /\ \A f \in Files : rot'.refs[f] = NoFile
  BY DEF RotIdle
<1>2. Refs' = {} /\ Alive \subseteq Alive' /\ Used' \subseteq Used
  BY <1>1, NothingHeld DEF Refs, Alive, Used
<1>3. issued \in Nat /\ 0 <= issued
  BY DEF Inv, TypeOK, Tokens
<1>4. RotationOK'
  BY <1>1, <1>2 DEF RotationOK, RotIdle
<1>5. AllIssued'
  BY <1>1, <1>2, <1>3 DEF TokenInv, AllIssued
<1>6. Distinct' /\ Unwritten'
  BY <1>1, <1>2 DEF TokenInv, Distinct, Unwritten
<1>7. KeptAlive' /\ OldReplaced'
  BY <1>1, <1>2, NothingHeld DEF TokenInv, KeptAlive, OldReplaced, Away
<1> QED BY <1>4, <1>5, <1>6, <1>7 DEF TokenInv

\* The rotation moves on without changing a file.
LEMMA RotMoves ==
  ASSUME Inv, TokenInv, rot.step \in {"verify", "recheck"}, rot'.step \in {"recheck", "write"},
         rot'.old = rot.old, rot'.new = rot.new, rot'.refs = rot.refs, rot'.todo = rot.todo,
         UNCHANGED <<file, imp, touched, issued, live, Excused>>
  PROVE  TokenInv'
<1>1. /\ rot'.step # "revoke" /\ rot'.step \notin {"idle", "issue"}
      /\ rot'.old = rot.old /\ rot'.new = rot.new
      /\ rot'.refs = rot.refs /\ rot'.todo = rot.todo
  OBVIOUS
<1>2. Refs' = Refs /\ Alive' = Alive /\ Used' = Used /\ Pending' = Pending
  BY <1>1 DEF Refs, Alive, Used, Pending
<1>3. RotationOK' /\ AllIssued'
  BY <1>1, <1>2 DEF TokenInv, RotationOK, AllIssued
<1>4. Distinct' /\ Unwritten'
  BY <1>1, <1>2 DEF TokenInv, Distinct, Unwritten
<1>5. KeptAlive' /\ OldReplaced'
  BY <1>1, <1>2 DEF TokenInv, KeptAlive, OldReplaced, Away
<1> QED BY <1>3, <1>4, <1>5 DEF TokenInv

LEMMA TokenRotateToken ==
  ASSUME Inv, TokenInv, NEW t \in Tokens, NEW local \in BOOLEAN, RotateToken(t, local)
  PROVE  TokenInv'
<1> USE AgentTokensAssumption
<1>1. /\ rot'.step = "issue" /\ rot'.old = t /\ rot'.new = 0 /\ rot'.todo = {}
      /\ rot'.refs = IF local THEN Inspect(t) ELSE [f \in Files |-> NoFile]
  BY DEF RotateToken, RotIdle
<1>2. UNCHANGED <<file, imp, issued, live, Excused>> /\ t \in live /\ touched \subseteq touched'
  BY DEF Excused, RotateToken, db
<1>3. Alive' = Alive /\ Pending' = Refs'
  BY <1>1, <1>2 DEF Alive, Pending
<1>4. \A f \in Files : (rot'.refs[f] = file[f] /\ Holds(file[f], t)) \/ rot'.refs[f] = NoFile
  BY <1>1 DEF Inspect
<1>5. Used' \subseteq Used
  BY <1>2, <1>4, NothingHeld DEF Used
<1>6. issued \in Nat /\ 0 <= issued /\ t <= issued
  BY <1>2 DEF Inv, TypeOK, Tokens
<1>7. RotationOK'
  BY <1>1, <1>4 DEF RotationOK, Refs
<1>8. AllIssued'
  BY <1>1, <1>2, <1>5, <1>6 DEF TokenInv, AllIssued
<1>9. Distinct' /\ Unwritten'
  BY <1>1, <1>2, <1>5 DEF TokenInv, Distinct, Unwritten
<1>10. KeptAlive'
  BY <1>2, <1>3, <1>4, NothingHeld DEF TokenInv, KeptAlive, Away
<1>11. OldReplaced'
  <2>1. CASE ~local
    BY <1>1, <2>1 DEF OldReplaced, Refs
  <2>2. CASE local
    <3>1. touched' = touched \cup {f \in Files : file[f] = NoFile}
      BY <2>2 DEF RotateToken
    <3>2. \A f \in Files : Holds(file[f], t) => f \in Refs'
      BY <1>1, <2>2 DEF Inspect, Refs, Holds
    <3>3. \A i \in Importers : ~Away(i)'
      BY <1>2, <3>1 DEF Away
    <3> QED BY <1>1, <1>2, <1>3, <3>2, <3>3 DEF OldReplaced
  <2> QED BY <2>1, <2>2
<1> QED BY <1>7, <1>8, <1>9, <1>10, <1>11 DEF TokenInv

LEMMA TokenRotateIssue ==
  ASSUME Inv, TokenInv, RotateIssue
  PROVE  TokenInv'
<1> USE AgentTokensAssumption
<1>1. /\ rot'.step = IF Refs = {} THEN "revoke" ELSE "verify"
      /\ rot'.old = rot.old /\ rot'.new = issued + 1 /\ rot'.todo = Refs /\ rot'.refs = rot.refs
  BY DEF RotateIssue, Inv, TypeOK, Rotating
<1>2. /\ UNCHANGED <<file, imp, touched, Excused>>
      /\ issued' = issued + 1 /\ live' = live \cup {issued + 1}
  BY DEF Excused, RotateIssue, NewToken, disk
<1>3. Refs' = Refs /\ Alive' = Alive \cup {issued + 1} /\ Used' = Used /\ Pending' = Pending
  BY <1>1, <1>2 DEF Refs, Alive, Used, Pending, RotateIssue
<1>4. /\ issued \in Nat /\ rot.old \in Nat /\ rot.new \in Nat
      /\ \A u \in Used : u \in Nat /\ \A i \in Importers : imp[i].token \in Nat
  BY DEF Inv, TypeOK, Tokens, Used, Importing, Rotating
<1>5. RotationOK'
  BY <1>1, <1>3, <1>4 DEF TokenInv, RotationOK, AllIssued
<1>6. AllIssued'
  <2>1. \A u \in Used' : u <= issued'
    BY <1>2, <1>3, <1>4 DEF TokenInv, AllIssued
  <2>2. \A i \in Importers : imp'[i].token <= issued'
    <3> TAKE i \in Importers
    <3>1. imp[i].token <= issued /\ imp[i].token \in Nat
      BY DEF TokenInv, AllIssued, Inv, TypeOK, Tokens, Importing
    <3> QED BY <1>2, <1>4, <3>1
  <2>3. rot'.old <= issued' /\ rot'.new <= issued'
    BY <1>1, <1>2, <1>4 DEF TokenInv, AllIssued
  <2> QED BY <2>1, <2>2, <2>3 DEF AllIssued
<1>7. Distinct'
  <2>1. \A i \in Importers : imp[i].token # issued + 1
    <3> TAKE i \in Importers
    <3>1. imp[i].token <= issued /\ imp[i].token \in Nat
      BY DEF TokenInv, AllIssued, Inv, TypeOK, Tokens, Importing
    <3> QED BY <1>4, <3>1
  <2> QED BY <1>1, <1>2, <2>1 DEF TokenInv, Distinct
<1>8. Unwritten'
  BY <1>2, <1>3 DEF TokenInv, Unwritten
<1>9. KeptAlive' /\ OldReplaced'
  BY <1>1, <1>2, <1>3 DEF TokenInv, KeptAlive, OldReplaced, Away
<1> QED BY <1>5, <1>6, <1>7, <1>8, <1>9 DEF TokenInv

\* A file that is written gets the new token for the old one, and what else it
\* holds was there when the rotation found it.
LEMMA TokenWrite ==
  ASSUME Inv, TokenInv, NEW f \in Files, Write(f)
  PROVE  TokenInv'
<1> USE AgentTokensAssumption
<1> DEFINE d == Swap(rot.refs[f], rot.old, rot.new)
<1>1. /\ rot'.old = rot.old /\ rot'.new = rot.new /\ rot'.todo = rot.todo \ {f}
      /\ rot'.refs = rot.refs
      /\ rot'.step = IF rot.todo = {f} THEN "revoke" ELSE "recheck"
  BY DEF Write, Inv, TypeOK, Rotating
<1>2. UNCHANGED <<imp, issued, live, Excused, touched>>
  BY DEF Excused, Write, db
<1>3. rot.refs[f] \in Doc /\ rot.old \in Tokens /\ rot.new \in Tokens
  BY DEF Write, Inv, TypeOK, ShapeOK, Refs, Rotating
<1>4. rot.new \in Alive /\ rot.new # rot.old
  BY DEF Write, TokenInv, RotationOK
<1>5. d \in Doc
  BY <1>3 DEF Swap, Doc
<1>6. \A u : Holds(d, u) => u # rot.old /\ (u = rot.new \/ Holds(rot.refs[f], u))
  BY <1>3, <1>4, SwapHolds
<1>7. \A g \in Files : file'[g] = IF g = f THEN d ELSE file[g]
  BY DEF Write, Inv, TypeOK
<1> HIDE DEF d
<1>8. Refs' = Refs /\ Alive' = Alive /\ Pending' = Pending \ {f}
  BY <1>1, <1>2 DEF Refs, Alive, Pending, Write
<1>9. Used' \subseteq Used \cup {rot.new}
  BY <1>1, <1>2, <1>6, <1>7 DEF Used
<1>10. RotationOK'
  BY <1>1, <1>4, <1>8 DEF TokenInv, RotationOK
<1>11. AllIssued'
  BY <1>1, <1>2, <1>9 DEF TokenInv, AllIssued
<1>12. Distinct' /\ Unwritten'
  BY <1>1, <1>2, <1>9 DEF TokenInv, Distinct, Unwritten
<1>13. \A j \in Importers : Away(j)' => Away(j) /\ f # Config
  BY <1>2, <1>5, <1>7, NoFileAssumption DEF Away
<1>14. KeptAlive'
  BY <1>1, <1>2, <1>4, <1>6, <1>7, <1>8, <1>13 DEF TokenInv, KeptAlive
<1>15. OldReplaced'
  BY <1>1, <1>2, <1>6, <1>7, <1>8, <1>13 DEF TokenInv, OldReplaced
<1> QED BY <1>10, <1>11, <1>12, <1>14, <1>15 DEF TokenInv

\* The token a rotation has found in a file is not one an import has yet to write.
LEMMA OldUsed ==
  ASSUME Inv, TokenInv, Refs # {}
  PROVE  rot.old \in Used
<1>1. PICK f \in Files : f \in Refs
  BY DEF Refs
<1>2. Holds(rot.refs[f], rot.old) /\ rot.old \in Tokens
  BY <1>1 DEF TokenInv, RotationOK, Inv, TypeOK, Rotating
<1> QED BY <1>2 DEF Used

\* The token is revoked when no file is pending any more.
LEMMA TokenRotateRevoke ==
  ASSUME Inv, TokenInv, RotateRevoke
  PROVE  TokenInv'
<1> USE AgentTokensAssumption
<1>1. rot' = RotIdle /\ UNCHANGED <<file, imp, touched, issued>>
  BY DEF RotateRevoke, disk
<1>2. CASE Excused \subseteq Excused' /\ live \subseteq live' \cup Excused'
  BY <1>1, <1>2, RotStops
<1>3. CASE /\ Refs # {} /\ rot.old \notin Excused
           /\ live' = live \ {rot.old} /\ Excused' = Excused
  <2>1. rot'.step = "idle" /\ rot'.old = 0 /\ rot'.new = 0 /\ \A f \in Files : rot'.refs[f] = NoFile
    BY <1>1 DEF RotIdle
  <2>2. Refs' = {} /\ Alive' = Alive \ {rot.old} /\ Used' \subseteq Used
    BY <1>1, <1>3, <2>1, NothingHeld DEF Refs, Alive, Used
  <2>3. issued \in Nat /\ 0 <= issued
    BY DEF Inv, TypeOK, Tokens
  <2>4. Pending = {}
    BY DEF RotateRevoke, TokenInv, RotationOK, Pending
  <2>5. RotationOK'
    BY <1>1, <2>1, <2>2 DEF RotationOK, RotIdle
  <2>6. AllIssued'
    BY <1>1, <2>1, <2>2, <2>3 DEF TokenInv, AllIssued
  <2>7. Distinct'
    BY <1>1, <2>1 DEF TokenInv, Distinct
  <2>8. Unwritten'
    BY <1>1, <1>3, <2>2, OldUsed DEF TokenInv, Unwritten
  <2>9. KeptAlive'
    BY <1>1, <1>3, <2>1, <2>2, <2>4, NothingHeld DEF TokenInv, KeptAlive, OldReplaced, Away
  <2>10. OldReplaced'
    BY <2>2 DEF OldReplaced
  <2> QED BY <2>5, <2>6, <2>7, <2>8, <2>9, <2>10 DEF TokenInv
<1> QED BY <1>2, <1>3 DEF Excused, RotateRevoke

\* What is renamed away is kept by the importer, and by no other unless the file
\* counts as changed by others.
LEMMA TokenSwapAway ==
  ASSUME Inv, TokenInv, NEW i \in Importers, imp[i].step = "away",
         imp' = [imp EXCEPT ![i].step = "in", ![i].prev = file[Config]],
         file' = [file EXCEPT ![Config] = NoFile],
         touched' = IF \E j \in Importers : imp[j].step = "in"
                      THEN touched \cup {Config} ELSE touched,
         UNCHANGED <<issued, live, Excused, rot>>
  PROVE  TokenInv'
<1> USE AgentTokensAssumption
<1>1. /\ imp'[i].step = "in" /\ imp'[i].prev = file[Config]
      /\ imp'[i].token = imp[i].token /\ imp'[i].doc = imp[i].doc
      /\ \A j \in Importers \ {i} : imp'[j] = imp[j]
  BY DEF Inv, TypeOK, Importing
<1>2. \A f \in Files : file'[f] = IF f = Config THEN NoFile ELSE file[f]
  BY DEF Inv, TypeOK
<1>3. Refs' = Refs /\ Alive' = Alive /\ Pending' = Pending
  BY DEF Refs, Alive, Pending
<1>4. Used' \subseteq Used
  <2> SUFFICES ASSUME NEW t \in Used' PROVE t \in Used
    OBVIOUS
  <2>1. t \in Tokens
    BY DEF Used
  <2>2. \/ \E f \in Files : Holds(file'[f], t) \/ Holds(rot.refs[f], t)
        \/ \E j \in Importers : Holds(imp'[j].doc, t) \/ Holds(imp'[j].prev, t)
    BY DEF Used
  <2>3. \/ \E f \in Files : Holds(file[f], t) \/ Holds(rot.refs[f], t)
        \/ \E j \in Importers : Holds(imp[j].doc, t) \/ Holds(imp[j].prev, t)
    <3>1. ASSUME NEW f \in Files, Holds(file'[f], t)
          PROVE  Holds(file[f], t)
      BY <1>2, <3>1, NothingHeld
    <3>2. ASSUME NEW j \in Importers, Holds(imp'[j].doc, t)
          PROVE  Holds(imp[j].doc, t)
      BY <1>1, <3>2
    <3>3. ASSUME NEW j \in Importers, Holds(imp'[j].prev, t)
          PROVE  Holds(imp[j].prev, t) \/ Holds(file[Config], t)
      BY <1>1, <3>3
    <3> QED BY <2>2, <3>1, <3>2, <3>3
  <2> QED BY <2>1, <2>3 DEF Used
<1>5. RotationOK' /\ AllIssued'
  BY <1>1, <1>3, <1>4 DEF TokenInv, RotationOK, AllIssued
<1>6. \A j \in Importers : imp'[j].token = imp[j].token
  BY <1>1
<1>7. Distinct' /\ Unwritten'
  <2>1. Distinct'
    BY <1>6 DEF TokenInv, Distinct
  <2>2. \A j \in Importers : imp'[j].step \notin {"remove", "disown"} => imp[j].step \notin {"remove", "disown"}
    BY <1>1
  <2>3. Unwritten'
    <3> SUFFICES ASSUME NEW j \in Importers, imp'[j].token # 0, imp'[j].step \notin {"remove", "disown"}
                 PROVE  imp'[j].token \in Excused' \/ (imp'[j].token \in live' /\ imp'[j].token \notin Used')
      BY DEF Unwritten
    <3>1. imp[j].token # 0 /\ imp[j].step \notin {"remove", "disown"}
      BY <1>6, <2>2
    <3>2. imp[j].token \in Excused \/ (imp[j].token \in live /\ imp[j].token \notin Used)
      BY <3>1 DEF TokenInv, Unwritten
    <3>3. imp'[j].token = imp[j].token
      BY <1>6
    <3>4. live' = live /\ Excused' = Excused
      OBVIOUS
    <3> QED BY <1>4, <3>2, <3>3, <3>4
  <2> QED BY <2>1, <2>3
<1>8. \A j \in Importers : Away(j)' => j = i /\ Config \notin touched
  BY <1>1 DEF Away
<1>9. KeptAlive'
  <2>1. \A f \in Files \ touched', t \in Tokens : Holds(file'[f], t) => t \in Alive
    BY <1>2, NothingHeld DEF TokenInv, KeptAlive
  <2>2. \A f \in Files \ touched', t \in Tokens : Holds(rot.refs[f], t) => t \in Alive
    BY DEF TokenInv, KeptAlive
  <2>3. ASSUME NEW j \in Importers, NEW t \in Tokens, Away(j)', Holds(imp'[j].prev, t)
        PROVE  t \in Alive
    <3>1. j = i /\ Config \notin touched
      BY <1>8, <2>3
    <3>2. Holds(file[Config], t)
      BY <1>1, <2>3, <3>1
    <3> QED BY <3>1, <3>2 DEF TokenInv, KeptAlive
  <2> QED BY <1>3, <2>1, <2>2, <2>3 DEF KeptAlive
<1>10. OldReplaced'
  <2> SUFFICES ASSUME Refs # {}, rot.old \notin Excused
               PROVE  /\ \A f \in Files \ touched' : Holds(file'[f], rot.old) => f \in Pending
                      /\ \A j \in Importers : Away(j)' /\ Holds(imp'[j].prev, rot.old)
                                             => Config \in Pending
    BY <1>3 DEF OldReplaced
  <2>1. \A f \in Files \ touched' : Holds(file'[f], rot.old) => f \in Pending
    BY <1>2, NothingHeld DEF TokenInv, OldReplaced
  <2>2. ASSUME NEW j \in Importers, Away(j)', Holds(imp'[j].prev, rot.old)
        PROVE  Config \in Pending
    <3>1. j = i /\ Config \notin touched
      BY <1>8, <2>2
    <3>2. Holds(file[Config], rot.old)
      BY <1>1, <2>2, <3>1
    <3> QED BY <3>1, <3>2 DEF TokenInv, OldReplaced
  <2> QED BY <2>1, <2>2
<1> QED BY <1>5, <1>7, <1>9, <1>10 DEF TokenInv

\* One importer stops holding documents, and the config file gets document d,
\* whose tokens are token x, which works, and those of the file that was renamed
\* away, unless the file counts as changed by others.
LEMMA ConfigPut ==
  ASSUME Inv, TokenInv, NEW i \in Importers, NEW d \in Doc, NEW r \in Importing, NEW x \in Tokens,
         imp' = [imp EXCEPT ![i] = r],
         r.doc = NoFile, r.prev = NoFile, r.step # "in",
         r.token = 0 \/ (r.token = imp[i].token /\ (x = r.token => r.step = "remove")),
         file' = [file EXCEPT ![Config] = d],
         imp[i].step \notin {"idle", "remove", "disown"}, x = 0 \/ x = imp[i].token,
         \A t : Holds(d, t) => t = x \/ Holds(imp[i].doc, t) \/ Holds(imp[i].prev, t),
         \/ Config \in touched'
         \/ Away(i) /\ \A t : Holds(d, t) => t = x \/ Holds(imp[i].prev, t),
         touched \subseteq touched',
         UNCHANGED <<issued, live, Excused, rot>>
  PROVE  TokenInv'
<1> USE AgentTokensAssumption
<1>1. imp'[i] = r /\ \A j \in Importers \ {i} : imp'[j] = imp[j]
  BY DEF Inv, TypeOK
<1>2. \A f \in Files : file'[f] = IF f = Config THEN d ELSE file[f]
  BY DEF Inv, TypeOK
<1>3. Refs' = Refs /\ Alive' = Alive /\ Pending' = Pending
  BY DEF Refs, Alive, Pending
<1>4. live' = live /\ Excused' = Excused /\ issued' = issued /\ rot' = rot
  OBVIOUS
<1>5. Used' \subseteq Used \cup {x} /\ (x = 0 => Used' \subseteq Used)
  <2> SUFFICES ASSUME NEW t \in Used' PROVE t \in Used \/ (x # 0 /\ t = x)
    OBVIOUS
  <2>1. t \in Tokens
    BY DEF Used
  <2>2. \/ \E f \in Files : Holds(file'[f], t) \/ Holds(rot.refs[f], t)
        \/ \E j \in Importers : Holds(imp'[j].doc, t) \/ Holds(imp'[j].prev, t)
    BY DEF Used
  <2>3. ASSUME NEW f \in Files, Holds(file'[f], t)
        PROVE  \/ x # 0 /\ t = x
               \/ Holds(file[f], t) \/ Holds(imp[i].doc, t) \/ Holds(imp[i].prev, t)
    BY <1>2, <2>3 DEF Holds
  <2>4. ASSUME NEW j \in Importers, Holds(imp'[j].doc, t) \/ Holds(imp'[j].prev, t)
        PROVE  Holds(imp[j].doc, t) \/ Holds(imp[j].prev, t)
    BY <1>1, <2>4, NothingHeld
  <2> QED BY <2>1, <2>2, <2>3, <2>4 DEF Used
<1>6. /\ \A j \in Importers : imp[j].token <= issued
      /\ 0 <= issued
  BY DEF TokenInv, AllIssued, Inv, TypeOK, Tokens
<1>7. \A j \in Importers : imp'[j].token = 0 \/ imp'[j].token = imp[j].token
  BY <1>1
<1>8. RotationOK'
  BY <1>3 DEF TokenInv, RotationOK
<1>9. AllIssued'
  BY <1>4, <1>5, <1>6, <1>7 DEF TokenInv, AllIssued
<1>10. Distinct'
  BY <1>4, <1>7 DEF TokenInv, Distinct
<1>11. Unwritten'
  <2> SUFFICES ASSUME NEW j \in Importers, imp'[j].token # 0, imp'[j].step \notin {"remove", "disown"}
               PROVE  imp'[j].token \in Excused' \/ (imp'[j].token \in live' /\ imp'[j].token \notin Used')
    BY DEF Unwritten
  <2>1. imp'[j].token = imp[j].token
    BY <1>7
  <2>2. imp[j].step \notin {"remove", "disown"}
    BY <1>1
  <2>3. imp[j].token \in Excused \/ (imp[j].token \in live /\ imp[j].token \notin Used)
    BY <2>1, <2>2 DEF TokenInv, Unwritten
  <2>4. x # imp[j].token
    BY <1>1, <2>1 DEF TokenInv, Distinct
  <2> QED BY <1>4, <1>5, <2>1, <2>3, <2>4
<1>12. \A j \in Importers : ~Away(j)'
  BY <1>2, NoFileAssumption DEF Away
<1>13. x # 0 => x \in Alive /\ (x \in Excused \/ x \notin Used)
  BY DEF TokenInv, Unwritten, Alive
<1>14. KeptAlive'
  <2>1. ASSUME NEW f \in Files \ touched', NEW t \in Tokens, Holds(file'[f], t)
        PROVE  t \in Alive
    <3>1. CASE f # Config
      BY <1>2, <2>1, <3>1 DEF TokenInv, KeptAlive
    <3>2. CASE f = Config
      <4>1. t # 0 /\ Away(i) /\ (t = x \/ Holds(imp[i].prev, t))
        BY <1>2, <2>1, <3>2 DEF Holds
      <4> QED BY <1>13, <4>1 DEF TokenInv, KeptAlive
    <3> QED BY <3>1, <3>2
  <2>2. \A f \in Files \ touched', t \in Tokens : Holds(rot.refs[f], t) => t \in Alive
    BY DEF TokenInv, KeptAlive
  <2> QED BY <1>3, <1>4, <1>12, <2>1, <2>2 DEF KeptAlive
<1>15. OldReplaced'
  <2>1. ASSUME Refs # {}, rot.old \notin Excused, NEW f \in Files \ touched',
               Holds(file'[f], rot.old)
        PROVE  f \in Pending
    <3>1. CASE f # Config
      BY <1>2, <2>1, <3>1 DEF TokenInv, OldReplaced
    <3>2. CASE f = Config
      <4>1. Away(i) /\ (rot.old = x \/ Holds(imp[i].prev, rot.old))
        BY <1>2, <2>1, <3>2
      <4>2. rot.old # 0 /\ rot.old # x
        BY <1>13, <2>1, OldUsed DEF Holds
      <4> QED BY <2>1, <3>2, <4>1, <4>2 DEF TokenInv, OldReplaced
    <3> QED BY <3>1, <3>2
  <2> QED BY <1>3, <1>4, <1>12, <2>1 DEF OldReplaced
<1> QED BY <1>8, <1>9, <1>10, <1>11, <1>14, <1>15 DEF TokenInv

LEMMA TokenSwapIn ==
  ASSUME Inv, TokenInv, NEW i \in Importers, SwapIn(i)
  PROVE  TokenInv'
<1> USE AgentTokensAssumption
<1> DEFINE r == [imp[i] EXCEPT !.step = "remove", !.doc = NoFile, !.prev = NoFile]
           d == [imp[i].doc EXCEPT !.mcp = imp[i].token]
<1>1. imp[i] \in Importing /\ imp[i].step = "in" /\ imp[i].doc \in Doc /\ imp[i].token \in Tokens
  BY DEF SwapIn, Inv, TypeOK, ShapeOK, Importing
<1>2. /\ r \in Importing /\ r.doc = NoFile /\ r.prev = NoFile /\ r.step = "remove"
      /\ r.token = imp[i].token
  BY <1>1 DEF Importing, ImpSteps
<1>3. d \in Doc
  BY <1>1 DEF Doc
<1>4. \A t : Holds(d, t) => t = imp[i].token \/ Holds(imp[i].doc, t)
  BY <1>1, McpHolds
<1>5. /\ imp' = [imp EXCEPT ![i] = r] /\ file' = [file EXCEPT ![Config] = d]
      /\ UNCHANGED <<issued, live, Excused, rot>>
  BY DEF Excused, SwapIn, ImpGoto, db
<1>6. touched \subseteq touched'
  BY DEF SwapIn
<1>7. Config \in touched' \/ (Away(i) /\ imp[i].prev = imp[i].doc)
  BY <1>1 DEF SwapIn, Away
<1> HIDE DEF r, d
<1> QED BY <1>1, <1>2, <1>3, <1>4, <1>5, <1>6, <1>7, ConfigPut

\* What a failed swap leaves of the importer.
LEMMA GiveUpLeaves ==
  ASSUME Inv, NEW i \in Importers, GiveUp(i)
  PROVE  \E r \in Importing :
           /\ imp' = [imp EXCEPT ![i] = r]
           /\ r.doc = NoFile /\ r.prev = NoFile
           /\ r.step \in {"idle", "discard"}
           /\ r.token = 0 \/ (imp[i].job = "import" /\ r.token = imp[i].token)
<1> DEFINE r == [imp[i] EXCEPT !.step = "discard", !.doc = NoFile, !.prev = NoFile]
<1>1. imp[i] \in Importing
  BY DEF Inv, TypeOK
<1>2. /\ r \in Importing /\ r.doc = NoFile /\ r.prev = NoFile /\ r.step = "discard"
      /\ r.token = imp[i].token
  BY <1>1 DEF Importing, ImpSteps
<1>3. CASE imp[i].job = "import"
  BY <1>2, <1>3 DEF GiveUp, ImpGoto
<1>4. CASE imp[i].job # "import"
  <2>1. /\ ImpIdle \in Importing /\ ImpIdle.doc = NoFile /\ ImpIdle.prev = NoFile
        /\ ImpIdle.step = "idle" /\ ImpIdle.token = 0
    BY IdleOK DEF ImpIdle
  <2> QED BY <1>4, <2>1 DEF GiveUp, ImpDone
<1> QED BY <1>3, <1>4

LEMMA TokenSwapFails ==
  ASSUME Inv, TokenInv, NEW i \in Importers, SwapFails(i)
  PROVE  TokenInv'
<1> USE AgentTokensAssumption
<1>1. PICK r \in Importing :
        /\ imp' = [imp EXCEPT ![i] = r]
        /\ r.doc = NoFile /\ r.prev = NoFile
        /\ r.step \in {"idle", "discard"}
        /\ r.token = 0 \/ (imp[i].job = "import" /\ r.token = imp[i].token)
  BY GiveUpLeaves DEF SwapFails
<1>2. imp[i].step = "in" /\ imp[i].prev \in Doc
  BY DEF SwapFails, Inv, ShapeOK
<1>3. UNCHANGED <<issued, live, Excused, rot>>
  BY DEF Excused, SwapFails, db
<1>4. issued' \in Tokens /\ issued <= issued'
  BY <1>3 DEF Inv, TypeOK, Tokens
<1>5. CASE UNCHANGED <<file, touched>>
  BY <1>1, <1>2, <1>3, <1>4, <1>5, ImpStep
<1>6. CASE /\ file' = [file EXCEPT ![Config] = imp[i].prev]
           /\ touched' = IF file[Config] # NoFile THEN touched \cup {Config} ELSE touched
  <2>1. 0 \in Tokens /\ touched \subseteq touched'
    BY <1>6 DEF Tokens
  <2>2. Config \in touched' \/ Away(i)
    BY <1>2, <1>6 DEF Away
  <2>3. r.token = 0 \/ (r.token = imp[i].token /\ (0 = r.token => r.step = "remove"))
    BY <1>1
  <2>4. /\ imp' = [imp EXCEPT ![i] = r] /\ r.doc = NoFile /\ r.prev = NoFile /\ r.step # "in"
        /\ imp[i].step \notin {"idle", "remove", "disown"}
    BY <1>1, <1>2
  <2> QED BY <1>2, <1>3, <1>6, <2>1, <2>2, <2>3, <2>4, ConfigPut
<1> QED BY <1>5, <1>6 DEF SwapFails, Restored

\* The token an import gives back is one nobody else has.
LEMMA TokenDiscard ==
  ASSUME Inv, TokenInv, NEW i \in Importers, Discard(i)
  PROVE  TokenInv'
<1> USE AgentTokensAssumption
<1>1. /\ imp' = [imp EXCEPT ![i] = ImpIdle] /\ ImpIdle \in Importing
      /\ UNCHANGED <<file, rot, touched, issued, Excused>>
      /\ ImpIdle.doc = NoFile /\ ImpIdle.prev = NoFile /\ ImpIdle.step = "idle"
      /\ ImpIdle.token = 0
  BY IdleOK DEF Excused, Discard, ImpDone, disk, ImpIdle
<1>2. issued' \in Tokens /\ issued <= issued' /\ 0 \notin live
  BY <1>1 DEF Inv, TypeOK, Tokens
<1>3. CASE live \subseteq live' \cup Excused'
  BY <1>1, <1>2, <1>3, ImpStep
<1>4. CASE /\ imp[i].token # 0 /\ imp[i].token \notin Excused
           /\ live' = live \ {imp[i].token}
  <2>1. imp'[i] = ImpIdle /\ \A j \in Importers \ {i} : imp'[j] = imp[j]
    BY <1>1 DEF Inv, TypeOK
  <2>2. imp[i].token \in live /\ imp[i].token \notin Used
    BY <1>4 DEF TokenInv, Unwritten, Discard
  <2>3. Refs' = Refs /\ Pending' = Pending /\ Alive' = Alive \ {imp[i].token}
    BY <1>1, <1>4 DEF Refs, Pending, Alive
  <2>4. Used' \subseteq Used
    BY <1>1, <2>1, NothingHeld DEF Used
  <2>5. RotationOK'
    BY <1>1, <1>4, <2>3 DEF TokenInv, RotationOK, Distinct
  <2>6. AllIssued'
    BY <1>1, <1>2, <2>1, <2>4 DEF TokenInv, AllIssued, Inv, TypeOK, Tokens
  <2>7. Distinct'
    BY <1>1, <2>1 DEF TokenInv, Distinct
  <2>8. Unwritten'
    <3> SUFFICES ASSUME NEW j \in Importers, imp'[j].token # 0, imp'[j].step \notin {"remove", "disown"}
                 PROVE  imp'[j].token \in Excused' \/ (imp'[j].token \in live' /\ imp'[j].token \notin Used')
      BY DEF Unwritten
    <3>1. j # i /\ imp'[j] = imp[j]
      BY <1>1, <2>1
    <3>2. imp[j].token # imp[i].token
      BY <1>4, <3>1 DEF TokenInv, Distinct
    <3>3. imp[j].token \in Excused \/ (imp[j].token \in live /\ imp[j].token \notin Used)
      BY <3>1 DEF TokenInv, Unwritten
    <3> QED BY <1>1, <1>4, <2>4, <3>1, <3>2, <3>3
  <2>9. \A j \in Importers : Away(j)' => Away(j) /\ imp'[j] = imp[j]
    BY <1>1, <2>1 DEF Away
  <2>10. /\ \A f \in Files, t \in Tokens : Holds(file[f], t) \/ Holds(rot.refs[f], t) => t # imp[i].token
         /\ \A j \in Importers, t \in Tokens : Holds(imp[j].prev, t) => t # imp[i].token
    BY <2>2 DEF Used
  <2>11. KeptAlive'
    BY <1>1, <2>3, <2>9, <2>10 DEF TokenInv, KeptAlive
  <2>12. OldReplaced'
    BY <1>1, <2>3, <2>9 DEF TokenInv, OldReplaced
  <2> QED BY <2>5, <2>6, <2>7, <2>8, <2>11, <2>12 DEF TokenInv
<1> QED BY <1>2, <1>3, <1>4 DEF Excused, Discard

\* Stopping leaves the files as they are and forgets everything else.
LEMMA TokenRestart ==
  ASSUME Inv, TokenInv, Restart
  PROVE  TokenInv'
<1> USE AgentTokensAssumption
<1>1. /\ rot'.step = "idle" /\ rot'.old = 0 /\ rot'.new = 0
      /\ \A f \in Files : rot'.refs[f] = NoFile
      /\ \A i \in Importers : imp'[i].step = "idle" /\ imp'[i].token = 0
                              /\ imp'[i].doc = NoFile /\ imp'[i].prev = NoFile
      /\ UNCHANGED <<file, touched, issued, live, Excused>>
  BY DEF Excused, Restart, RotIdle, ImpIdle, db
<1>2. Refs' = {} /\ Used' \subseteq Used /\ Alive' = Alive
  BY <1>1, NothingHeld DEF Refs, Used, Alive
<1>3. issued' \in Nat /\ 0 <= issued'
  BY <1>1 DEF Inv, TypeOK, Tokens
<1>4. RotationOK' /\ AllIssued'
  BY <1>1, <1>2, <1>3 DEF TokenInv, RotationOK, AllIssued
<1>5. Distinct' /\ Unwritten'
  BY <1>1 DEF Distinct, Unwritten
<1>6. KeptAlive' /\ OldReplaced'
  BY <1>1, <1>2, NothingHeld DEF TokenInv, KeptAlive, OldReplaced, Away
<1> QED BY <1>4, <1>5, <1>6 DEF TokenInv

\* What other programs put into a file is text, or a token people have seen.
LEMMA TokenEditText ==
  ASSUME Inv, TokenInv, NEW f \in Files, EditText(f)
  PROVE  TokenInv'
<1> USE AgentTokensAssumption
<1> DEFINE d == [file[f] EXCEPT !.text = edits + 1]
<1>1. file[f] \in Doc /\ file[f] # NoFile /\ edits + 1 \in 0 .. MaxEdits /\ 0 \in Tokens
  BY DEF EditText, EditedByOthers, Inv, TypeOK, Tokens
<1>2. d \in Doc
  BY <1>1 DEF Doc
<1>3. \A u : Holds(d, u) => Holds(file[f], u)
  BY <1>1, TextHolds
<1>4. /\ file' = [file EXCEPT ![f] = d]
      /\ UNCHANGED <<rot, imp, issued, live, Excused>> /\ touched \subseteq touched'
  BY DEF Excused, EditText, db, Inv, TypeOK
<1> HIDE DEF d
<1> QED BY <1>1, <1>2, <1>3, <1>4, EditStep

LEMMA TokenEditToken ==
  ASSUME Inv, TokenInv, NEW f \in Files, NEW t \in Tokens, EditToken(f, t)
  PROVE  TokenInv'
<1> USE AgentTokensAssumption
<1>1. file[f] \in Doc /\ file[f] # NoFile
  BY DEF EditToken, EditedByOthers, Inv, TypeOK
<1>2. PICK d \in Doc : /\ file' = [file EXCEPT ![f] = d]
                       /\ \A u : Holds(d, u) => u = t \/ Holds(file[f], u)
  <2>1. [file[f] EXCEPT !.mcp = t] \in Doc /\ [file[f] EXCEPT !.model = t] \in Doc
    BY <1>1 DEF Doc
  <2>2. /\ \A u : Holds([file[f] EXCEPT !.mcp = t], u) => u = t \/ Holds(file[f], u)
        /\ \A u : Holds([file[f] EXCEPT !.model = t], u) => u = t \/ Holds(file[f], u)
    BY <1>1, McpHolds, ModelHolds
  <2> QED BY <2>1, <2>2 DEF EditToken
<1>3. /\ UNCHANGED <<rot, imp, issued, live, Excused>> /\ touched \subseteq touched'
      /\ t \in live /\ \A i \in Importers : t # imp[i].token
  BY DEF Excused, EditToken, db, Shown
<1>4. t # 0 /\ t = rot.old /\ Refs # {} => f \in touched'
  <2>1. rot = RotIdle => Refs = {}
    BY DEF RotIdle, Refs
  <2> QED BY <2>1 DEF EditToken
<1> QED BY <1>1, <1>2, <1>3, <1>4, EditStep

\* An importer that goes on, ends or gives up without changing a file.
LEMMA ImpGoes ==
  ASSUME Inv, TokenInv, NEW i \in Importers, UNCHANGED <<file, rot, touched>>,
         issued' \in Tokens, issued <= issued',
         Excused \subseteq Excused', live \subseteq live' \cup Excused',
         \/ ImpDone(i)
         \/ GiveUp(i) /\ (imp[i].step \notin {"remove", "disown"} \/ imp[i].job # "import")
         \/ \E s \in ImpSteps \ {"away", "in"} :
              ImpGoto(i, s) /\ (imp[i].step \notin {"remove", "disown"} \/ s = "disown")
  PROVE  TokenInv'
<1> USE AgentTokensAssumption
<1>1. imp[i] \in Importing
  BY DEF Inv, TypeOK
<1>2. /\ ImpIdle \in Importing /\ ImpIdle.doc = NoFile /\ ImpIdle.prev = NoFile
      /\ ImpIdle.step = "idle" /\ ImpIdle.token = 0
  BY IdleOK DEF ImpIdle
<1>3. CASE ImpDone(i)
  BY <1>2, <1>3, ImpStep DEF ImpDone
<1>4. ASSUME NEW s \in ImpSteps \ {"away", "in"}, ImpGoto(i, s),
             imp[i].step \notin {"remove", "disown"} \/ s = "disown"
      PROVE  TokenInv'
  <2> DEFINE r == [imp[i] EXCEPT !.step = s, !.doc = NoFile, !.prev = NoFile]
  <2>1. /\ r \in Importing /\ r.doc = NoFile /\ r.prev = NoFile /\ r.step # "in"
        /\ r.token = imp[i].token /\ r.step = s
    BY <1>1, <1>4 DEF Importing
  <2>2. imp' = [imp EXCEPT ![i] = r]
    BY <1>4 DEF ImpGoto
  <2> HIDE DEF r
  <2> QED BY <1>4, <2>1, <2>2, ImpStep
<1>5. CASE /\ GiveUp(i)
           /\ imp[i].step \notin {"remove", "disown"} \/ imp[i].job # "import"
  BY <1>3, <1>4, <1>5 DEF GiveUp, ImpSteps
<1> QED BY <1>3, <1>4, <1>5

LEMMA TokenImport ==
  ASSUME Inv, TokenInv, NEW i \in Importers, Import(i)
  PROVE  TokenInv'
<1> USE AgentTokensAssumption DEF disk, db
<1>1. imp[i] \in Importing /\ issued \in Tokens /\ issued <= issued
  BY DEF Inv, TypeOK, Tokens
<1>2. ASSUME NewToken
      PROVE  /\ issued' \in Tokens /\ issued <= issued' /\ issued + 1 <= issued'
             /\ issued + 1 \in Tokens /\ issued + 1 \in live' /\ live \subseteq live'
  BY <1>1, <1>2, NewTokenOK DEF NewToken, Tokens
<1>3. CASE BeginImport(i)
  <2>1. CASE /\ NewToken
             /\ imp' = [imp EXCEPT ![i] = [ImpIdle EXCEPT !.step = "entry", !.job = "import",
                                                          !.token = issued + 1]]
    <3> DEFINE r == [ImpIdle EXCEPT !.step = "entry", !.job = "import", !.token = issued + 1]
    <3>1. /\ r \in Importing /\ r.doc = NoFile /\ r.prev = NoFile /\ r.step # "in"
          /\ r.token = issued + 1
      BY <1>2, <2>1, IdleOK DEF ImpIdle, Importing, ImpSteps, Jobs
    <3>2. imp' = [imp EXCEPT ![i] = r] /\ UNCHANGED <<file, rot, touched, Excused>>
      BY <1>3, <2>1 DEF Excused, BeginImport
    <3> HIDE DEF r
    <3> QED BY <1>2, <2>1, <3>1, <3>2, ImpStep
  <2>2. CASE /\ imp' = [imp EXCEPT ![i] = [ImpIdle EXCEPT !.step = "entry", !.job = "import"]]
             /\ UNCHANGED <<status, issued, live>>
    <3> DEFINE r == [ImpIdle EXCEPT !.step = "entry", !.job = "import"]
    <3>1. /\ r \in Importing /\ r.doc = NoFile /\ r.prev = NoFile /\ r.step # "in" /\ r.token = 0
      BY IdleOK DEF ImpIdle, Importing, ImpSteps, Jobs
    <3>2. imp' = [imp EXCEPT ![i] = r] /\ UNCHANGED <<file, rot, touched, Excused>>
      BY <1>3, <2>2 DEF Excused, BeginImport
    <3> HIDE DEF r
    <3> QED BY <1>1, <2>2, <3>1, <3>2, ImpStep
  <2> QED BY <1>3, <2>1, <2>2 DEF BeginImport
<1>4. CASE CheckEntry(i)
  BY <1>1, <1>4, ImpGoes DEF Excused, CheckEntry, ImpSteps
<1>5. CASE ImportIssue(i)
  <2> DEFINE r == [imp[i] EXCEPT !.step = "read", !.token = issued + 1]
  <2>1. NewToken /\ UNCHANGED <<file, rot, touched, Excused>> /\ imp[i].step = "issue"
    BY <1>5 DEF Excused, ImportIssue
  <2>2. /\ r \in Importing /\ r.doc = imp[i].doc /\ r.prev = imp[i].prev /\ r.step # "in"
        /\ r.token = issued + 1
    BY <1>1, <1>2, <2>1 DEF Importing, ImpSteps
  <2>3. imp' = [imp EXCEPT ![i] = r]
    BY <1>5 DEF ImportIssue
  <2> HIDE DEF r
  <2> QED BY <1>2, <2>1, <2>2, <2>3, ImpStep
<1>6. CASE ImportFails(i)
  BY <1>1, <1>6, ImpGoes DEF Excused, ImportFails
<1>7. CASE BeginDelete(i)
  <2> DEFINE r == [ImpIdle EXCEPT !.step = "read", !.job = "delete"]
  <2>1. /\ r \in Importing /\ r.doc = NoFile /\ r.prev = NoFile /\ r.step # "in" /\ r.token = 0
    BY IdleOK DEF ImpIdle, Importing, ImpSteps, Jobs
  <2>2. imp' = [imp EXCEPT ![i] = r] /\ UNCHANGED <<file, rot, touched, Excused, issued, live>>
    BY <1>7 DEF Excused, BeginDelete
  <2> HIDE DEF r
  <2> QED BY <1>1, <2>1, <2>2, ImpStep
<1>8. CASE ReadConfig(i)
  <2>1. CASE imp' = [imp EXCEPT ![i].step = "away", ![i].doc = file[Config]]
    <3> DEFINE r == [imp[i] EXCEPT !.step = "away", !.doc = file[Config]]
    <3>1. file[Config] \in Doc \cup {NoFile}
      BY DEF Inv, TypeOK
    <3>2. /\ r \in Importing /\ r.doc = file[Config] /\ r.prev = imp[i].prev /\ r.step # "in"
          /\ r.token = imp[i].token /\ imp[i].step \notin {"remove", "disown"}
      BY <1>1, <1>8, <3>1 DEF Importing, ImpSteps, ReadConfig
    <3>3. imp' = [imp EXCEPT ![i] = r] /\ UNCHANGED <<file, rot, touched, Excused, issued, live>>
      BY <1>8, <2>1 DEF Excused, ReadConfig
    <3> HIDE DEF r
    <3> QED BY <1>1, <3>2, <3>3, ImpStep
  <2>2. CASE ImpGoto(i, "remove") \/ GiveUp(i)
    BY <1>1, <1>8, <2>2, ImpGoes DEF Excused, ReadConfig, ImpSteps
  <2> QED BY <1>8, <2>1, <2>2 DEF ReadConfig
<1>9. CASE SwapAway(i)
  <2>1. CASE GiveUp(i) /\ UNCHANGED <<file, touched, edited>>
    BY <1>1, <1>9, <2>1, ImpGoes DEF Excused, SwapAway
  <2>2. CASE file' = [file EXCEPT ![Config] = NoFile]
    BY <1>9, <2>1, <2>2, TokenSwapAway DEF Excused, SwapAway
  <2> QED BY <1>9, <2>1, <2>2 DEF SwapAway
<1>10. CASE SwapDone(i)
  BY <1>1, <1>10, ImpGoes DEF Excused, SwapDone
<1>11. CASE RemoveFails(i)
  BY <1>1, <1>11, ImpGoes DEF Excused, RemoveFails, ImpSteps
<1>12. CASE Disown(i)
  BY <1>1, <1>12, ImpGoes DEF Excused, Disown
<1> QED
  BY <1>3, <1>4, <1>5, <1>6, <1>7, <1>8, <1>9, <1>10, <1>11, <1>12,
     TokenSwapIn, TokenSwapFails, TokenDiscard DEF Import

LEMMA TokenNext == Inv /\ TokenInv /\ [Next]_vars => TokenInv'
<1> SUFFICES ASSUME Inv, TokenInv, [Next]_vars PROVE TokenInv'
  OBVIOUS
<1> USE AgentTokensAssumption DEF disk, db
<1>1. issued \in Tokens /\ issued <= issued
  BY DEF Inv, TypeOK, Tokens
<1>2. CASE IssueAgentToken
  <2>1. NewToken /\ UNCHANGED <<file, rot, imp, touched, Excused>>
    BY <1>2 DEF Excused, IssueAgentToken
  <2>2. issued' \in Tokens /\ issued <= issued' /\ live \subseteq live'
    BY <1>1, <2>1, NewTokenOK DEF NewToken, Tokens
  <2> QED BY <2>1, <2>2, StoreStep
<1>3. ASSUME NEW t \in Tokens, RevokeAgentTokenByID(t)
      PROVE  TokenInv'
  BY <1>1, <1>3, StoreStep DEF Excused, RevokeAgentTokenByID
<1>4. CASE DisableAgent
  BY <1>1, <1>4, StoreStep DEF Excused, DisableAgent
<1>5. CASE EnableAgent
  BY <1>1, <1>5, StoreStep DEF Excused, EnableAgent
<1>6. CASE RotateFails \/ WriteFails
  BY <1>6, RotStops DEF Excused, RotateFails, WriteFails, Incomplete
<1>7. CASE VerifyAll
  <2>1. UNCHANGED <<file, imp, touched, issued, live, Excused>> /\ rot.step = "verify"
    BY <1>7 DEF Excused, VerifyAll
  <2>2. CASE rot' = RotIdle
    BY <2>1, <2>2, RotStops
  <2>3. CASE rot' = [rot EXCEPT !.step = "recheck"]
    <3>1. /\ rot'.step = "recheck" /\ rot'.old = rot.old /\ rot'.new = rot.new
          /\ rot'.refs = rot.refs /\ rot'.todo = rot.todo
      BY <2>3 DEF Inv, TypeOK, Rotating
    <3> QED BY <2>1, <3>1, RotMoves
  <2> QED BY <1>7, <2>2, <2>3 DEF VerifyAll, Incomplete
<1>8. ASSUME NEW f \in Files, Recheck(f)
      PROVE  TokenInv'
  <2>1. UNCHANGED <<file, imp, touched, issued, live, Excused>> /\ rot.step = "recheck"
    BY <1>8 DEF Excused, Recheck
  <2>2. CASE rot' = RotIdle
    BY <2>1, <2>2, RotStops
  <2>3. CASE rot' = [rot EXCEPT !.step = "write", !.at = f]
    <3>1. /\ rot'.step = "write" /\ rot'.old = rot.old /\ rot'.new = rot.new
          /\ rot'.refs = rot.refs /\ rot'.todo = rot.todo
      BY <2>3 DEF Inv, TypeOK, Rotating
    <3> QED BY <2>1, <3>1, RotMoves
  <2> QED BY <1>8, <2>2, <2>3 DEF Recheck, Incomplete
<1>9. CASE UNCHANGED vars
  <2>1. UNCHANGED <<file, rot, imp, touched, issued, live, Excused>>
    BY <1>9 DEF Excused, vars
  <2> QED BY <1>1, <2>1, StoreStep
<1> QED
  BY <1>2, <1>3, <1>4, <1>5, <1>6, <1>7, <1>8, <1>9, TokenEditText, TokenEditToken,
     TokenRotateToken, TokenRotateIssue, TokenWrite, TokenRotateRevoke, TokenImport,
     TokenRestart DEF Next, People, Rotation

\* A file never holds a token that no longer works, unless a person put that
\* token out of use, others changed the file while Toolmux replaced its token, or
\* an import that failed at its last step revoked what it had just written.
THEOREM FilesWork == Spec => []FilesHoldWorkingTokens
<1>1. Spec => []Inv
  BY InvInit, InvNext, PTL DEF Spec
<1>2. Spec => []TokenInv
  BY <1>1, TokenInit, TokenNext, PTL DEF Spec
<1>3. TokenInv => FilesHoldWorkingTokens
  BY DEF Excused, TokenInv, KeptAlive, Alive, FilesHoldWorkingTokens
<1> QED BY <1>2, <1>3, PTL
=============================================================================
