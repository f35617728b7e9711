------------------------- MODULE AgentSwitch_proofs -------------------------
(* Theorems about AgentSwitch, for every value of its constants. *)
EXTENDS AgentSwitch, TLAPS

-----------------------------------------------------------------------------
(* Types *)

Steps == {"token", "write", "companion", "verify", "remember", "select", "save",
          "route", "retire", "undo", "done", "failed"}
Files == {"file", "companion", "memory"}
Undoable == Files \cup {"token"}

Switches ==
  [pc : Steps, agent : Agents, want : Settings, proxy : BOOLEAN,
   previous : Bindings \cup {Unbound}, rev : 0 .. MaxRev, created : BOOLEAN,
   file : Settings, companion : Settings, remembered : BOOLEAN,
   undo : SUBSET Undoable, lost : SUBSET Files, found : Found]

Deletions ==
  [pc : {"rows", "secrets", "files", "selection"}, provider : Providers,
   tokens : SUBSET (Agents \X (1 .. MaxRev)), agent : SUBSET Agents, affected : SUBSET Agents]

StoresOK ==
  /\ providers \subseteq Providers
  /\ binding \in [Agents -> Bindings \cup {Unbound}]
  /\ memory \in [Agents -> Settings \cup {Forgotten}]
  /\ secret \in [Agents -> [1 .. MaxRev -> Tokens \cup {NoToken}]]
  /\ routes \in [Tokens -> Providers \cup {NoRoute}]
FilesOK == file \in [Agents -> Settings] /\ companion \in [Agents -> Settings]
SwitchOK == sw = Idle \/ sw \in Switches
DeletionOK == del = Idle \/ del \in Deletions
BootOK == boot \in [pc : {"start", "loading", "done"}, todo : SUBSET (Agents \X Bindings)]
CountsOK == happened \in [fault : Nat, delete : Nat, crash : Nat, overlap : Nat]
AmissOK == amiss \in [file : SUBSET Agents, selection : SUBSET Agents, route : SUBSET Agents,
                      token : SUBSET Tokens]

\* A restore takes no token, writes no companion on the way, verifies nothing
\* and remembers nothing.  A token is retired if there was one.  Nothing is
\* lost before something is undone.
PathOK ==
  sw # Idle =>
    /\ Restoring => sw.pc \notin {"token", "companion", "verify", "remember"} /\ ~sw.proxy
    /\ sw.pc = "retire" => HasToken(sw.previous)
    /\ sw.created => sw.rev > 0
    /\ sw.pc = "token" => ~sw.created
    /\ sw.pc \notin {"undo", "failed"} => sw.lost = {}

TypeInv ==
  /\ StoresOK /\ FilesOK /\ SwitchOK /\ DeletionOK /\ BootOK /\ CountsOK
  /\ PathOK

LEMMA TypeInvIsTypeOK == TypeInv /\ AmissOK => TypeOK
<1>1. Undoable = {"file", "companion", "memory", "token"}
  BY DEF Undoable, Files
<1> QED
  BY <1>1 DEF TypeInv, TypeOK, StoresOK, FilesOK, SwitchOK, DeletionOK, BootOK, CountsOK, AmissOK,
              Switches, Deletions, Steps, Files

LEMMA TypeInit == Init => TypeInv /\ AmissOK
<1> SUFFICES ASSUME Init PROVE TypeInv /\ AmissOK
  OBVIOUS
<1>1. StoresOK
  BY DEF Init, StoresOK
<1>2. FilesOK
  BY DEF Init, FilesOK, Settings
<1>3. SwitchOK /\ DeletionOK /\ PathOK
  BY DEF Init, SwitchOK, DeletionOK, PathOK
<1>4. BootOK
  BY DEF Init, BootOK
<1>5. CountsOK
  BY DEF Init, CountsOK
<1>6. AmissOK
  BY DEF Init, AmissOK
<1> QED BY <1>1, <1>2, <1>3, <1>4, <1>5, <1>6 DEF TypeInv

LEMMA HappensOK ==
  ASSUME CountsOK, NEW kinds, Happens(kinds) \/ UNCHANGED happened
  PROVE  CountsOK'
BY DEF CountsOK, Happens

\* What a token's revision names is a token or none.
LEMMA TokenType ==
  ASSUME StoresOK, NEW a \in Agents, NEW b \in Bindings \cup {Unbound}
  PROVE  /\ HasToken(b) => b \in Bindings /\ b.rev \in 1 .. MaxRev /\ Token(a, b) \in Tokens \cup {NoToken}
         /\ TokenOf(a) \in Tokens \cup {NoToken}
<1>1. ASSUME NEW c \in Bindings \cup {Unbound}, HasToken(c)
      PROVE  c \in Bindings /\ c.rev \in 1 .. MaxRev /\ Token(a, c) \in Tokens \cup {NoToken}
  <2>1. c \in Bindings /\ c.rev \in 0 .. MaxRev /\ c.rev > 0
    BY <1>1 DEF HasToken, Bindings
  <2>2. c.rev \in 1 .. MaxRev
    BY <2>1, BoundsAssumption
  <2>3. secret[a] \in [1 .. MaxRev -> Tokens \cup {NoToken}]
    BY DEF StoresOK
  <2>4. secret[a][c.rev] \in Tokens \cup {NoToken}
    BY <2>2, <2>3
  <2> QED BY <2>1, <2>2, <2>4 DEF Token
<1>2. binding[a] \in Bindings \cup {Unbound}
  BY DEF StoresOK
<1> QED BY <1>1, <1>2 DEF TokenOf

\* An idle step has no switch.
LEMMA InSwitch ==
  ASSUME TypeInv, sw.pc # "idle"
  PROVE  sw \in Switches /\ sw.agent \in Agents /\ PathOK /\ sw # Idle
BY DEF TypeInv, SwitchOK, Idle, Switches

LEMMA InDeletion ==
  ASSUME TypeInv, del.pc # "idle"
  PROVE  del \in Deletions
BY DEF TypeInv, DeletionOK, Idle
LEMMA SecretDeleted ==
  ASSUME TypeInv, NEW a \in Agents, NEW r \in 1 .. MaxRev, DeleteSecret(a, r), UNCHANGED <<database, routes>>
  PROVE  StoresOK' /\ CountsOK'
<1>1. CountsOK'
  BY HappensOK DEF DeleteSecret, Fault, TypeInv
<1>2. secret' \in [Agents -> [1 .. MaxRev -> Tokens \cup {NoToken}]]
  <2>1. secret \in [Agents -> [1 .. MaxRev -> Tokens \cup {NoToken}]]
    BY DEF TypeInv, StoresOK
  <2>2. secret[a] \in [1 .. MaxRev -> Tokens \cup {NoToken}]
    BY <2>1
  <2>3. [secret[a] EXCEPT ![r] = NoToken] \in [1 .. MaxRev -> Tokens \cup {NoToken}]
    BY <2>2
  <2>4. secret' = [secret EXCEPT ![a] = [secret[a] EXCEPT ![r] = NoToken]] \/ secret' = secret
    BY DEF DeleteSecret
  <2> QED BY <2>1, <2>3, <2>4
<1> QED BY <1>1, <1>2 DEF TypeInv, StoresOK, database

\* What is undone, whichever step failed.
LEMMA UndoneType ==
  ASSUME NEW kind \in Kinds, TypeInv, sw # Idle, PathOK,
         sw.pc \in {"token", "write", "companion", "verify", "remember", "select", "save"}
  PROVE  Undone(kind, sw.pc) \subseteq Undoable
<1>1. CASE Restoring
  <2>1. sw.pc \in {"write", "select", "save"}
    BY <1>1 DEF PathOK
  <2> QED BY <1>1, <2>1 DEF Undone, Undoable, Files
<1>2. CASE ~Restoring
  BY <1>2 DEF Undone, Undoable, Files
<1> QED BY <1>1, <1>2

LEMMA OriginalType ==
  ASSUME StoresOK, FilesOK, NEW a \in Agents
  PROVE  Original(a) \in Settings
<1>1. companion[a] \in Settings /\ memory[a] \in Settings \cup {Forgotten}
  BY DEF StoresOK, FilesOK
<1> QED BY <1>1 DEF Original, Settings

\* A step of a switch.
LEMMA SwitchStepOK ==
  ASSUME TypeInv, SwitchStep
  PROVE  TypeInv'
<1>0. sw \in Switches /\ sw.agent \in Agents /\ PathOK /\ sw # Idle
  BY InSwitch DEF SwitchStep, UseDirectKey, ReuseToken, CreateToken, ReplaceToken, NewToken, WriteFile, WriteBeside, WriteCompanion, Verified,
       Remember, Select, RestoreSelection, SaveBinding, ForgetBinding, RegisterRoute, Unregister, RouteLeft,
       RetireToken, Return, StepFails, WriteFailsLate, RememberFailsHalfway, SelectFailsHalfway, TurnBack,
       PutBack, NotPutBack, Undo, UndoFile, FileLeft, UndoCompanion, CompanionLeft, UndoMemory, MemoryLeft, UndoToken, Failed
<1>a. DeletionOK' /\ BootOK'
  BY DEF TypeInv, DeletionOK, BootOK, SwitchStep, UseDirectKey, ReuseToken, CreateToken, ReplaceToken, NewToken, WriteFile, WriteBeside, WriteCompanion, Verified,
       Remember, Select, RestoreSelection, SaveBinding, ForgetBinding, RegisterRoute, Unregister, RouteLeft,
       RetireToken, Return, StepFails, WriteFailsLate, RememberFailsHalfway, SelectFailsHalfway, TurnBack,
       PutBack, NotPutBack, Undo, UndoFile, FileLeft, UndoCompanion, CompanionLeft, UndoMemory, MemoryLeft, UndoToken, Failed
<1> USE DEF database, disk, history
<1>1. CASE UseDirectKey
  <2>1. sw' \in Switches /\ PathOK'
    BY <1>0, <1>1 DEF UseDirectKey, Switches, Steps, PathOK, Restoring, HasToken
  <2> QED BY <1>1, <1>a, <2>1 DEF UseDirectKey, TypeInv, SwitchOK, StoresOK, FilesOK, CountsOK
<1>2. CASE ReuseToken
  <2>1. /\ HasToken(binding[sw.agent]) /\ binding[sw.agent] \in Bindings \cup {Unbound}
        /\ Token(sw.agent, binding[sw.agent]) # NoToken
    BY <1>0, <1>2 DEF ReuseToken, Reusable, TypeInv, StoresOK
  <2>2. Token(sw.agent, binding[sw.agent]) \in Tokens /\ binding[sw.agent].rev \in 1 .. MaxRev
    BY <1>0, <2>1, TokenType DEF TypeInv
  <2>3. sw.want \in Settings \ {Native} /\ ~sw.created
    BY <1>0, <1>2 DEF ReuseToken, PathOK, Restoring, Switches
  <2> DEFINE want == [sw.want EXCEPT !.token = Token(sw.agent, binding[sw.agent])]
             rev == binding[sw.agent].rev
  <2>4. want \in Settings \ {Native} /\ rev \in 0 .. MaxRev /\ rev > 0
    BY <2>2, <2>3, NullsAssumption, BoundsAssumption DEF Settings
  <2>5. sw' = [sw EXCEPT !.pc = "write", !.rev = rev, !.want = want]
    BY <1>2 DEF ReuseToken
  <2> HIDE DEF want, rev
  <2>6. sw' \in Switches
    BY <1>0, <2>4, <2>5 DEF Switches, Steps
  <2>7. sw'.pc = "write" /\ sw'.want # Native /\ ~sw'.created /\ sw'.lost = {}
    BY <1>0, <1>2, <2>3, <2>4, <2>5 DEF Switches, PathOK, ReuseToken
  <2>8. PathOK'
    BY <2>7 DEF PathOK, Restoring
  <2> QED BY <1>2, <1>a, <2>6, <2>8 DEF ReuseToken, TypeInv, SwitchOK, StoresOK, FilesOK, CountsOK
<1>3. ASSUME NewToken, CountsOK'
      PROVE  TypeInv'
  <2> DEFINE r == NextRev(sw.agent)
  <2>1. r \in 1 .. MaxRev
    <3>1. binding[sw.agent] \in Bindings \cup {Unbound}
      BY <1>0 DEF TypeInv, StoresOK
    <3>2. r \in Nat /\ r > 0
      BY <3>1, BoundsAssumption DEF NextRev, Bindings
    <3> QED BY <1>3, <3>2, BoundsAssumption DEF NewToken
  <2>2. PICK t \in Tokens : /\ secret' = [secret EXCEPT ![sw.agent][r] = t]
                            /\ sw' = [sw EXCEPT !.pc = "write", !.rev = r, !.created = TRUE, !.want.token = t]
    BY <1>3 DEF NewToken
  <2> HIDE DEF r
  <2>3. secret' \in [Agents -> [1 .. MaxRev -> Tokens \cup {NoToken}]]
    <3>1. secret \in [Agents -> [1 .. MaxRev -> Tokens \cup {NoToken}]]
      BY DEF TypeInv, StoresOK
    <3>2. secret[sw.agent] \in [1 .. MaxRev -> Tokens \cup {NoToken}]
      BY <1>0, <3>1
    <3>3. [secret[sw.agent] EXCEPT ![r] = t] \in [1 .. MaxRev -> Tokens \cup {NoToken}]
      BY <2>1, <3>2
    <3>4. secret' = [secret EXCEPT ![sw.agent] = [secret[sw.agent] EXCEPT ![r] = t]]
      BY <2>2
    <3> QED BY <3>1, <3>3, <3>4
  <2>4. sw.want \in Settings \ {Native}
    BY <1>0, <1>3 DEF NewToken, PathOK, Restoring, Switches
  <2> DEFINE want == [sw.want EXCEPT !.token = t]
  <2>5. want \in Settings \ {Native} /\ r \in 0 .. MaxRev /\ r > 0
    BY <2>1, <2>4, NullsAssumption, BoundsAssumption DEF Settings
  <2>6. sw' = [sw EXCEPT !.pc = "write", !.rev = r, !.created = TRUE, !.want = want]
    BY <2>2
  <2> HIDE DEF want
  <2>7. sw' \in Switches
    BY <1>0, <2>5, <2>6 DEF Switches, Steps
  <2>8. sw'.pc = "write" /\ sw'.want # Native /\ sw'.rev > 0 /\ sw'.lost = {}
    BY <1>0, <1>3, <2>5, <2>6 DEF Switches, PathOK, NewToken
  <2>9. PathOK'
    BY <2>8 DEF PathOK, Restoring
  <2> QED BY <1>3, <1>a, <2>3, <2>7, <2>9 DEF NewToken, TypeInv, SwitchOK, StoresOK, FilesOK
<1>d. CASE CreateToken
  BY <1>3, <1>d DEF CreateToken, TypeInv, CountsOK
<1>e. CASE ReplaceToken
  BY <1>3, <1>e, HappensOK DEF ReplaceToken, Fault, TypeInv
<1>4. CASE WriteFile
  <2>1. file[sw.agent] \in Settings /\ file' \in [Agents -> Settings]
    BY <1>0, <1>4 DEF WriteFile, TypeInv, FilesOK, Switches
  <2>2. sw' \in Switches /\ PathOK'
    BY <1>0, <1>4, <2>1 DEF WriteFile, Switches, Steps, PathOK, Restoring
  <2> QED BY <1>4, <1>a, <2>1, <2>2 DEF WriteFile, TypeInv, SwitchOK, StoresOK, FilesOK, CountsOK
<1>5. ASSUME NEW from \in {"companion", "select"}, NEW kinds, NEW to \in {"verify", "save"},
             WriteCompanion(from, kinds, to)
      PROVE  TypeInv'
  <2>1. companion[sw.agent] \in Settings /\ sw.want \in Settings
    BY <1>0 DEF TypeInv, FilesOK, Switches
  <2>2. Shown(sw.agent, sw.want) \in Settings
    BY <2>1 DEF Shown, Settings
  <2>3. companion' \in [Agents -> Settings]
    BY <1>0, <1>5, <2>2 DEF WriteCompanion, TypeInv, FilesOK
  <2>4. sw' \in Switches /\ PathOK'
    BY <1>0, <1>5, <2>1 DEF WriteCompanion, Switches, Steps, PathOK, Restoring
  <2> QED BY <1>5, <1>a, <2>3, <2>4 DEF WriteCompanion, TypeInv, SwitchOK, StoresOK, FilesOK, CountsOK
<1>6. CASE Verified
  <2>1. sw' \in Switches /\ PathOK'
    BY <1>0, <1>6 DEF Verified, Switches, Steps, PathOK, Restoring
  <2> QED BY <1>6, <1>a, <2>1 DEF Verified, TypeInv, SwitchOK, StoresOK, FilesOK, CountsOK
<1>7. CASE Remember
  <2>1. memory' \in [Agents -> Settings \cup {Forgotten}]
    BY <1>0, <1>7 DEF Remember, TypeInv, StoresOK, FilesOK
  <2>2. sw' \in Switches /\ PathOK'
    BY <1>0, <1>7 DEF Remember, Switches, Steps, PathOK, Restoring
  <2> QED BY <1>7, <1>a, <2>1, <2>2 DEF Remember, TypeInv, SwitchOK, StoresOK, FilesOK, CountsOK
<1>8. CASE RestoreSelection
  <2>1. companion[sw.agent] \in Settings /\ memory[sw.agent] \in Settings \cup {Forgotten}
    BY <1>0 DEF TypeInv, FilesOK, StoresOK
  <2>2. Original(sw.agent) \in Settings
    BY <2>1 DEF Original, Settings
  <2>3. companion' \in [Agents -> Settings]
    BY <1>8, <2>2 DEF RestoreSelection, TypeInv, FilesOK
  <2>4. sw' \in Switches /\ PathOK'
    BY <1>0, <1>8, <2>1 DEF RestoreSelection, Switches, Steps, PathOK, Restoring
  <2> QED BY <1>8, <1>a, <2>3, <2>4 DEF RestoreSelection, TypeInv, SwitchOK, StoresOK, FilesOK, CountsOK
<1>9. CASE SaveBinding
  <2>1. sw.want \in Settings \ {Native} /\ sw.rev \in 0 .. MaxRev
    BY <1>0, <1>9 DEF SaveBinding, Restoring, Switches
  <2>2. [provider |-> sw.want.provider, rev |-> sw.rev] \in Bindings
    BY <2>1 DEF Settings, Bindings
  <2>3. binding' \in [Agents -> Bindings \cup {Unbound}]
    BY <1>9, <2>2 DEF SaveBinding, TypeInv, StoresOK
  <2>4. sw' \in Switches /\ PathOK'
    BY <1>0, <1>9 DEF SaveBinding, Switches, Steps, PathOK, Restoring
  <2> QED BY <1>9, <1>a, <2>3, <2>4 DEF SaveBinding, TypeInv, SwitchOK, StoresOK, FilesOK, CountsOK
<1>10. CASE ForgetBinding
  <2>1. sw' \in Switches /\ PathOK'
    BY <1>0, <1>10 DEF ForgetBinding, Switches, Steps, PathOK, Restoring
  <2> QED BY <1>10, <1>a, <2>1 DEF ForgetBinding, TypeInv, SwitchOK, StoresOK, FilesOK, CountsOK
<1>11. CASE RegisterRoute
  <2>1. sw.want \in Settings \ {Native}
    BY <1>0, <1>11 DEF RegisterRoute, PathOK, Restoring, Switches
  <2>2. sw.want.provider \in Providers
    BY <2>1 DEF Settings
  <2>3. routes' \in [Tokens -> Providers \cup {NoRoute}]
    BY <1>11, <2>2 DEF RegisterRoute, TypeInv, StoresOK
  <2>4. sw' \in Switches /\ PathOK'
    BY <1>0, <1>11 DEF RegisterRoute, Switches, Steps, PathOK, Restoring
  <2> QED BY <1>11, <1>a, <2>3, <2>4 DEF RegisterRoute, TypeInv, SwitchOK, StoresOK, FilesOK, CountsOK
<1>12. CASE Unregister
  <2>1. routes' \in [Tokens -> Providers \cup {NoRoute}]
    BY <1>12 DEF Unregister, TypeInv, StoresOK
  <2>2. sw' \in Switches /\ PathOK'
    BY <1>0, <1>12 DEF Unregister, Switches, Steps, PathOK, Restoring
  <2> QED BY <1>12, <1>a, <2>1, <2>2 DEF Unregister, TypeInv, SwitchOK, StoresOK, FilesOK, CountsOK
<1>13. CASE RetireToken
  <2>1. HasToken(sw.previous) /\ sw.previous \in Bindings \cup {Unbound}
    BY <1>0, <1>13 DEF RetireToken, PathOK, Switches
  <2>2. sw.previous.rev \in 1 .. MaxRev
    BY <1>0, <2>1, TokenType DEF TypeInv
  <2>3. StoresOK' /\ CountsOK'
    BY <1>0, <1>13, <2>2, SecretDeleted DEF RetireToken
  <2>4. sw' \in Switches /\ PathOK'
    BY <1>0, <1>13 DEF RetireToken, Switches, Steps, PathOK, Restoring
  <2> QED BY <1>13, <1>a, <2>3, <2>4 DEF RetireToken, TypeInv, SwitchOK, FilesOK
<1>14. CASE Return
  BY <1>14, <1>a DEF Return, TypeInv, SwitchOK, StoresOK, FilesOK, CountsOK, PathOK
<1>b. CASE RouteLeft
  <2>1. sw' \in Switches /\ PathOK'
    BY <1>0, <1>b DEF RouteLeft, Switches, Steps, PathOK, Restoring
  <2>2. CountsOK'
    BY <1>b, HappensOK DEF RouteLeft, Fault, TypeInv
  <2> QED BY <1>b, <1>a, <2>1, <2>2 DEF RouteLeft, TypeInv, SwitchOK, StoresOK, FilesOK
<1>c. ASSUME NEW lost \in SUBSET Files, TurnBack(lost),
             sw.pc \in {"token", "write", "companion", "verify", "remember", "select", "save"}
      PROVE  sw' \in Switches /\ PathOK'
  <2>1. Undone(Kind[sw.agent], sw.pc) \subseteq Undoable
    BY <1>0, <1>c, KindAssumption, UndoneType
  <2>2. companion[sw.agent] \in Settings /\ sw.companion \in Settings
    BY <1>0 DEF TypeInv, FilesOK, Switches
  <2> DEFINE beside == IF sw.pc \in {"companion", "select"} THEN companion[sw.agent] ELSE sw.companion
             undo == Undone(Kind[sw.agent], sw.pc)
  <2>3. beside \in Settings
    BY <2>2
  <2>4. sw' = [sw EXCEPT !.pc = "undo", !.undo = undo, !.lost = lost, !.companion = beside]
    BY <1>c DEF TurnBack
  <2> HIDE DEF beside, undo
  <2>5. undo \in SUBSET Undoable
    BY <2>1 DEF undo
  <2> QED BY <1>0, <1>c, <2>3, <2>4, <2>5 DEF Switches, Steps, PathOK, Restoring
<1>15. CASE StepFails
  <2>1. sw' \in Switches /\ PathOK'
    BY <1>15, <1>c DEF StepFails
  <2>2. CountsOK'
    BY <1>15, HappensOK DEF StepFails, Fault, TypeInv
  <2> QED BY <1>15, <1>a, <2>1, <2>2 DEF StepFails, TypeInv, SwitchOK, StoresOK, FilesOK
<1>f. CASE WriteFailsLate
  <2>1. sw' \in Switches /\ PathOK'
    BY <1>f, <1>c DEF WriteFailsLate, Files
  <2>2. file' \in [Agents -> Settings]
    BY <1>0, <1>f DEF WriteFailsLate, TypeInv, FilesOK, Switches
  <2>3. CountsOK'
    BY <1>f, HappensOK DEF WriteFailsLate, Fault, TypeInv
  <2> QED BY <1>f, <1>a, <2>1, <2>2, <2>3 DEF WriteFailsLate, TypeInv, SwitchOK, StoresOK, FilesOK
<1>g. CASE RememberFailsHalfway
  <2>1. sw' \in Switches /\ PathOK'
    BY <1>g, <1>c DEF RememberFailsHalfway, Files
  <2>2. memory' \in [Agents -> Settings \cup {Forgotten}]
    BY <1>0, <1>g DEF RememberFailsHalfway, TypeInv, StoresOK, FilesOK
  <2>3. CountsOK'
    BY <1>g, HappensOK DEF RememberFailsHalfway, Fault, TypeInv
  <2> QED BY <1>g, <1>a, <2>1, <2>2, <2>3 DEF RememberFailsHalfway, TypeInv, SwitchOK, StoresOK, FilesOK
<1>h. CASE SelectFailsHalfway
  <2>1. sw' \in Switches /\ PathOK'
    BY <1>h, <1>c DEF SelectFailsHalfway
  <2>2. PICK half : /\ half = IF Restoring THEN Original(sw.agent) ELSE Shown(sw.agent, sw.want)
                    /\ companion' = [companion EXCEPT ![sw.agent] = half]
    BY <1>h DEF SelectFailsHalfway
  <2>3. Original(sw.agent) \in Settings
    BY <1>0, OriginalType DEF TypeInv
  <2>4. sw.want \in Settings /\ Shown(sw.agent, sw.want) \in Settings
    BY <1>0 DEF Shown, Settings, Switches
  <2>5. companion' \in [Agents -> Settings]
    BY <2>2, <2>3, <2>4 DEF TypeInv, FilesOK
  <2>6. CountsOK'
    BY <1>h, HappensOK DEF SelectFailsHalfway, Fault, TypeInv
  <2> QED BY <1>h, <1>a, <2>1, <2>5, <2>6 DEF SelectFailsHalfway, TypeInv, SwitchOK, StoresOK, FilesOK
<1>16. ASSUME NEW what, PutBack(what), sw.pc = "undo"
       PROVE  sw' \in Switches /\ PathOK'
  BY <1>0, <1>16 DEF PutBack, Switches, Steps, PathOK, Restoring
<1>i. ASSUME NEW what \in SUBSET Files, NotPutBack(what), sw.pc = "undo"
      PROVE  sw' \in Switches /\ PathOK'
  BY <1>0, <1>i DEF NotPutBack, Switches, Steps, PathOK, Restoring
<1>17. CASE UndoFile
  <2>1. file' \in [Agents -> Settings]
    BY <1>0, <1>17 DEF UndoFile, Switches, TypeInv, FilesOK
  <2> QED BY <1>16, <1>17, <1>a, <2>1 DEF UndoFile, Undo, TypeInv, SwitchOK, StoresOK, FilesOK, CountsOK
<1>18. CASE UndoCompanion
  <2>1. companion' \in [Agents -> Settings]
    BY <1>0, <1>18 DEF UndoCompanion, Switches, TypeInv, FilesOK
  <2> QED BY <1>16, <1>18, <1>a, <2>1 DEF UndoCompanion, Undo, TypeInv, SwitchOK, StoresOK, FilesOK, CountsOK
<1>19. CASE UndoMemory
  <2>1. memory' \in [Agents -> Settings \cup {Forgotten}]
    BY <1>19 DEF UndoMemory, TypeInv, StoresOK
  <2> QED BY <1>16, <1>19, <1>a, <2>1 DEF UndoMemory, Undo, TypeInv, SwitchOK, StoresOK, FilesOK, CountsOK
<1>20. CASE UndoToken
  <2>1. StoresOK' /\ CountsOK'
    <3>1. CASE sw.created
      <4>1. sw.rev \in 1 .. MaxRev
        BY <1>0, <3>1, BoundsAssumption DEF PathOK, Switches
      <4> QED BY <1>0, <1>20, <3>1, <4>1, SecretDeleted DEF UndoToken
    <3>2. CASE ~sw.created
      BY <1>20, <3>2 DEF UndoToken, TypeInv, StoresOK, CountsOK
    <3> QED BY <3>1, <3>2
  <2> QED BY <1>16, <1>20, <1>a, <2>1 DEF UndoToken, Undo, TypeInv, SwitchOK, FilesOK
<1>j. CASE FileLeft
  <2>1. sw' \in Switches /\ PathOK'
    BY <1>i, <1>j DEF FileLeft, Undo, Files
  <2>2. CountsOK'
    BY <1>j, HappensOK DEF FileLeft, Fault, TypeInv
  <2> QED BY <1>j, <1>a, <2>1, <2>2 DEF FileLeft, TypeInv, SwitchOK, StoresOK, FilesOK
<1>k. CASE CompanionLeft
  <2>1. PICK what \in SUBSET Files : NotPutBack(what)
    <3>1. PICK also \in {{}, {"memory"}} : NotPutBack(sw.undo \cap ({"companion"} \cup also))
      BY <1>k DEF CompanionLeft
    <3>2. sw.undo \cap ({"companion"} \cup also) \in SUBSET Files
      BY DEF Files
    <3> QED BY <3>1, <3>2
  <2>2. sw' \in Switches /\ PathOK'
    BY <1>i, <1>k, <2>1 DEF CompanionLeft, Undo
  <2>3. CountsOK'
    BY <1>k, HappensOK DEF CompanionLeft, Fault, TypeInv
  <2> QED BY <1>k, <1>a, <2>2, <2>3 DEF CompanionLeft, TypeInv, SwitchOK, StoresOK, FilesOK
<1>l. CASE MemoryLeft
  <2>1. sw' \in Switches /\ PathOK'
    BY <1>i, <1>l DEF MemoryLeft, Undo, Files
  <2>2. CountsOK'
    BY <1>l, HappensOK DEF MemoryLeft, Fault, TypeInv
  <2> QED BY <1>l, <1>a, <2>1, <2>2 DEF MemoryLeft, TypeInv, SwitchOK, StoresOK, FilesOK
<1>21. CASE Failed
  <2>1. sw' \in Switches /\ PathOK'
    BY <1>0, <1>21 DEF Failed, Switches, Steps, PathOK, Restoring
  <2> QED BY <1>21, <1>a, <2>1 DEF Failed, TypeInv, SwitchOK, StoresOK, FilesOK, CountsOK
<1> QED
  BY <1>1, <1>2, <1>4, <1>5, <1>6, <1>7, <1>8, <1>9, <1>10, <1>11, <1>12, <1>13, <1>14, <1>15,
     <1>17, <1>18, <1>19, <1>20, <1>21, <1>b, <1>d, <1>e, <1>f, <1>g, <1>h, <1>j, <1>k, <1>l
  DEF SwitchStep, WriteBeside, Select

-----------------------------------------------------------------------------
(* Types: calls, deletions, the loading of the routes, restarts *)

LEMMA BeginOK ==
  ASSUME TypeInv, NEW a \in Agents, NEW want \in Settings, NEW proxy \in BOOLEAN,
         want = Native => ~proxy, Begin(a, want, proxy)
  PROVE  TypeInv'
<1>1. /\ file[a] \in Settings /\ companion[a] \in Settings
      /\ memory[a] \in Settings \cup {Forgotten} /\ binding[a] \in Bindings \cup {Unbound}
      /\ routes \in [Tokens -> Providers \cup {NoRoute}]
  BY DEF TypeInv, StoresOK, FilesOK
<1>2. TokenOf(a) \in Tokens \cup {NoToken}
  BY <1>1, TokenType DEF TypeInv
<1>3. [file |-> file[a], companion |-> companion[a], memory |-> memory[a],
       binding |-> binding[a], token |-> TokenOf(a), routes |-> routes] \in Found
  BY <1>1, <1>2 DEF Found
<1>4. Native \in Settings /\ 0 \in 0 .. MaxRev
  BY BoundsAssumption DEF Settings
<1>5. Call(a, want, proxy) \in Switches
  BY <1>1, <1>3, <1>4 DEF Call, Switches, Steps
<1>6. sw' = Call(a, want, proxy)
  BY DEF Begin
<1>7. PathOK'
  BY <1>6 DEF PathOK, Restoring, Call
<1>8. SwitchOK'
  BY <1>5, <1>6 DEF SwitchOK
<1>9. CountsOK'
  BY HappensOK DEF Begin, Overlapping, TypeInv
<1> QED BY <1>7, <1>8, <1>9 DEF Begin, TypeInv, StoresOK, FilesOK, DeletionOK, BootOK, database, disk

LEMMA BeginDeleteOK ==
  ASSUME TypeInv, NEW p \in Providers, BeginDelete(p)
  PROVE  TypeInv'
<1>1. del' \in Deletions
  BY DEF BeginDelete, Deletions, BoundTo
<1>2. CountsOK'
  BY HappensOK DEF BeginDelete, TypeInv
<1> QED
  BY <1>1, <1>2 DEF BeginDelete, TypeInv, StoresOK, FilesOK, SwitchOK, PathOK, Restoring,
                    DeletionOK, BootOK, database, disk

LEMMA DeleteStepOK ==
  ASSUME TypeInv, DeleteStep
  PROVE  TypeInv'
<1>0. del \in Deletions
  BY InDeletion DEF DeleteStep, DeleteRows, DeleteSecrets, Deleted, RestoreFile, RestoreSkipped, RestoreRest
<1>a. SwitchOK' /\ PathOK' /\ BootOK'
  BY DEF TypeInv, SwitchOK, PathOK, Restoring, BootOK, DeleteStep, DeleteRows, DeleteSecrets, Deleted,
         RestoreFile, RestoreSkipped, RestoreRest
<1> USE DEF database, disk, history
<1>1. CASE DeleteRows
  <2>1. StoresOK'
    BY <1>1 DEF DeleteRows, TypeInv, StoresOK
  <2> DEFINE refs == {<<a, binding[a].rev>> : a \in {b \in BoundTo(del.provider) : HasToken(binding[b])}}
  <2>2. refs \subseteq Agents \X (1 .. MaxRev)
    <3> SUFFICES ASSUME NEW a \in BoundTo(del.provider), HasToken(binding[a])
                 PROVE  <<a, binding[a].rev>> \in Agents \X (1 .. MaxRev)
      OBVIOUS
    <3>1. a \in Agents /\ binding[a] \in Bindings \cup {Unbound}
      BY DEF BoundTo, TypeInv, StoresOK
    <3>2. binding[a].rev \in 1 .. MaxRev
      BY <3>1, TokenType DEF TypeInv
    <3> QED BY <3>1, <3>2
  <2>3. del' = [del EXCEPT !.pc = "secrets", !.tokens = refs]
    BY <1>1 DEF DeleteRows
  <2> HIDE DEF refs
  <2>4. del' \in Deletions
    BY <1>0, <2>2, <2>3 DEF Deletions
  <2> QED BY <1>1, <1>a, <2>1, <2>4 DEF DeleteRows, TypeInv, FilesOK, DeletionOK, CountsOK
<1>2. CASE DeleteSecrets
  <2>1. ASSUME NEW x \in del.tokens, DeleteSecret(x[1], x[2])
        PROVE  StoresOK' /\ CountsOK'
    <3>1. x[1] \in Agents /\ x[2] \in 1 .. MaxRev
      BY <1>0 DEF Deletions
    <3> QED BY <1>2, <2>1, <3>1, SecretDeleted DEF DeleteSecrets
  <2>2. StoresOK' /\ CountsOK'
    BY <1>2, <2>1 DEF DeleteSecrets, TypeInv, StoresOK, CountsOK
  <2>3. del' \in Deletions
    BY <1>0, <1>2 DEF DeleteSecrets, Deletions
  <2> QED BY <1>2, <1>a, <2>2, <2>3 DEF DeleteSecrets, TypeInv, FilesOK, DeletionOK
<1>3. CASE Deleted
  BY <1>3, <1>a DEF Deleted, TypeInv, StoresOK, FilesOK, DeletionOK, CountsOK
<1>4. ASSUME NEW a \in Agents, RestoreFile(a)
      PROVE  TypeInv'
  <2>1. file' \in [Agents -> Settings]
    BY <1>4 DEF RestoreFile, TypeInv, FilesOK, Settings
  <2>2. del' \in Deletions
    BY <1>0, <1>4 DEF RestoreFile, Deletions
  <2> QED BY <1>4, <1>a, <2>1, <2>2 DEF RestoreFile, TypeInv, StoresOK, FilesOK, DeletionOK, CountsOK
<1>5. ASSUME NEW a \in Agents, RestoreSkipped(a)
      PROVE  TypeInv'
  <2>1. CountsOK'
    BY <1>5, HappensOK DEF RestoreSkipped, Fault, TypeInv
  <2>2. del' \in Deletions
    BY <1>0, <1>5 DEF RestoreSkipped, Deletions
  <2>3. file' \in [Agents -> Settings]
    BY <1>5 DEF RestoreSkipped, TypeInv, FilesOK, Settings
  <2> QED BY <1>5, <1>a, <2>1, <2>2, <2>3 DEF RestoreSkipped, TypeInv, StoresOK, FilesOK, DeletionOK
<1>6. ASSUME NEW a \in Agents, RestoreRest(a)
      PROVE  TypeInv'
  <2>1. Original(a) \in Settings
    BY OriginalType DEF TypeInv
  <2>2. companion' \in [Agents -> Settings]
    BY <1>6, <2>1 DEF RestoreRest, TypeInv, FilesOK
  <2>3. CountsOK'
    BY <1>6, HappensOK DEF RestoreRest, Fault, TypeInv
  <2>4. del' \in Deletions
    BY <1>0, <1>6 DEF RestoreRest, Deletions
  <2>5. StoresOK'
    BY <1>6 DEF RestoreRest, TypeInv, StoresOK
  <2> QED BY <1>6, <1>a, <2>2, <2>3, <2>4, <2>5 DEF RestoreRest, TypeInv, FilesOK, DeletionOK
<1> QED BY <1>1, <1>2, <1>3, <1>4, <1>5, <1>6 DEF DeleteStep

\* Restoring the routes.
LEMMA BootStepOK ==
  ASSUME TypeInv, LoadRoutes \/ RestoreRoute \/ RoutePassedOver \/ RoutesRestored
  PROVE  TypeInv'
<1>a. /\ SwitchOK' /\ PathOK' /\ DeletionOK' /\ FilesOK'
  BY DEF TypeInv, SwitchOK, PathOK, Restoring, DeletionOK, FilesOK, disk,
         LoadRoutes, RestoreRoute, RoutePassedOver, RoutesRestored
<1>b. CountsOK'
  BY HappensOK DEF TypeInv, history, Fault, LoadRoutes, RestoreRoute, RoutePassedOver, RoutesRestored
<1> USE DEF database
<1>1. CASE LoadRoutes
  <2>1. \A b \in Agents : HasToken(binding[b]) => binding[b] \in Bindings
    BY DEF HasToken, TypeInv, StoresOK
  <2>2. BootOK'
    BY <1>1, <2>1 DEF LoadRoutes, BootOK
  <2> QED BY <1>1, <1>a, <1>b, <2>2 DEF LoadRoutes, TypeInv, StoresOK
<1>2. CASE RestoreRoute
  <2>1. PICK x \in boot.todo :
          LET t == Token(x[1], x[2]) IN
          /\ boot' = [boot EXCEPT !.todo = @ \ {x}]
          /\ routes' = IF t # NoToken /\ x[2].provider \in providers
                         THEN [routes EXCEPT ![t] = x[2].provider] ELSE routes
    BY <1>2 DEF RestoreRoute
  <2>2. x[2].provider \in providers => x[2].provider \in Providers
    BY DEF TypeInv, StoresOK
  <2>3. routes' \in [Tokens -> Providers \cup {NoRoute}]
    BY <2>1, <2>2 DEF TypeInv, StoresOK
  <2>4. BootOK'
    BY <2>1 DEF TypeInv, BootOK
  <2> QED BY <1>2, <1>a, <1>b, <2>3, <2>4 DEF RestoreRoute, TypeInv, StoresOK
<1>3. CASE RoutesRestored
  BY <1>3, <1>a, <1>b DEF RoutesRestored, TypeInv, StoresOK, BootOK
<1>4. CASE RoutePassedOver
  BY <1>4, <1>a, <1>b DEF RoutePassedOver, TypeInv, StoresOK, BootOK
<1> QED BY <1>1, <1>2, <1>3, <1>4

LEMMA RestartOK ==
  ASSUME TypeInv, Restart
  PROVE  TypeInv'
<1>1. CountsOK'
  BY HappensOK DEF Restart, TypeInv
<1>2. SwitchOK' /\ PathOK' /\ DeletionOK' /\ BootOK'
  BY DEF Restart, SwitchOK, PathOK, DeletionOK, BootOK
<1> QED BY <1>1, <1>2 DEF Restart, TypeInv, StoresOK, FilesOK, database, disk

LEMMA TypeInvStep ==
  ASSUME TypeInv, [Next]_vars
  PROVE  TypeInv'
<1>1. ASSUME NEW a \in Agents, NEW p \in Providers, NEW proxy \in BOOLEAN, BeginSwitch(a, p, proxy)
      PROVE  TypeInv'
  <2>1. [provider |-> p, token |-> NoToken] \in Settings \ {Native}
    BY NullsAssumption DEF Settings
  <2> QED BY <1>1, <2>1, BeginOK DEF BeginSwitch
<1>2. ASSUME NEW a \in Agents, BeginRestore(a)
      PROVE  TypeInv'
  <2>1. Native \in Settings
    BY DEF Settings
  <2> QED BY <1>2, <2>1, BeginOK DEF BeginRestore
<1>3. CASE UNCHANGED vars
  BY <1>3 DEF vars, TypeInv, StoresOK, FilesOK, SwitchOK, DeletionOK, BootOK, CountsOK, PathOK, Restoring
<1> QED
  BY <1>1, <1>2, <1>3, BeginDeleteOK, SwitchStepOK, DeleteStepOK, BootStepOK, RestartOK DEF Next

\* What may be left behind at a step.
LeftAt(agents, tokens) ==
  \/ UNCHANGED amiss
  \/ \E a \in agents : Left("file", a) \/ Left("selection", a) \/ Left("route", a)
                       \/ Mended("file", a) \/ Mended("route", a)
  \/ \E t \in tokens : Left("token", t)
  \/ amiss' = [amiss EXCEPT !.route = {}, !.token = {}]

LEMMA WhatIsLeft ==
  ASSUME TypeInv, [Next]_vars
  PROVE  LeftAt(Agents, Tokens)
<1> USE DEF history
<1>1. CASE SwitchStep
  <2>0. sw.agent \in Agents /\ sw.previous \in Bindings \cup {Unbound}
    BY <1>1, InSwitch DEF Switches, SwitchStep, UseDirectKey, ReuseToken, CreateToken, ReplaceToken, NewToken, WriteFile,
       WriteBeside, WriteCompanion, Verified,
       Remember, Select, RestoreSelection, SaveBinding, ForgetBinding, RegisterRoute, Unregister, RouteLeft,
       RetireToken, Return, StepFails, WriteFailsLate, RememberFailsHalfway, SelectFailsHalfway,
       Undo, UndoFile, FileLeft, UndoCompanion, CompanionLeft, UndoMemory, MemoryLeft, UndoToken, Failed
  <2>1. CASE ReplaceToken
    <3>1. HasToken(binding[sw.agent]) /\ Token(sw.agent, binding[sw.agent]) # NoToken
      BY <2>1 DEF ReplaceToken, Reusable
    <3>2. TokenOf(sw.agent) \in Tokens
      BY <2>0, <3>1, TokenType DEF TypeInv, TokenOf
    <3> QED BY <2>1, <3>2 DEF ReplaceToken, LeftAt
  <2>2. CASE RouteLeft
    <3>1. Token(sw.agent, sw.previous) \in Tokens
      BY <2>0, <2>2, TokenType DEF RouteLeft, TypeInv
    <3> QED BY <2>2, <3>1 DEF RouteLeft, LeftAt
  <2>3. CASE ~ReplaceToken /\ ~RouteLeft
    BY <1>1, <2>0, <2>3 DEF LeftAt, SwitchStep, UseDirectKey, ReuseToken, CreateToken, WriteFile,
       WriteBeside, WriteCompanion, Verified,
       Remember, Select, RestoreSelection, SaveBinding, ForgetBinding, RegisterRoute, Unregister,
       RetireToken, Return, StepFails, WriteFailsLate, RememberFailsHalfway, SelectFailsHalfway,
       UndoFile, FileLeft, UndoCompanion, CompanionLeft, UndoMemory, MemoryLeft, UndoToken, Failed
  <2> QED BY <2>1, <2>2, <2>3
<1>2. CASE DeleteStep
  BY <1>2 DEF LeftAt, DeleteStep, DeleteRows, DeleteSecrets, Deleted, RestoreFile, RestoreSkipped, RestoreRest
<1>3. CASE RoutePassedOver
  <2>1. PICK x \in boot.todo : Left("route", x[1])
    BY <1>3 DEF RoutePassedOver
  <2>2. x[1] \in Agents
    BY DEF TypeInv, BootOK
  <2> QED BY <2>1, <2>2 DEF LeftAt
<1>4. CASE LoadRoutes \/ RestoreRoute \/ RoutesRestored \/ Restart \/ UNCHANGED vars
  BY <1>4 DEF LeftAt, LoadRoutes, RestoreRoute, RoutesRestored, Restart, vars
<1>5. CASE \E a \in Agents : \E want, proxy : Begin(a, want, proxy)
  BY <1>5 DEF LeftAt, Begin
<1>6. CASE \E p \in Providers : BeginDelete(p)
  BY <1>6 DEF LeftAt, BeginDelete
<1> QED BY <1>1, <1>2, <1>3, <1>4, <1>5, <1>6 DEF Next, BeginSwitch, BeginRestore

LEMMA AmissStep ==
  ASSUME TypeInv, AmissOK, [Next]_vars
  PROVE  AmissOK'
<1>1. CASE UNCHANGED amiss
  BY <1>1 DEF AmissOK
<1>2. ASSUME NEW a \in Agents,
             Left("file", a) \/ Left("selection", a) \/ Left("route", a) \/ Mended("file", a) \/ Mended("route", a)
      PROVE  AmissOK'
  BY <1>2 DEF Left, Mended, AmissOK
<1>3. ASSUME NEW t \in Tokens, Left("token", t)
      PROVE  AmissOK'
  BY <1>3 DEF Left, AmissOK
<1>4. CASE amiss' = [amiss EXCEPT !.route = {}, !.token = {}]
  BY <1>4 DEF AmissOK
<1> QED BY <1>1, <1>2, <1>3, <1>4, WhatIsLeft DEF LeftAt

\* Whatever is switched, deleted, undone and restarted, every store of the
\* program holds what its readers expect there.
THEOREM SwitchTypeCorrect == Spec => []TypeOK
<1>1. TypeInv /\ AmissOK /\ [Next]_vars => TypeInv' /\ AmissOK'
  BY TypeInvStep, AmissStep
<1> QED BY TypeInit, <1>1, TypeInvIsTypeOK, PTL DEF Spec

-----------------------------------------------------------------------------
(* Bindings and the rows they refer to *)

\* The committed binding of a switch wants the row of its provider (the
\* foreign key), and the transaction that deletes the row unbinds its agents.
LEMMA BoundStep ==
  ASSUME TypeInv, BoundProvidersExist, [Next]_vars
  PROVE  BoundProvidersExist'
<1>0. binding \in [Agents -> Bindings \cup {Unbound}]
  BY DEF TypeInv, StoresOK
<1>1. CASE SaveBinding
  <2>1. /\ sw.want.provider \in providers /\ providers' = providers
        /\ binding' = [binding EXCEPT ![sw.agent] = [provider |-> sw.want.provider, rev |-> sw.rev]]
    BY <1>1 DEF SaveBinding
  <2> QED BY <1>0, <2>1 DEF BoundProvidersExist
<1>2. CASE ForgetBinding
  BY <1>0, <1>2 DEF ForgetBinding, BoundProvidersExist
<1>3. CASE DeleteRows
  <2>1. /\ providers' = providers \ {del.provider}
        /\ binding' = [a \in Agents |-> IF a \in BoundTo(del.provider) THEN Unbound ELSE binding[a]]
    BY <1>3 DEF DeleteRows
  <2> QED BY <2>1 DEF BoundProvidersExist, BoundTo
<1>4. CASE UNCHANGED <<providers, binding>>
  BY <1>4 DEF BoundProvidersExist
<1>5. SaveBinding \/ ForgetBinding \/ DeleteRows \/ UNCHANGED <<providers, binding>>
  <2> USE DEF database, history
  <2>1. CASE SwitchStep
    BY <2>1 DEF SwitchStep, UseDirectKey, ReuseToken, CreateToken, ReplaceToken, NewToken, WriteFile, WriteBeside, WriteCompanion, Verified,
       Remember, Select, RestoreSelection, RegisterRoute, Unregister, RouteLeft,
       RetireToken, Return, StepFails, WriteFailsLate, RememberFailsHalfway, SelectFailsHalfway, TurnBack,
       PutBack, NotPutBack, UndoFile, FileLeft, UndoCompanion, CompanionLeft, UndoMemory, MemoryLeft, UndoToken, Failed
  <2>2. CASE DeleteStep
    BY <2>2 DEF DeleteStep, DeleteSecrets, Deleted, RestoreFile, RestoreSkipped, RestoreRest
  <2>3. CASE LoadRoutes \/ RestoreRoute \/ RoutePassedOver \/ RoutesRestored \/ Restart \/ UNCHANGED vars
    BY <2>3 DEF LoadRoutes, RestoreRoute, RoutePassedOver, RoutesRestored, Restart, vars
  <2> QED BY <2>1, <2>2, <2>3 DEF Next, BeginSwitch, BeginRestore, Begin, BeginDelete
<1> QED BY <1>1, <1>2, <1>3, <1>4, <1>5

\* No agent is bound to a provider that is gone, however a deletion and a
\* switch to the same provider interleave (BoundProvidersExist).
THEOREM BoundToExisting == Spec => []BoundProvidersExist
<1>1. Init => BoundProvidersExist
  BY DEF Init, BoundProvidersExist
<1>2. TypeInv /\ BoundProvidersExist /\ [Next]_vars => TypeInv' /\ BoundProvidersExist'
  BY TypeInvStep, BoundStep
<1> QED BY TypeInit, <1>1, <1>2, PTL DEF Spec

-----------------------------------------------------------------------------
(* The restore after a deletion *)

\* As long as nothing overlaps, a deletion finds the agents it looked up
\* first still bound when it deletes the rows, and unbound from then on.
DeletionInv ==
  InTurn =>
    /\ sw.pc = "idle" \/ del.pc = "idle"
    /\ del.pc = "rows" => del.affected = BoundTo(del.provider)
    /\ del.pc \in {"secrets", "files", "selection"} => \A a \in del.affected : binding[a] = Unbound

\* The kinds of mishap that one step can be.
LEMMA WhatHappens ==
  ASSUME [Next]_vars
  PROVE  \/ UNCHANGED happened
         \/ \E kinds \in {{"overlap"}, {"delete"}, {"delete", "overlap"}, {"fault"}, {"crash"}} : Happens(kinds)
<1> USE DEF history
<1>1. CASE SwitchStep
  BY <1>1 DEF SwitchStep, UseDirectKey, ReuseToken, CreateToken, ReplaceToken, NewToken, WriteFile, WriteBeside, WriteCompanion, Verified,
     Remember, Select, RestoreSelection, SaveBinding, ForgetBinding, RegisterRoute, Unregister, RouteLeft,
     RetireToken, Return, StepFails, WriteFailsLate, RememberFailsHalfway, SelectFailsHalfway, TurnBack,
       PutBack, NotPutBack, UndoFile, FileLeft, UndoCompanion, CompanionLeft, UndoMemory, MemoryLeft, UndoToken, DeleteSecret, Fault, Failed
<1>2. CASE DeleteStep
  BY <1>2 DEF DeleteStep, DeleteRows, DeleteSecrets, DeleteSecret, Deleted, RestoreFile, RestoreSkipped, RestoreRest, Fault
<1>3. CASE LoadRoutes \/ RestoreRoute \/ RoutePassedOver \/ RoutesRestored \/ Restart \/ UNCHANGED vars
  BY <1>3 DEF LoadRoutes, RestoreRoute, RoutePassedOver, RoutesRestored, Restart, Fault, vars
<1>4. ASSUME NEW p \in Providers, BeginDelete(p)
      PROVE  Happens({"delete"}) \/ Happens({"delete", "overlap"})
  <2>1. {"delete"} \cup {} = {"delete"} /\ {"delete"} \cup {"overlap"} = {"delete", "overlap"}
    OBVIOUS
  <2> QED BY <1>4, <2>1 DEF BeginDelete
<1>5. ASSUME NEW a \in Agents, NEW want, NEW proxy, Begin(a, want, proxy)
      PROVE  UNCHANGED happened \/ Happens({"overlap"})
  BY <1>5 DEF Begin, Overlapping
<1> QED BY <1>1, <1>2, <1>3, <1>4, <1>5 DEF Next, BeginSwitch, BeginRestore

\* A count only grows.
LEMMA OverlapStays ==
  ASSUME TypeInv, [Next]_vars, InTurn'
  PROVE  InTurn
<1>0. happened \in [fault : Nat, delete : Nat, crash : Nat, overlap : Nat]
  BY DEF TypeInv, CountsOK
<1>1. ASSUME NEW kinds, Happens(kinds)
      PROVE  InTurn /\ "overlap" \notin kinds
  <2>1. happened'.overlap = IF "overlap" \in kinds THEN happened.overlap + 1 ELSE happened.overlap
    BY <1>0, <1>1 DEF Happens
  <2>2. happened'.overlap = 0
    BY DEF InTurn
  <2> QED BY <1>0, <2>1, <2>2 DEF InTurn
<1>2. CASE UNCHANGED happened
  BY <1>2 DEF InTurn
<1> QED BY <1>1, <1>2, WhatHappens

\* A deletion or a call that begins beside the other is an overlap.
LEMMA BeginsAlone ==
  ASSUME TypeInv, InTurn'
  PROVE  /\ \A a \in Agents : \A want, proxy : Begin(a, want, proxy) => del.pc = "idle"
         /\ \A p \in Providers : BeginDelete(p) => sw.pc = "idle"
<1>1. ASSUME NEW kinds, "overlap" \in kinds
      PROVE  ~Happens(kinds)
  <2> SUFFICES ASSUME Happens(kinds) PROVE FALSE
    OBVIOUS
  <2>1. happened \in [fault : Nat, delete : Nat, crash : Nat, overlap : Nat]
    BY DEF TypeInv, CountsOK
  <2>2. happened'.overlap = happened.overlap + 1
    BY <1>1, <2>1 DEF Happens
  <2> QED BY <2>1, <2>2 DEF InTurn
<1> QED BY <1>1 DEF Begin, Overlapping, BeginDelete

LEMMA DeletionStep ==
  ASSUME TypeInv, DeletionInv, [Next]_vars
  PROVE  DeletionInv'
<1> SUFFICES ASSUME InTurn' PROVE DeletionInv'
  BY DEF DeletionInv
<1>0. /\ sw.pc = "idle" \/ del.pc = "idle"
      /\ del.pc = "rows" => del.affected = BoundTo(del.provider)
      /\ del.pc \in {"secrets", "files", "selection"} => \A a \in del.affected : binding[a] = Unbound
  BY OverlapStays DEF DeletionInv
<1>1. CASE SwitchStep
  <2>1. sw.pc # "idle"
    BY <1>1 DEF SwitchStep, UseDirectKey, ReuseToken, CreateToken, ReplaceToken, NewToken, WriteFile, WriteBeside, WriteCompanion, Verified,
       Remember, Select, RestoreSelection, SaveBinding, ForgetBinding, RegisterRoute, Unregister, RouteLeft,
       RetireToken, Return, StepFails, WriteFailsLate, RememberFailsHalfway, SelectFailsHalfway, TurnBack,
       PutBack, NotPutBack, Undo, UndoFile, FileLeft, UndoCompanion, CompanionLeft, UndoMemory, MemoryLeft, UndoToken, Failed
  <2>2. del' = del
    BY <1>1 DEF SwitchStep, UseDirectKey, ReuseToken, CreateToken, ReplaceToken, NewToken, WriteFile, WriteBeside, WriteCompanion, Verified,
       Remember, Select, RestoreSelection, SaveBinding, ForgetBinding, RegisterRoute, Unregister, RouteLeft,
       RetireToken, Return, StepFails, WriteFailsLate, RememberFailsHalfway, SelectFailsHalfway, TurnBack,
       PutBack, NotPutBack, UndoFile, FileLeft, UndoCompanion, CompanionLeft, UndoMemory, MemoryLeft, UndoToken, Failed
  <2> QED BY <1>0, <2>1, <2>2 DEF DeletionInv
<1>2. CASE DeleteStep
  <2>0. del \in Deletions /\ sw.pc = "idle" /\ sw' = sw
    BY <1>0, <1>2, InDeletion DEF DeleteStep, DeleteRows, DeleteSecrets, Deleted, RestoreFile, RestoreSkipped,
                                  RestoreRest, Deletions
  <2>1. CASE DeleteRows
    <3>1. del.pc = "rows" /\ del'.pc = "secrets" /\ del'.affected = del.affected
      BY <2>0, <2>1 DEF DeleteRows, Deletions
    <3>2. \A a \in BoundTo(del.provider) : binding'[a] = Unbound
      BY <2>1 DEF DeleteRows, BoundTo
    <3> QED BY <1>0, <2>0, <3>1, <3>2 DEF DeletionInv
  <2>2. CASE DeleteSecrets
    <3>1. del.pc = "secrets" /\ del'.pc \in {"secrets", "files"} /\ del'.affected = del.affected
          /\ binding' = binding
      BY <2>0, <2>2 DEF DeleteSecrets, Deletions, database
    <3> QED BY <1>0, <2>0, <3>1 DEF DeletionInv
  <2>3. CASE Deleted
    BY <2>0, <2>3 DEF Deleted, Idle, DeletionInv
  <2>4. ASSUME NEW a \in Agents, RestoreFile(a) \/ RestoreSkipped(a) \/ RestoreRest(a)
        PROVE  DeletionInv'
    <3>1. del.pc \in {"files", "selection"} /\ del'.pc \in {"files", "selection"}
          /\ del'.affected \subseteq del.affected /\ binding' = binding
      BY <2>0, <2>4 DEF RestoreFile, RestoreSkipped, RestoreRest, Deletions, database
    <3> QED BY <1>0, <2>0, <3>1 DEF DeletionInv
  <2> QED BY <1>2, <2>1, <2>2, <2>3, <2>4 DEF DeleteStep
<1>3. ASSUME NEW a \in Agents, NEW want, NEW proxy, Begin(a, want, proxy)
      PROVE  DeletionInv'
  <2>1. del.pc = "idle" /\ del' = del
    BY <1>3, BeginsAlone DEF Begin
  <2> QED BY <2>1 DEF DeletionInv
<1>4. ASSUME NEW p \in Providers, BeginDelete(p)
      PROVE  DeletionInv'
  <2>1. sw.pc = "idle" /\ sw' = sw /\ binding' = binding
    BY <1>4, BeginsAlone DEF BeginDelete, database
  <2>2. del'.pc = "rows" /\ del'.provider = p /\ del'.affected = BoundTo(p)
    BY <1>4 DEF BeginDelete
  <2> QED BY <2>1, <2>2 DEF DeletionInv, BoundTo
<1>5. CASE LoadRoutes \/ RestoreRoute \/ RoutePassedOver \/ RoutesRestored \/ UNCHANGED vars
  <2>1. sw' = sw /\ del' = del /\ binding' = binding
    BY <1>5 DEF LoadRoutes, RestoreRoute, RoutePassedOver, RoutesRestored, vars, database
  <2> QED BY <1>0, <2>1 DEF DeletionInv, BoundTo
<1>6. CASE Restart
  BY <1>6 DEF Restart, Idle, DeletionInv
<1> QED BY <1>1, <1>2, <1>3, <1>4, <1>5, <1>6 DEF Next, BeginSwitch, BeginRestore

\* Unless it overlaps a switch, a deletion puts native files only under
\* agents that are bound to nothing (DeletionRestoresUnboundAgents).
THEOREM DeletionOverwritesNoBinding == Spec => DeletionRestoresUnboundAgents
<1>1. Init => DeletionInv
  BY DEF Init, DeletionInv, Idle
<1>2. TypeInv /\ DeletionInv /\ [Next]_vars => TypeInv' /\ DeletionInv'
  BY TypeInvStep, DeletionStep
<1>3. DeletionInv /\ [Next]_vars =>
        [InTurn => \A a \in Agents : RestoreFile(a) => binding[a] = Unbound]_vars
  BY DEF DeletionInv, RestoreFile
<1> QED BY TypeInit, <1>1, <1>2, <1>3, PTL DEF Spec, DeletionRestoresUnboundAgents

-----------------------------------------------------------------------------
(* What a call knows of the agent it changes *)

\* Before and after the binding has been saved.
Before == {"token", "write", "companion", "verify", "remember", "select", "save", "undo", "failed"}
After == {"route", "retire", "done"}

\* Two references never name one token.
SecretsDistinct ==
  \A a, b \in Agents, r, s \in 1 .. MaxRev :
    secret[a][r] = secret[b][s] /\ secret[a][r] # NoToken => a = b /\ r = s

\* A binding's token is stored.
TokensStored == \A a \in Agents : HasToken(binding[a]) => TokenOf(a) # NoToken

\* A call has the token that the binding will name, and a new one only where
\* the binding named none, or one that could not be read.
CallToken ==
  sw.pc # "idle" =>
    /\ ~sw.proxy => sw.rev = 0 /\ (Restoring \/ sw.want.token = NoToken)
    /\ sw.proxy /\ sw.pc \notin {"token", "undo", "failed"} =>
         /\ sw.rev > 0 /\ sw.want.token # NoToken /\ secret[sw.agent][sw.rev] = sw.want.token
         /\ ~sw.created => HasToken(sw.previous) /\ sw.rev = sw.previous.rev
    /\ sw.created /\ HasToken(sw.previous) =>
         sw.rev # sw.previous.rev /\ Token(sw.agent, sw.previous) \in amiss.token
    /\ sw.pc = "retire" => ~sw.proxy

CallBinding ==
  sw.pc # "idle" =>
    /\ sw.previous = sw.found.binding
    /\ sw.pc \in Before => binding[sw.agent] = sw.previous /\ TokenOf(sw.agent) = sw.found.token
    /\ sw.pc \in After =>
         binding[sw.agent] = IF Restoring THEN Unbound ELSE [provider |-> sw.want.provider, rev |-> sw.rev]

\* The secrets that a deletion still has to delete are no binding's.
DeletedTokens == del.pc = "secrets" => \A x \in del.tokens : binding[x[1]] = Unbound

BindingInv ==
  InTurn => TokensStored /\ CallToken /\ CallBinding /\ DeletedTokens

CallFile ==
  sw.pc # "idle" =>
    /\ sw.pc \in {"token", "write"} => file[sw.agent] = sw.found.file
    /\ sw.pc \in {"companion", "verify", "remember", "select", "save"} =>
         file[sw.agent] = sw.want /\ sw.file = sw.found.file
    /\ sw.pc \in {"undo", "failed"} =>
         \/ sw.pc = "undo" /\ "file" \in sw.undo /\ sw.file = sw.found.file
         \/ "file" \notin sw.undo /\ (file[sw.agent] = sw.found.file \/ "file" \in sw.lost)
    /\ "file" \in sw.lost => sw.agent \in amiss.file
    /\ sw.pc \in After => file[sw.agent] = sw.want

FileInv == InTurn => CallFile

\* What the file of a bound agent says.
Says(b, token) == [provider |-> b.provider, token |-> token]

MatchInv ==
  InTurn /\ happened.crash = 0 =>
    /\ \A a \in Agents \ amiss.file :
         binding[a] # Unbound /\ (sw.pc = "idle" \/ a # sw.agent) => file[a] = Says(binding[a], TokenOf(a))
    /\ sw.pc \in Before /\ sw.agent \notin amiss.file /\ sw.found.binding # Unbound =>
         sw.found.file = Says(sw.found.binding, sw.found.token)

\* A memory is taken by a switch of an agent with sessions, and undone with it.
CallMemory ==
  sw.pc # "idle" =>
    /\ sw.remembered => /\ Kind[sw.agent] = "session" /\ ~Restoring
                        /\ sw.pc \notin {"token", "write", "companion", "verify", "remember"}
    /\ sw.pc \in Before =>
         IF sw.remembered /\ sw.pc # "failed" /\ (sw.pc = "undo" => "memory" \in sw.undo)
           THEN sw.found.memory = Forgotten
           ELSE \/ memory[sw.agent] = sw.found.memory
                \/ "memory" \in sw.lost /\ sw.found.memory = Forgotten
    /\ sw.pc = "remember" => Kind[sw.agent] = "session"

CallCompanion ==
  sw.pc # "idle" =>
    /\ sw.pc \in {"token", "write", "companion", "verify", "remember", "select"} =>
         companion[sw.agent] = sw.found.companion
    /\ sw.pc = "save" => IF Kind[sw.agent] = "session"
                           THEN sw.companion = sw.found.companion
                           ELSE companion[sw.agent] = sw.found.companion
    /\ sw.pc \in {"undo", "failed"} =>
         \/ sw.pc = "undo" /\ "companion" \in sw.undo /\ sw.companion = sw.found.companion
         \/ /\ "companion" \notin sw.undo
            /\ companion[sw.agent] = sw.found.companion \/ "companion" \in sw.lost

MemoryInv == InTurn => CallMemory
CompanionInv == InTurn => CallCompanion

\* Agents with at most one layer beside the file, which a failure undoes.
OneLayer == \A a \in Agents : Kind[a] \in {"plain", "session"}

\* What is remembered, and what must not be forgotten.
NativeFound(kind, remembered, beside) ==
  /\ remembered \in {Native, Forgotten}
  /\ remembered = Forgotten \/ kind = "plain" => beside = Native

NativeInv ==
  InTurn =>
    /\ \A a \in Agents \ amiss.selection : NativeFound(Kind[a], memory[a], companion[a])
    /\ sw.pc # "idle" /\ sw.agent \notin amiss.selection =>
         /\ NativeFound(Kind[sw.agent], sw.found.memory, sw.found.companion)
         /\ sw.pc \in {"save"} \cup After /\ Restoring => companion[sw.agent] = Native
         /\ sw.pc \in After /\ Restoring => memory[sw.agent] = Forgotten
         /\ sw.pc \in {"select", "save"} /\ ~Restoring /\ Kind[sw.agent] = "session" => memory[sw.agent] = Native

\* The window waits for the routes.
BootInv ==
  boot.pc # "done" =>
    /\ sw.pc = "idle" /\ del.pc = "idle"
    /\ boot.pc = "start" => \A t \in Tokens : routes[t] = NoRoute
    /\ \A x \in boot.todo : HasToken(x[2]) /\ x[2] = binding[x[1]]

\* A binding has its route or will have it soon, unless it was passed over.
Served(a) ==
  \/ routes[TokenOf(a)] = binding[a].provider
  \/ boot.pc = "start"
  \/ boot.pc = "loading" /\ <<a, binding[a]>> \in boot.todo
  \/ sw.pc = "route" /\ sw.agent = a
  \/ a \in amiss.route

\* A route has its binding, or is about to be removed or replaced, or stays
\* because its token could not be read.
Owned(t) ==
  \/ \E a \in Agents : HasToken(binding[a]) /\ TokenOf(a) = t /\ routes[t] = binding[a].provider
  \/ sw.pc = "route" /\ HasToken(sw.previous) /\ Token(sw.agent, sw.previous) = t
  \/ t \in amiss.token

RoutesInv ==
  InTurn =>
    /\ BootInv
    /\ \A a \in Agents : HasToken(binding[a]) => Served(a)
    /\ \A t \in Tokens : routes[t] \in providers => Owned(t)
    /\ sw.pc \in Before => routes = sw.found.routes

-----------------------------------------------------------------------------
(* What each step of a call changes *)

Carried == sw'.agent = sw.agent /\ sw'.proxy = sw.proxy /\ sw'.previous = sw.previous /\ sw'.found = sw.found
WantKept == sw'.want = sw.want /\ sw'.rev = sw.rev /\ sw'.created = sw.created
BackupKept == sw'.file = sw.file /\ sw'.companion = sw.companion /\ sw'.remembered = sw.remembered

LEMMA UseDirectKeyDoes ==
  ASSUME TypeInv, UseDirectKey
  PROVE  /\ sw.pc = "token" /\ sw'.pc = "write" /\ ~sw.proxy /\ Carried /\ WantKept /\ BackupKept
         /\ UNCHANGED <<binding, secret, routes, providers, memory, file, companion, del, boot, happened, amiss>>
BY InSwitch DEF UseDirectKey, Switches, Carried, WantKept, BackupKept, database, disk, history

LEMMA ReuseTokenDoes ==
  ASSUME TypeInv, ReuseToken
  PROVE  /\ sw.pc = "token" /\ sw'.pc = "write" /\ sw.proxy /\ Carried /\ BackupKept
         /\ ~sw.created /\ ~sw'.created
         /\ HasToken(binding[sw.agent]) /\ Token(sw.agent, binding[sw.agent]) # NoToken
         /\ sw'.rev = binding[sw.agent].rev /\ sw'.want.token = Token(sw.agent, binding[sw.agent])
         /\ sw.want # Native /\ sw'.want # Native
         /\ UNCHANGED <<binding, secret, routes, providers, memory, file, companion, del, boot, happened, amiss>>
<1>1. sw \in Switches /\ PathOK /\ TypeInv'
  BY InSwitch, SwitchStepOK DEF ReuseToken, SwitchStep
<1>2. sw.pc = "token" /\ sw' = [sw EXCEPT !.pc = "write", !.rev = binding[sw.agent].rev,
                                          !.want.token = Token(sw.agent, binding[sw.agent])]
  BY DEF ReuseToken
<1>3. sw' # Idle /\ sw'.pc = "write" /\ sw'.proxy = sw.proxy
  BY <1>1, <1>2 DEF Switches, Idle
<1>4. sw.want # Native /\ sw'.want # Native /\ ~sw.created
  BY <1>1, <1>2, <1>3 DEF PathOK, TypeInv, Restoring, Idle, ReuseToken
<1>5. sw.want \in Settings \ {Native}
  BY <1>1, <1>4 DEF Switches
<1>6. sw'.want = [sw.want EXCEPT !.token = Token(sw.agent, binding[sw.agent])]
  BY <1>1, <1>2 DEF Switches
<1>7. sw'.want.token = Token(sw.agent, binding[sw.agent])
  BY <1>5, <1>6 DEF Settings
<1> QED
  BY <1>1, <1>2, <1>4, <1>7 DEF ReuseToken, Reusable, Switches, Carried, BackupKept, database, disk, history

LEMMA NewTokenDoes ==
  ASSUME TypeInv, CreateToken \/ ReplaceToken
  PROVE  /\ sw.pc = "token" /\ sw'.pc = "write" /\ sw.proxy /\ Carried /\ BackupKept /\ sw'.created
         /\ sw'.rev = NextRev(sw.agent) /\ sw'.rev \in 1 .. MaxRev
         /\ sw'.want.token \in Tokens \ InUse
         /\ secret' = [secret EXCEPT ![sw.agent][sw'.rev] = sw'.want.token]
         /\ sw.want # Native /\ sw'.want # Native
         /\ UNCHANGED <<binding, routes, providers, memory, file, companion, del, boot>>
         /\ CreateToken => ~Reusable(sw.agent) /\ amiss' = amiss
         /\ ReplaceToken => Reusable(sw.agent) /\ Left("token", TokenOf(sw.agent))
<1>0. NewToken
  BY DEF CreateToken, ReplaceToken
<1>1. sw \in Switches /\ PathOK /\ TypeInv' /\ binding[sw.agent] \in Bindings \cup {Unbound}
  BY InSwitch, SwitchStepOK DEF CreateToken, ReplaceToken, NewToken, SwitchStep, TypeInv, StoresOK
<1>2. PICK t \in Tokens \ InUse :
        /\ secret' = [secret EXCEPT ![sw.agent][NextRev(sw.agent)] = t]
        /\ sw' = [sw EXCEPT !.pc = "write", !.rev = NextRev(sw.agent), !.created = TRUE, !.want.token = t]
  BY <1>0 DEF NewToken
<1>3. /\ sw' # Idle /\ sw'.pc = "write" /\ sw'.rev = NextRev(sw.agent) /\ sw'.created
      /\ sw'.want = [sw.want EXCEPT !.token = t]
  BY <1>1, <1>2 DEF Switches, Idle
<1>4. sw.pc = "token" /\ sw.proxy /\ Carried /\ BackupKept
  BY <1>0, <1>1, <1>2 DEF NewToken, Switches, Carried, BackupKept
<1>5. sw.want # Native /\ sw'.want # Native
  BY <1>1, <1>3, <1>4 DEF PathOK, TypeInv, Restoring, Idle, Carried
<1>6. sw.want \in Settings \ {Native}
  BY <1>1, <1>5 DEF Switches
<1>7. sw'.want.token = t
  BY <1>3, <1>6 DEF Settings
<1>8. NextRev(sw.agent) \in 1 .. MaxRev
  BY <1>0, <1>1, BoundsAssumption DEF NextRev, Bindings, NewToken
<1> QED
  BY <1>0, <1>2, <1>3, <1>4, <1>5, <1>7, <1>8 DEF NewToken, CreateToken, ReplaceToken, database, disk, history

LEMMA WriteFileDoes ==
  ASSUME TypeInv, WriteFile
  PROVE  /\ sw.pc = "write" /\ sw'.pc = IF Restoring THEN "select" ELSE "companion"
         /\ Carried /\ WantKept /\ sw'.remembered = sw.remembered /\ sw'.file = file[sw.agent]
         /\ file' = [file EXCEPT ![sw.agent] = sw.want]
         /\ UNCHANGED <<binding, secret, routes, providers, memory, companion, del, boot, happened, amiss>>
BY InSwitch DEF WriteFile, Switches, Carried, WantKept, database, history

LEMMA WriteCompanionDoes ==
  ASSUME TypeInv, WriteBeside \/ Select
  PROVE  /\ ~Restoring /\ Carried /\ WantKept /\ sw'.remembered = sw.remembered /\ sw'.file = sw.file
         /\ WriteBeside => /\ sw.pc = "companion" /\ sw'.pc = "verify"
                           /\ Kind[sw.agent] \notin {"env", "sidecar"} =>
                                companion' = companion /\ sw'.companion = sw.companion
         /\ Select => /\ sw.pc = "select" /\ sw'.pc = "save"
                      /\ Kind[sw.agent] = "plain" => companion' = companion /\ sw'.companion = sw.companion
                      /\ Kind[sw.agent] = "session" => sw'.companion = companion[sw.agent]
         /\ companion' = companion \/ \E new : companion' = [companion EXCEPT ![sw.agent] = new]
         /\ UNCHANGED <<binding, secret, routes, providers, memory, file, del, boot, happened, amiss>>
<1>1. sw \in Switches
  BY InSwitch DEF WriteBeside, Select, WriteCompanion
<1> QED BY <1>1 DEF WriteBeside, Select, WriteCompanion, Switches, Carried, WantKept, database, history

LEMMA VerifiedDoes ==
  ASSUME TypeInv, Verified
  PROVE  /\ sw.pc = "verify" /\ sw'.pc = IF Kind[sw.agent] = "session" THEN "remember" ELSE "select"
         /\ Carried /\ WantKept /\ BackupKept /\ ~Restoring
         /\ UNCHANGED <<binding, secret, routes, providers, memory, file, companion, del, boot, happened, amiss>>
BY InSwitch DEF Verified, Switches, Carried, WantKept, BackupKept, database, disk, history, PathOK, Restoring

LEMMA RememberDoes ==
  ASSUME TypeInv, Remember
  PROVE  /\ sw.pc = "remember" /\ sw'.pc = "select" /\ ~Restoring
         /\ Carried /\ WantKept /\ sw'.file = sw.file /\ sw'.companion = sw.companion
         /\ sw'.remembered = (memory[sw.agent] = Forgotten)
         /\ memory' = IF memory[sw.agent] = Forgotten
                        THEN [memory EXCEPT ![sw.agent] = companion[sw.agent]] ELSE memory
         /\ UNCHANGED <<binding, secret, routes, providers, file, companion, del, boot, happened, amiss>>
BY InSwitch DEF Remember, Switches, Carried, WantKept, disk, history, PathOK, Restoring

LEMMA RestoreSelectionDoes ==
  ASSUME TypeInv, RestoreSelection
  PROVE  /\ sw.pc = "select" /\ sw'.pc = "save" /\ Restoring
         /\ Carried /\ WantKept /\ sw'.file = sw.file /\ sw'.remembered = sw.remembered
         /\ sw'.companion = companion[sw.agent]
         /\ companion' = [companion EXCEPT ![sw.agent] = Original(sw.agent)]
         /\ UNCHANGED <<binding, secret, routes, providers, memory, file, del, boot, happened, amiss>>
BY InSwitch DEF RestoreSelection, Switches, Carried, WantKept, database, history

LEMMA SaveDoes ==
  ASSUME TypeInv, SaveBinding \/ ForgetBinding
  PROVE  /\ sw.pc = "save" /\ sw'.pc = "route" /\ Carried /\ WantKept /\ BackupKept
         /\ SaveBinding => /\ ~Restoring /\ memory' = memory
                           /\ binding' = [binding EXCEPT ![sw.agent] =
                                            [provider |-> sw.want.provider, rev |-> sw.rev]]
         /\ ForgetBinding => /\ Restoring /\ memory' = [memory EXCEPT ![sw.agent] = Forgotten]
                             /\ binding' = [binding EXCEPT ![sw.agent] = Unbound]
         /\ Mended("file", sw.agent)
         /\ UNCHANGED <<secret, routes, providers, file, companion, del, boot, happened>>
<1>1. sw \in Switches
  BY InSwitch DEF SaveBinding, ForgetBinding
<1> QED BY <1>1 DEF SaveBinding, ForgetBinding, Switches, Carried, WantKept, BackupKept, disk

LEMMA RegisterRouteDoes ==
  ASSUME TypeInv, RegisterRoute
  PROVE  /\ sw.pc = "route" /\ sw'.pc = "done" /\ sw.proxy /\ Carried /\ WantKept /\ BackupKept /\ ~Restoring
         /\ routes' = [routes EXCEPT ![sw.want.token] = sw.want.provider] /\ Mended("route", sw.agent)
         /\ UNCHANGED <<binding, secret, providers, memory, file, companion, del, boot, happened>>
BY InSwitch DEF RegisterRoute, Switches, Carried, WantKept, BackupKept, database, disk, PathOK, Restoring

LEMMA UnregisterDoes ==
  ASSUME TypeInv, Unregister
  PROVE  /\ sw.pc = "route" /\ ~sw.proxy /\ Carried /\ WantKept /\ BackupKept
         /\ sw'.pc = IF HasToken(sw.previous) THEN "retire" ELSE "done"
         /\ routes' = IF HasToken(sw.previous) /\ Token(sw.agent, sw.previous) # NoToken
                        THEN [routes EXCEPT ![Token(sw.agent, sw.previous)] = NoRoute] ELSE routes
         /\ UNCHANGED <<binding, secret, providers, memory, file, companion, del, boot, happened, amiss>>
<1>1. sw \in Switches
  BY InSwitch DEF Unregister
<1> QED BY <1>1 DEF Unregister, Switches, Carried, WantKept, BackupKept, database, disk, history

LEMMA RouteLeftDoes ==
  ASSUME TypeInv, RouteLeft
  PROVE  /\ sw.pc = "route" /\ sw'.pc = "retire" /\ ~sw.proxy /\ Carried /\ WantKept /\ BackupKept
         /\ HasToken(sw.previous) /\ Left("token", Token(sw.agent, sw.previous))
         /\ UNCHANGED <<binding, secret, routes, providers, memory, file, companion, del, boot>>
<1>1. sw \in Switches
  BY InSwitch DEF RouteLeft
<1> QED BY <1>1 DEF RouteLeft, Switches, Carried, WantKept, BackupKept, database, disk

LEMMA RetireTokenDoes ==
  ASSUME TypeInv, RetireToken
  PROVE  /\ sw.pc = "retire" /\ sw'.pc = "done" /\ Carried /\ WantKept /\ BackupKept
         /\ DeleteSecret(sw.agent, sw.previous.rev)
         /\ UNCHANGED <<binding, routes, providers, memory, file, companion, del, boot, amiss>>
BY InSwitch DEF RetireToken, Switches, Carried, WantKept, BackupKept, database, disk

\* The failure of a step.
Steppable == {"token", "write", "companion", "verify", "remember", "select", "save"}

Failure == StepFails \/ WriteFailsLate \/ RememberFailsHalfway \/ SelectFailsHalfway

LEMMA FailureDoes ==
  ASSUME TypeInv, Failure
  PROVE  /\ sw.pc \in Steppable /\ sw'.pc = "undo" /\ sw'.undo = Undone(Kind[sw.agent], sw.pc)
         /\ Carried /\ WantKept /\ sw'.file = sw.file /\ sw'.remembered = sw.remembered
         /\ sw'.companion = IF sw.pc \in {"companion", "select"} THEN companion[sw.agent] ELSE sw.companion
         /\ happened' = happened \/ Fault
         /\ UNCHANGED <<binding, secret, routes, providers, del, boot>>
         /\ StepFails => sw'.lost = {} /\ UNCHANGED <<memory, file, companion, amiss>>
         /\ WriteFailsLate => /\ sw.pc = "write" /\ sw'.lost = {"file"} /\ Left("file", sw.agent)
                              /\ file' = [file EXCEPT ![sw.agent] = sw.want] /\ UNCHANGED <<memory, companion>>
         /\ RememberFailsHalfway =>
              /\ sw.pc = "remember" /\ sw'.lost = {"memory"} /\ memory[sw.agent] = Forgotten
              /\ memory' = [memory EXCEPT ![sw.agent] = companion[sw.agent]]
              /\ UNCHANGED <<file, companion, amiss>>
         /\ SelectFailsHalfway =>
              /\ sw.pc \in {"companion", "select"} /\ Kind[sw.agent] # "plain" /\ sw'.lost = {}
              /\ sw.pc = "companion" => Kind[sw.agent] = "sidecar"
              /\ companion' = [companion EXCEPT ![sw.agent] =
                                 IF Restoring THEN Original(sw.agent) ELSE Shown(sw.agent, sw.want)]
              /\ UNCHANGED <<memory, file, amiss>>
<1>1. sw.pc \in Steppable
  BY DEF Failure, StepFails, WriteFailsLate, RememberFailsHalfway, SelectFailsHalfway, Steppable
<1>2. sw \in Switches
  BY <1>1, InSwitch DEF Steppable
<1>3. ASSUME NEW lost, TurnBack(lost)
      PROVE  /\ sw'.pc = "undo" /\ sw'.undo = Undone(Kind[sw.agent], sw.pc) /\ sw'.lost = lost
             /\ Carried /\ WantKept /\ sw'.file = sw.file /\ sw'.remembered = sw.remembered
             /\ sw'.companion = IF sw.pc \in {"companion", "select"} THEN companion[sw.agent] ELSE sw.companion
  <2>1. PICK undo, beside :
          /\ undo = Undone(Kind[sw.agent], sw.pc)
          /\ beside = IF sw.pc \in {"companion", "select"} THEN companion[sw.agent] ELSE sw.companion
          /\ sw' = [sw EXCEPT !.pc = "undo", !.undo = undo, !.lost = lost, !.companion = beside]
    BY <1>3 DEF TurnBack
  <2> QED BY <1>2, <2>1 DEF Switches, Carried, WantKept
<1>4. PICK lost : TurnBack(lost)
  BY DEF Failure, StepFails, WriteFailsLate, RememberFailsHalfway, SelectFailsHalfway
<1>5. happened' = happened \/ Fault
  BY DEF Failure, StepFails, WriteFailsLate, RememberFailsHalfway, SelectFailsHalfway
<1>6. UNCHANGED <<binding, secret, routes, providers, del, boot>>
  BY DEF Failure, StepFails, WriteFailsLate, RememberFailsHalfway, SelectFailsHalfway, database
<1>7. StepFails => sw'.lost = {} /\ UNCHANGED <<memory, file, companion, amiss>>
  BY <1>3 DEF StepFails, database, disk
<1>8. WriteFailsLate => /\ sw.pc = "write" /\ sw'.lost = {"file"} /\ Left("file", sw.agent)
                        /\ file' = [file EXCEPT ![sw.agent] = sw.want] /\ UNCHANGED <<memory, companion>>
  BY <1>3 DEF WriteFailsLate, database
<1>9. RememberFailsHalfway =>
         /\ sw.pc = "remember" /\ sw'.lost = {"memory"} /\ memory[sw.agent] = Forgotten
         /\ memory' = [memory EXCEPT ![sw.agent] = companion[sw.agent]]
         /\ UNCHANGED <<file, companion, amiss>>
  BY <1>3 DEF RememberFailsHalfway, disk
<1>10. SelectFailsHalfway =>
         /\ sw.pc \in {"companion", "select"} /\ Kind[sw.agent] # "plain" /\ sw'.lost = {}
         /\ sw.pc = "companion" => Kind[sw.agent] = "sidecar"
         /\ companion' = [companion EXCEPT ![sw.agent] =
                            IF Restoring THEN Original(sw.agent) ELSE Shown(sw.agent, sw.want)]
         /\ UNCHANGED <<memory, file, amiss>>
  <2> SUFFICES ASSUME SelectFailsHalfway
               PROVE  /\ sw.pc \in {"companion", "select"} /\ Kind[sw.agent] # "plain" /\ sw'.lost = {}
                      /\ sw.pc = "companion" => Kind[sw.agent] = "sidecar"
                      /\ companion' = [companion EXCEPT ![sw.agent] =
                                         IF Restoring THEN Original(sw.agent) ELSE Shown(sw.agent, sw.want)]
                      /\ UNCHANGED <<memory, file, amiss>>
    OBVIOUS
  <2>1. TurnBack({})
    BY DEF SelectFailsHalfway
  <2>2. sw'.lost = {}
    BY <1>3, <2>1
  <2>3. companion' = [companion EXCEPT ![sw.agent] =
                        IF Restoring THEN Original(sw.agent) ELSE Shown(sw.agent, sw.want)]
    BY Zenon DEF SelectFailsHalfway
  <2>4. /\ sw.pc \in {"companion", "select"} /\ Kind[sw.agent] # "plain"
        /\ sw.pc = "companion" => Kind[sw.agent] = "sidecar"
    BY DEF SelectFailsHalfway
  <2>5. UNCHANGED <<memory, file, amiss>>
    BY DEF SelectFailsHalfway, database
  <2> QED BY <2>2, <2>3, <2>4, <2>5
<1> QED BY <1>1, <1>3, <1>4, <1>5, <1>6, <1>7, <1>8, <1>9, <1>10, Zenon

LEMMA PutBackDoes ==
  ASSUME TypeInv, NEW what, PutBack(what), sw.pc = "undo"
  PROVE  /\ sw'.pc = "undo" /\ sw'.undo = sw.undo \ {what} /\ sw'.lost = sw.lost
         /\ Carried /\ WantKept /\ BackupKept
BY InSwitch DEF PutBack, Switches, Carried, WantKept, BackupKept

LEMMA NotPutBackDoes ==
  ASSUME TypeInv, NEW what, NotPutBack(what), sw.pc = "undo"
  PROVE  /\ sw'.pc = "undo" /\ sw'.undo = sw.undo \ what /\ sw'.lost = sw.lost \cup what
         /\ Carried /\ WantKept /\ BackupKept
BY InSwitch DEF NotPutBack, Switches, Carried, WantKept, BackupKept

\* What is undone but for the token.
Undoing == UndoFile \/ FileLeft \/ UndoCompanion \/ CompanionLeft \/ UndoMemory \/ MemoryLeft

LEMMA UndoingDoes ==
  ASSUME TypeInv, Undoing
  PROVE  /\ sw.pc = "undo" /\ sw'.pc = "undo" /\ Carried /\ WantKept /\ BackupKept
         /\ happened' = happened \/ Fault
         /\ UNCHANGED <<binding, secret, routes, providers, del, boot>>
<1>1. sw.pc = "undo"
  BY DEF Undoing, Undo, UndoFile, FileLeft, UndoCompanion, CompanionLeft, UndoMemory, MemoryLeft
<1>2. (\E what : PutBack(what)) \/ (\E what : NotPutBack(what))
  BY DEF Undoing, UndoFile, FileLeft, UndoCompanion, CompanionLeft, UndoMemory, MemoryLeft
<1>3. happened' = happened \/ Fault
  BY DEF Undoing, UndoFile, FileLeft, UndoCompanion, CompanionLeft, UndoMemory, MemoryLeft, history
<1>4. UNCHANGED <<binding, secret, routes, providers, del, boot>>
  BY DEF Undoing, UndoFile, FileLeft, UndoCompanion, CompanionLeft, UndoMemory, MemoryLeft, database
<1> QED BY <1>1, <1>2, <1>3, <1>4, PutBackDoes, NotPutBackDoes

LEMMA UndoFileDoes ==
  ASSUME TypeInv, UndoFile
  PROVE  /\ sw.pc = "undo" /\ "file" \in sw.undo /\ sw'.undo = sw.undo \ {"file"} /\ sw'.lost = sw.lost
         /\ file' = [file EXCEPT ![sw.agent] = sw.file] /\ UNCHANGED <<memory, companion, amiss>>
BY PutBackDoes DEF UndoFile, Undo, database, history

LEMMA FileLeftDoes ==
  ASSUME TypeInv, FileLeft
  PROVE  /\ sw.pc = "undo" /\ sw'.undo = sw.undo \ {"file"} /\ sw'.lost = sw.lost \cup {"file"}
         /\ Left("file", sw.agent) /\ UNCHANGED <<memory, file, companion>>
BY NotPutBackDoes DEF FileLeft, Undo, database, disk

LEMMA UndoCompanionDoes ==
  ASSUME TypeInv, UndoCompanion
  PROVE  /\ sw.pc = "undo" /\ "companion" \in sw.undo
         /\ sw'.undo = sw.undo \ {"companion"} /\ sw'.lost = sw.lost
         /\ companion' = [companion EXCEPT ![sw.agent] = sw.companion] /\ UNCHANGED <<memory, file, amiss>>
BY PutBackDoes DEF UndoCompanion, Undo, database, history

LEMMA CompanionLeftDoes ==
  ASSUME TypeInv, CompanionLeft
  PROVE  /\ sw.pc = "undo" /\ "companion" \in sw.undo /\ UNCHANGED <<memory, file, companion, amiss>>
         /\ \/ sw'.undo = sw.undo \ {"companion"} /\ sw'.lost = sw.lost \cup {"companion"}
            \/ /\ sw'.undo = sw.undo \ {"companion", "memory"}
               /\ sw'.lost = sw.lost \cup (sw.undo \cap {"companion", "memory"})
<1>1. /\ sw.pc = "undo" /\ "companion" \in sw.undo /\ UNCHANGED <<memory, file, companion, amiss>>
      /\ \E also \in {{}, {"memory"}} : NotPutBack(sw.undo \cap ({"companion"} \cup also))
  BY DEF CompanionLeft, Undo, database, disk
<1>2. CASE NotPutBack(sw.undo \cap ({"companion"} \cup {}))
  BY <1>1, <1>2, NotPutBackDoes
<1>3. CASE NotPutBack(sw.undo \cap ({"companion"} \cup {"memory"}))
  BY <1>1, <1>3, NotPutBackDoes
<1> QED BY <1>1, <1>2, <1>3

LEMMA UndoMemoryDoes ==
  ASSUME TypeInv, UndoMemory
  PROVE  /\ sw.pc = "undo" /\ "memory" \in sw.undo /\ "file" \notin sw.undo /\ "companion" \notin sw.undo
         /\ sw'.undo = sw.undo \ {"memory"} /\ sw'.lost = sw.lost
         /\ memory' = IF sw.remembered THEN [memory EXCEPT ![sw.agent] = Forgotten] ELSE memory
         /\ IF sw.remembered /\ "companion" \in sw.lost THEN Left("selection", sw.agent) ELSE UNCHANGED amiss
         /\ UNCHANGED <<file, companion>>
BY PutBackDoes DEF UndoMemory, Undo, disk

LEMMA MemoryLeftDoes ==
  ASSUME TypeInv, MemoryLeft
  PROVE  /\ sw.pc = "undo" /\ "memory" \in sw.undo /\ sw.remembered
         /\ sw'.undo = sw.undo \ {"memory"} /\ sw'.lost = sw.lost \cup {"memory"}
         /\ UNCHANGED <<memory, file, companion, amiss>>
BY NotPutBackDoes DEF MemoryLeft, Undo, database, disk

LEMMA UndoTokenDoes ==
  ASSUME TypeInv, UndoToken
  PROVE  /\ sw.pc = "undo" /\ sw'.pc = "undo" /\ Carried /\ WantKept /\ BackupKept
         /\ "file" \notin sw.undo /\ "companion" \notin sw.undo /\ "memory" \notin sw.undo
         /\ sw'.undo = sw.undo \ {"token"} /\ sw'.lost = sw.lost
         /\ IF sw.created THEN DeleteSecret(sw.agent, sw.rev) ELSE UNCHANGED <<secret, happened>>
         /\ UNCHANGED <<binding, routes, providers, memory, file, companion, del, boot, amiss>>
BY PutBackDoes DEF UndoToken, Undo, database, disk

LEMMA FailedDoes ==
  ASSUME TypeInv, Failed
  PROVE  /\ sw.pc = "undo" /\ sw'.pc = "failed" /\ sw.undo = {} /\ sw'.undo = {} /\ sw'.lost = sw.lost
         /\ Carried /\ WantKept /\ BackupKept
         /\ UNCHANGED <<binding, secret, routes, providers, memory, file, companion, del, boot, happened, amiss>>
BY InSwitch DEF Failed, Switches, Carried, WantKept, BackupKept, database, disk, history

LEMMA BeginDoes ==
  ASSUME TypeInv, NEW a \in Agents, NEW want \in Settings, NEW proxy \in BOOLEAN, Begin(a, want, proxy)
  PROVE  /\ sw.pc = "idle" /\ UiReady /\ sw'.pc = (IF want = Native THEN "write" ELSE "token")
         /\ sw'.agent = a /\ sw'.want = want /\ sw'.proxy = proxy /\ sw'.previous = binding[a]
         /\ sw'.rev = 0 /\ ~sw'.created /\ ~sw'.remembered /\ sw'.lost = {}
         /\ sw'.found.file = file[a] /\ sw'.found.companion = companion[a] /\ sw'.found.memory = memory[a]
         /\ sw'.found.binding = binding[a] /\ sw'.found.token = TokenOf(a) /\ sw'.found.routes = routes
         /\ UNCHANGED <<binding, secret, routes, providers, memory, file, companion, del, boot, amiss>>
BY DEF Begin, Call, database, disk

\* What is left or mended of one kind leaves the others.
LEMMA LeftMoves ==
  ASSUME AmissOK, NEW x
  PROVE  /\ Left("file", x) => /\ amiss'.file = amiss.file \cup {x} /\ amiss'.selection = amiss.selection
                               /\ amiss'.route = amiss.route /\ amiss'.token = amiss.token
         /\ Left("selection", x) => /\ amiss'.selection = amiss.selection \cup {x} /\ amiss'.file = amiss.file
                                    /\ amiss'.route = amiss.route /\ amiss'.token = amiss.token
         /\ Left("route", x) => /\ amiss'.route = amiss.route \cup {x} /\ amiss'.file = amiss.file
                                /\ amiss'.selection = amiss.selection /\ amiss'.token = amiss.token
         /\ Left("token", x) => /\ amiss'.token = amiss.token \cup {x} /\ amiss'.file = amiss.file
                                /\ amiss'.selection = amiss.selection /\ amiss'.route = amiss.route
         /\ Mended("file", x) => /\ amiss'.file = amiss.file \ {x} /\ amiss'.selection = amiss.selection
                                 /\ amiss'.route = amiss.route /\ amiss'.token = amiss.token
         /\ Mended("route", x) => /\ amiss'.route = amiss.route \ {x} /\ amiss'.file = amiss.file
                                  /\ amiss'.selection = amiss.selection /\ amiss'.token = amiss.token
BY DEF AmissOK, Left, Mended

\* The steps that touch neither bindings nor secrets nor what the call wants.
QuietCall ==
  /\ sw.pc \in Before /\ sw'.pc \in Before /\ Carried /\ WantKept
  /\ sw.proxy /\ sw'.pc \notin {"token", "undo", "failed"} => sw.pc \notin {"token", "undo", "failed"}
  /\ amiss'.token = amiss.token /\ amiss'.route = amiss.route
  /\ UNCHANGED <<binding, secret, routes, providers, del, boot>>

LEMMA QuietSteps ==
  ASSUME TypeInv, AmissOK,
         UseDirectKey \/ WriteFile \/ WriteBeside \/ Verified \/ Remember \/ Select \/ RestoreSelection
         \/ Failure \/ Undoing \/ Failed
  PROVE  QuietCall
<1>1. CASE UseDirectKey
  BY <1>1, UseDirectKeyDoes DEF QuietCall, Before
<1>2. CASE WriteFile
  BY <1>2, WriteFileDoes DEF QuietCall, Before
<1>3. CASE WriteBeside \/ Select
  BY <1>3, WriteCompanionDoes DEF QuietCall, Before
<1>4. CASE Verified
  BY <1>4, VerifiedDoes DEF QuietCall, Before
<1>5. CASE Remember
  BY <1>5, RememberDoes DEF QuietCall, Before
<1>6. CASE RestoreSelection
  BY <1>6, RestoreSelectionDoes DEF QuietCall, Before
<1>7. CASE Failure
  <2>1. amiss'.token = amiss.token /\ amiss'.route = amiss.route
    BY <1>7, FailureDoes, LeftMoves DEF Failure
  <2> QED BY <1>7, <2>1, FailureDoes DEF QuietCall, Before, Steppable
<1>8. CASE Failed
  BY <1>8, FailedDoes DEF QuietCall, Before
<1>9. CASE Undoing
  <2>1. FileLeft \/ UndoMemory => amiss'.token = amiss.token /\ amiss'.route = amiss.route
    BY FileLeftDoes, UndoMemoryDoes, LeftMoves
  <2>3. amiss'.token = amiss.token /\ amiss'.route = amiss.route
    BY <1>9, <2>1, UndoFileDoes, UndoCompanionDoes, CompanionLeftDoes, MemoryLeftDoes DEF Undoing
  <2> QED BY <1>9, <2>3, UndoingDoes DEF QuietCall, Before
<1> QED BY <1>1, <1>2, <1>3, <1>4, <1>5, <1>6, <1>7, <1>8, <1>9

-----------------------------------------------------------------------------
(* Tokens and bindings *)

Stores(a, r, t) == secret' = [secret EXCEPT ![a][r] = t]

LEMMA SecretSet ==
  ASSUME TypeInv, NEW a \in Agents, NEW r \in 1 .. MaxRev, NEW t, Stores(a, r, t)
  PROVE  \A b \in Agents, s \in 1 .. MaxRev :
           secret'[b][s] = IF b = a /\ s = r THEN t ELSE secret[b][s]
<1>1. secret \in [Agents -> [1 .. MaxRev -> Tokens \cup {NoToken}]]
  BY DEF TypeInv, StoresOK
<1>2. secret[a] \in [1 .. MaxRev -> Tokens \cup {NoToken}]
  BY <1>1
<1>3. secret' = [secret EXCEPT ![a] = [secret[a] EXCEPT ![r] = t]]
  BY DEF Stores
<1>4. \A b \in Agents : secret'[b] = IF b = a THEN [secret[a] EXCEPT ![r] = t] ELSE secret[b]
  BY <1>1, <1>3
<1>5. ASSUME NEW b \in Agents, NEW s \in 1 .. MaxRev
      PROVE  secret'[b][s] = IF b = a /\ s = r THEN t ELSE secret[b][s]
  <2>1. CASE b = a
    <3>1. secret'[b] = [secret[a] EXCEPT ![r] = t]
      BY <1>4, <2>1
    <3> DEFINE old == secret[a]
    <3>2. old \in [1 .. MaxRev -> Tokens \cup {NoToken}] /\ secret'[b] = [old EXCEPT ![r] = t]
      BY <1>2, <3>1
    <3> HIDE DEF old
    <3>3. [old EXCEPT ![r] = t][s] = IF s = r THEN t ELSE old[s]
      BY <3>2
    <3>4. secret'[b][s] = IF s = r THEN t ELSE old[s]
      BY <3>2, <3>3
    <3> QED BY <2>1, <3>4 DEF old
  <2>2. CASE b # a
    BY <1>4, <2>2
  <2> QED BY <2>1, <2>2
<1> QED BY <1>5

LEMMA DropsOne ==
  ASSUME TypeInv, NEW a \in Agents, NEW r \in 1 .. MaxRev, DeleteSecret(a, r)
  PROVE  \A b \in Agents, s \in 1 .. MaxRev :
           secret'[b][s] = secret[b][s] \/ (b = a /\ s = r /\ secret'[b][s] = NoToken)
BY SecretSet DEF DeleteSecret, Stores

\* A token that is neither dropped nor replaced stays the binding's.
LEMMA TokenStays ==
  ASSUME TypeInv, NEW b \in Agents, binding'[b] = binding[b],
         HasToken(binding[b]) => secret'[b][binding[b].rev] = secret[b][binding[b].rev]
  PROVE  TokenOf(b)' = TokenOf(b) /\ (HasToken(binding[b])' <=> HasToken(binding[b]))
BY DEF TokenOf, Token, HasToken

LEMMA BoundRev ==
  ASSUME TypeInv, NEW b \in Agents, HasToken(binding[b])
  PROVE  binding[b].rev \in 1 .. MaxRev /\ Token(b, binding[b]) = TokenOf(b)
         /\ TokenOf(b) = secret[b][binding[b].rev] /\ TokenOf(b) \in Tokens \cup {NoToken}
<1>1. binding[b] \in Bindings \cup {Unbound} /\ StoresOK
  BY DEF TypeInv, StoresOK
<1> QED BY <1>1, TokenType DEF TokenOf, Token

LEMMA PreviousRev ==
  ASSUME TypeInv, sw.pc # "idle", HasToken(sw.previous)
  PROVE  sw.previous.rev \in 1 .. MaxRev /\ Token(sw.agent, sw.previous) = secret[sw.agent][sw.previous.rev]
<1>1. sw.previous \in Bindings \cup {Unbound} /\ sw.agent \in Agents /\ StoresOK
  BY InSwitch DEF Switches, TypeInv
<1> QED BY <1>1, TokenType DEF Token

LEMMA SwitchMoves ==
  ASSUME TypeInv, AmissOK, SwitchStep
  PROVE  \/ QuietCall
         \/ ReuseToken \/ CreateToken \/ ReplaceToken \/ SaveBinding \/ ForgetBinding
         \/ RegisterRoute \/ Unregister \/ RouteLeft \/ RetireToken \/ Return \/ UndoToken
BY QuietSteps DEF SwitchStep, Failure, Undoing

\* The one call that moves, when there is nothing beside it.
LEMMA InTurnFacts ==
  ASSUME TypeInv, DeletionInv, [Next]_vars, InTurn'
  PROVE  /\ InTurn /\ (sw.pc = "idle" \/ del.pc = "idle")
         /\ del.pc = "rows" => del.affected = BoundTo(del.provider)
         /\ del.pc \in {"secrets", "files", "selection"} => \A a \in del.affected : binding[a] = Unbound
BY OverlapStays DEF DeletionInv

LEMMA SwitchAlone ==
  ASSUME TypeInv, SwitchStep
  PROVE  sw.pc # "idle" /\ del' = del /\ boot' = boot /\ providers' = providers
BY DEF SwitchStep, UseDirectKey, ReuseToken, CreateToken, ReplaceToken, NewToken, WriteFile, WriteBeside, WriteCompanion, Verified,
       Remember, Select, RestoreSelection, SaveBinding, ForgetBinding, RegisterRoute, Unregister, RouteLeft,
       RetireToken, Return, StepFails, WriteFailsLate, RememberFailsHalfway, SelectFailsHalfway, TurnBack,
       PutBack, NotPutBack, Undo, UndoFile, FileLeft, UndoCompanion, CompanionLeft, UndoMemory, MemoryLeft, UndoToken, Failed, database

\* What a deletion does to bindings, secrets and its own list.
LEMMA DeletionDoes ==
  ASSUME TypeInv, DeleteStep
  PROVE  /\ del.pc # "idle" /\ sw' = sw /\ boot' = boot /\ routes' = routes
         /\ \/ DeleteRows
            \/ /\ del.pc = "secrets" /\ binding' = binding /\ providers' = providers
               /\ \/ secret' = secret
                  \/ \E x \in del.tokens : DeleteSecret(x[1], x[2]) /\ x[1] \in Agents /\ x[2] \in 1 .. MaxRev
               /\ del'.tokens \subseteq del.tokens /\ del'.pc \in {"secrets", "files"}
            \/ /\ del.pc \in {"files", "selection"} /\ del'.pc \in {"idle", "files", "selection"}
               /\ UNCHANGED <<binding, secret, providers>>
<1>0. del \in Deletions
  BY InDeletion DEF DeleteStep, DeleteRows, DeleteSecrets, Deleted, RestoreFile, RestoreSkipped, RestoreRest
<1> USE DEF database
<1>1. CASE DeleteRows
  BY <1>1 DEF DeleteRows
<1>2. CASE DeleteSecrets
  BY <1>0, <1>2 DEF DeleteSecrets, DeleteSecret, Deletions
<1>3. CASE Deleted
  BY <1>3 DEF Deleted, Idle
<1>4. ASSUME NEW a \in Agents, RestoreFile(a) \/ RestoreSkipped(a) \/ RestoreRest(a)
      PROVE  /\ del.pc \in {"files", "selection"} /\ del'.pc \in {"files", "selection"}
             /\ UNCHANGED <<binding, secret, providers, sw, boot, routes>>
  BY <1>0, <1>4 DEF RestoreFile, RestoreSkipped, RestoreRest, Deletions
<1> QED BY <1>1, <1>2, <1>3, <1>4 DEF DeleteStep

LEMMA BindingStep ==
  ASSUME TypeInv, AmissOK, DeletionInv, BindingInv, [Next]_vars
  PROVE  BindingInv'
<1> SUFFICES ASSUME InTurn' PROVE (TokensStored /\ CallToken /\ CallBinding /\ DeletedTokens)'
  BY DEF BindingInv
<1>0. /\ TokensStored /\ CallToken /\ CallBinding /\ DeletedTokens
      /\ sw.pc = "idle" \/ del.pc = "idle"
      /\ binding \in [Agents -> Bindings \cup {Unbound}]
  BY InTurnFacts DEF BindingInv, TypeInv, StoresOK
<1> DEFINE Goal == (TokensStored /\ CallToken /\ CallBinding /\ DeletedTokens)'
           a == sw.agent
\* Every binding stays, and so does its token.
<1>a. ASSUME UNCHANGED <<binding, secret>>
      PROVE  TokensStored' /\ \A b \in Agents : TokenOf(b)' = TokenOf(b)
  BY <1>0, <1>a DEF TokensStored, TokenOf, Token
<1>b. ASSUME binding' = binding, NEW b \in Agents, NEW s \in 1 .. MaxRev, NEW t,
             HasToken(binding[b]) => s # binding[b].rev, secret' = secret \/ Stores(b, s, t)
      PROVE  TokensStored' /\ \A c \in Agents : TokenOf(c)' = TokenOf(c)
  <2>1. ASSUME NEW c \in Agents
        PROVE  /\ TokenOf(c)' = TokenOf(c)
               /\ HasToken(binding[c])' <=> HasToken(binding[c])
    <3>1. HasToken(binding[c]) => secret'[c][binding[c].rev] = secret[c][binding[c].rev]
      BY <1>b, BoundRev, SecretSet
    <3> QED BY <1>b, <3>1, TokenStays
  <2> QED BY <1>0, <2>1 DEF TokensStored
<1>1. CASE SwitchStep
  <2>0. sw.pc # "idle" /\ del.pc = "idle" /\ del' = del /\ a \in Agents /\ DeletedTokens'
    BY <1>0, <1>1, SwitchAlone, InSwitch DEF DeletedTokens
  <2>1. CASE QuietCall
    <3>1. CallBinding'
      BY <1>0, <1>a, <2>0, <2>1 DEF QuietCall, CallBinding, Carried, WantKept, Before, After, Restoring
    <3>2. CallToken'
      BY <1>0, <2>0, <2>1 DEF QuietCall, CallToken, Carried, WantKept, Before, Restoring, HasToken, Token
    <3> QED BY <1>a, <2>0, <2>1, <3>1, <3>2 DEF QuietCall
  <2>2. CASE ReuseToken
    <3>1. sw.pc = "token" /\ sw'.pc = "write" /\ sw.proxy /\ Carried /\ ~sw'.created
          /\ HasToken(binding[a]) /\ Token(a, binding[a]) # NoToken
          /\ sw'.rev = binding[a].rev /\ sw'.want.token = Token(a, binding[a])
          /\ UNCHANGED <<binding, secret>>
      BY <2>2, ReuseTokenDoes
    <3>2. binding[a] = sw.previous /\ sw'.rev > 0 /\ secret[a][sw'.rev] = sw'.want.token
      BY <1>0, <2>0, <3>1, BoundRev DEF CallBinding, Before, Token
    <3>3. CallToken'
      BY <3>1, <3>2 DEF CallToken, Carried, HasToken
    <3>4. CallBinding'
      BY <1>0, <1>a, <2>0, <3>1 DEF CallBinding, Carried, Before, After
    <3> QED BY <1>a, <2>0, <3>1, <3>3, <3>4
  <2>3. CASE CreateToken \/ ReplaceToken
    <3>1. /\ sw.pc = "token" /\ sw'.pc = "write" /\ sw.proxy /\ Carried /\ sw'.created
          /\ sw'.rev = NextRev(a) /\ sw'.rev \in 1 .. MaxRev /\ sw'.want.token \in Tokens
          /\ secret' = [secret EXCEPT ![a][sw'.rev] = sw'.want.token] /\ binding' = binding
      BY <2>3, NewTokenDoes
    <3>2. /\ binding[a] = sw.previous
          /\ HasToken(binding[a]) => sw'.rev # binding[a].rev
      <4>1. ASSUME HasToken(binding[a]) PROVE sw'.rev # binding[a].rev
        <5>1. binding[a].rev \in 1 .. MaxRev /\ binding[a] # Unbound
          BY <2>0, <4>1, BoundRev DEF HasToken
        <5> QED BY <3>1, <5>1, BoundsAssumption DEF NextRev
      <4> QED BY <1>0, <2>0, <3>1, <4>1 DEF CallBinding, Before
    <3>3. TokensStored' /\ \A c \in Agents : TokenOf(c)' = TokenOf(c)
      BY <1>b, <2>0, <3>1, <3>2 DEF Stores
    <3>4. /\ secret'[a][sw'.rev] = sw'.want.token
          /\ HasToken(binding[a]) => secret'[a][binding[a].rev] = secret[a][binding[a].rev]
      <4>1. PICK b \in Agents, r \in 1 .. MaxRev, t \in Tokens :
              b = a /\ r = sw'.rev /\ t = sw'.want.token
        BY <2>0, <3>1
      <4>2. Stores(b, r, t)
        BY <3>1, <4>1 DEF Stores
      <4>3. \A c \in Agents, s \in 1 .. MaxRev :
              secret'[c][s] = IF c = b /\ s = r THEN t ELSE secret[c][s]
        BY <4>2, SecretSet
      <4>4. secret'[b][r] = t
        BY <4>3
      <4>5. HasToken(binding[b]) => secret'[b][binding[b].rev] = secret[b][binding[b].rev]
        BY <3>2, <4>1, <4>3, BoundRev
      <4> QED BY <4>1, <4>4, <4>5
    <3>5. HasToken(sw.previous) => Token(a, sw.previous)' \in amiss'.token
      <4> SUFFICES ASSUME HasToken(sw.previous) PROVE Token(a, sw.previous)' \in amiss'.token
        OBVIOUS
      <4>1. HasToken(binding[a]) /\ TokenOf(a) # NoToken /\ Token(a, binding[a]) = TokenOf(a)
        BY <1>0, <2>0, <3>2, BoundRev DEF TokensStored
      <4>2. ReplaceToken
        BY <2>3, <4>1, NewTokenDoes DEF Reusable
      <4>3. TokenOf(a) \in amiss'.token
        BY <4>2, NewTokenDoes, LeftMoves
      <4>4. Token(a, sw.previous)' = TokenOf(a)
        <5>1. sw' # sw \/ sw' = sw
          OBVIOUS
        <5>2. Token(a, sw.previous)' = secret'[sw'.agent][sw'.previous.rev]
          BY DEF Token
        <5>3. TokenOf(a) = secret[a][binding[a].rev]
          BY <2>0, <4>1, BoundRev
        <5> QED BY <3>1, <3>2, <3>4, <4>1, <5>2, <5>3 DEF Carried
      <4> QED BY <4>3, <4>4
    <3>6. CallToken'
      <4>1. HasToken(sw'.previous) => sw'.rev # sw'.previous.rev /\ Token(sw.agent, sw.previous)' \in amiss'.token
        BY <3>1, <3>2, <3>5 DEF Carried
      <4> QED BY <3>1, <3>4, <4>1, NullsAssumption DEF CallToken, Carried, HasToken
    <3>7. CallBinding'
      BY <1>0, <2>0, <3>1, <3>3 DEF CallBinding, Carried, Before, After
    <3> QED BY <2>0, <3>3, <3>6, <3>7
  <2>4. CASE SaveBinding \/ ForgetBinding
    <3>1. /\ sw.pc = "save" /\ sw'.pc = "route" /\ Carried /\ WantKept /\ secret' = secret
          /\ \/ /\ ~Restoring
                /\ binding' = [binding EXCEPT ![a] = [provider |-> sw.want.provider, rev |-> sw.rev]]
             \/ Restoring /\ binding' = [binding EXCEPT ![a] = Unbound]
      BY <2>4, SaveDoes
    <3>2. /\ binding'[a] = IF Restoring THEN Unbound ELSE [provider |-> sw.want.provider, rev |-> sw.rev]
          /\ \A b \in Agents \ {a} : binding'[b] = binding[b]
      BY <1>0, <2>0, <3>1
    <3>3. CallBinding'
      BY <1>0, <2>0, <3>1, <3>2 DEF CallBinding, Carried, WantKept, Before, After, Restoring
    <3>a. amiss'.token = amiss.token
      BY <2>4, SaveDoes, LeftMoves
    <3>4. CallToken'
      BY <1>0, <2>0, <3>1, <3>a DEF CallToken, Carried, WantKept, Restoring, HasToken, Token
    <3>5. ASSUME NEW b \in Agents, HasToken(binding[b])'
          PROVE  TokenOf(b)' # NoToken
      <4>1. CASE b # a
        BY <1>0, <3>1, <3>2, <3>5, <4>1, TokenStays DEF TokensStored
      <4>2. CASE b = a
        <5>1. binding'[a] = [provider |-> sw.want.provider, rev |-> sw.rev] /\ sw.rev > 0
          BY <3>2, <3>5, <4>2 DEF HasToken
        <5>2. secret[a][sw.rev] # NoToken
          BY <1>0, <2>0, <3>1, <5>1 DEF CallToken
        <5> QED BY <3>1, <3>5, <4>2, <5>1, <5>2 DEF TokenOf, Token
      <4> QED BY <4>1, <4>2
    <3> QED BY <2>0, <3>3, <3>4, <3>5 DEF TokensStored
  <2>5. CASE RegisterRoute \/ Unregister \/ RouteLeft
    <3>1. /\ sw.pc = "route" /\ sw'.pc \in {"retire", "done"} /\ Carried /\ WantKept
          /\ sw'.pc = "retire" => ~sw.proxy
          /\ UNCHANGED <<binding, secret>>
      BY <2>5, RegisterRouteDoes, UnregisterDoes, RouteLeftDoes
    <3>a. amiss.token \subseteq amiss'.token
      BY <2>5, RegisterRouteDoes, UnregisterDoes, RouteLeftDoes, LeftMoves
    <3>2. CallBinding'
      BY <1>0, <2>0, <3>1 DEF CallBinding, Carried, WantKept, Before, After, Restoring
    <3>3. CallToken'
      BY <1>0, <2>0, <3>1, <3>a DEF CallToken, Carried, WantKept, Restoring, HasToken, Token
    <3> QED BY <1>a, <2>0, <3>1, <3>2, <3>3
  <2>6. CASE RetireToken
    <3>1. /\ sw.pc = "retire" /\ sw'.pc = "done" /\ Carried /\ WantKept /\ binding' = binding
          /\ DeleteSecret(a, sw.previous.rev)
      BY <2>6, RetireTokenDoes
    <3>2. ~sw.proxy /\ ~HasToken(binding[a]) /\ HasToken(sw.previous)
      BY <1>0, <2>0, <3>1, InSwitch DEF CallToken, CallBinding, After, HasToken, PathOK
    <3>3. sw.previous.rev \in 1 .. MaxRev
      BY <2>0, <3>2, PreviousRev
    <3>4. TokensStored'
      BY <1>b, <2>0, <3>1, <3>2, <3>3 DEF DeleteSecret, Stores
    <3>5. CallBinding'
      BY <1>0, <2>0, <3>1 DEF CallBinding, Carried, WantKept, Before, After, Restoring
    <3>6. CallToken'
      <4>1. ~sw.created /\ ~sw'.proxy /\ ~sw'.created
        BY <1>0, <2>0, <3>1, <3>2, InSwitch DEF CallToken, Carried, WantKept, PathOK, Switches
      <4> QED BY <1>0, <2>0, <3>1, <3>2, <4>1 DEF CallToken, Carried, WantKept, Restoring
    <3> QED BY <2>0, <3>4, <3>5, <3>6
  <2>7. CASE UndoToken
    <3>1. /\ sw.pc = "undo" /\ sw'.pc = "undo" /\ Carried /\ WantKept /\ binding' = binding
          /\ IF sw.created THEN DeleteSecret(a, sw.rev) ELSE secret' = secret
      BY <2>7, UndoTokenDoes
    <3>a. amiss' = amiss
      BY <2>7, UndoTokenDoes
    <3>2. TokensStored' /\ TokenOf(a)' = TokenOf(a)
      <4>1. CASE sw.created
        <5>1. sw.rev \in 1 .. MaxRev /\ (HasToken(binding[a]) => sw.rev # binding[a].rev)
          BY <1>0, <2>0, <3>1, <4>1, InSwitch, BoundsAssumption
             DEF CallToken, CallBinding, Before, PathOK, Switches
        <5>2. PICK b \in Agents, r \in 1 .. MaxRev : b = a /\ r = sw.rev
          BY <2>0, <5>1
        <5>3. TokensStored' /\ TokenOf(b)' = TokenOf(b)
          BY <1>b, <3>1, <4>1, <5>1, <5>2 DEF DeleteSecret, Stores
        <5> QED BY <1>0, <3>1, <5>1, <5>2, <5>3 DEF TokenOf, Token, Carried
      <4>2. CASE ~sw.created
        BY <1>a, <2>0, <3>1, <4>2 DEF TokenOf, Token, Carried
      <4> QED BY <4>1, <4>2
    <3>3. CallBinding'
      BY <1>0, <2>0, <3>1, <3>2 DEF CallBinding, Carried, WantKept, Before, After
    <3>4. CallToken'
      <4>1. ASSUME sw.created, HasToken(sw.previous)
            PROVE  secret'[a][sw.previous.rev] = secret[a][sw.previous.rev]
        <5>1. sw.rev # sw.previous.rev /\ sw.rev \in 1 .. MaxRev
          BY <1>0, <2>0, <4>1, InSwitch, BoundsAssumption DEF CallToken, PathOK, Switches
        <5> QED BY <2>0, <3>1, <4>1, <5>1, PreviousRev, DropsOne
      <4>2. sw.created /\ HasToken(sw.previous) =>
              sw.rev # sw.previous.rev /\ secret'[a][sw.previous.rev] \in amiss.token
        BY <1>0, <2>0, <4>1 DEF CallToken, Token
      <4>3. (sw.created /\ HasToken(sw.previous))' =>
              sw'.rev # sw'.previous.rev /\ secret'[sw'.agent][sw'.previous.rev] \in amiss'.token
        BY <3>1, <3>a, <4>2 DEF Carried, WantKept, HasToken
      <4> QED BY <1>0, <2>0, <3>1, <4>3 DEF CallToken, Carried, WantKept, Restoring, Token
    <3> QED BY <2>0, <3>2, <3>3, <3>4
  <2>8. CASE Return
    BY <1>a, <2>0, <2>8 DEF Return, Idle, CallToken, CallBinding, database
  <2> QED BY <1>1, <2>1, <2>2, <2>3, <2>4, <2>5, <2>6, <2>7, <2>8, SwitchMoves
<1>2. CASE DeleteStep
  <2>0. sw.pc = "idle" /\ sw' = sw /\ CallToken' /\ CallBinding'
    BY <1>0, <1>2, DeletionDoes DEF CallToken, CallBinding
  <2>1. CASE DeleteRows
    <3>1. /\ secret' = secret
          /\ \A b \in Agents : binding'[b] = IF b \in BoundTo(del.provider) THEN Unbound ELSE binding[b]
      BY <2>1 DEF DeleteRows
    <3>2. TokensStored'
      BY <1>0, <3>1 DEF TokensStored, TokenOf, Token, HasToken
    <3>3. del'.tokens = {<<b, binding[b].rev>> : b \in {c \in BoundTo(del.provider) : HasToken(binding[c])}}
      BY <2>1, InDeletion DEF DeleteRows, Deletions
    <3>4. DeletedTokens'
      BY <3>1, <3>3 DEF DeletedTokens, BoundTo
    <3> QED BY <2>0, <3>2, <3>4
  <2>2. CASE /\ del.pc = "secrets" /\ binding' = binding
             /\ \/ secret' = secret
                \/ \E x \in del.tokens : DeleteSecret(x[1], x[2]) /\ x[1] \in Agents /\ x[2] \in 1 .. MaxRev
             /\ del'.tokens \subseteq del.tokens
    <3>1. DeletedTokens'
      BY <1>0, <2>2 DEF DeletedTokens
    <3>2. ASSUME NEW x \in del.tokens, DeleteSecret(x[1], x[2]), x[1] \in Agents, x[2] \in 1 .. MaxRev
          PROVE  TokensStored'
      <4>1. ~HasToken(binding[x[1]])
        BY <1>0, <2>2, <3>2 DEF DeletedTokens, HasToken
      <4>2. secret' = secret \/ Stores(x[1], x[2], NoToken)
        BY <3>2 DEF DeleteSecret, Stores
      <4> QED BY <1>b, <2>2, <3>2, <4>1, <4>2
    <3> QED BY <1>a, <2>0, <2>2, <3>1, <3>2
  <2>3. CASE del'.pc \in {"idle", "files", "selection"} /\ UNCHANGED <<binding, secret>>
    BY <1>a, <2>0, <2>3 DEF DeletedTokens
  <2> QED BY <1>2, <2>1, <2>2, <2>3, DeletionDoes
<1>3. ASSUME NEW b \in Agents, NEW want \in Settings, NEW proxy \in BOOLEAN, Begin(b, want, proxy),
             want = Native => ~proxy, want # Native => want.token = NoToken
      PROVE  Goal
  <2>1. del.pc = "idle" /\ del' = del /\ UNCHANGED <<binding, secret>>
    BY <1>3, BeginsAlone, BeginDoes
  <2>2. CallToken' /\ CallBinding'
    BY <1>3, <1>a, <2>1, BeginDoes DEF CallToken, CallBinding, Before, After, Restoring, HasToken
  <2> QED BY <1>a, <2>1, <2>2 DEF DeletedTokens
<1>4. ASSUME NEW p \in Providers, BeginDelete(p)
      PROVE  Goal
  <2>1. sw.pc = "idle" /\ sw' = sw /\ del'.pc = "rows" /\ UNCHANGED <<binding, secret>>
    BY <1>4, BeginsAlone DEF BeginDelete, database
  <2> QED BY <1>a, <2>1 DEF CallToken, CallBinding, DeletedTokens
<1>5. CASE Restart
  <2>1. sw'.pc = "idle" /\ del'.pc = "idle" /\ UNCHANGED <<binding, secret>>
    BY <1>5 DEF Restart, Idle, database
  <2> QED BY <1>a, <2>1 DEF CallToken, CallBinding, DeletedTokens
<1>6. CASE UNCHANGED <<binding, secret, sw, del>> /\ amiss.token = amiss'.token
  BY <1>0, <1>a, <1>6 DEF CallToken, CallBinding, DeletedTokens, Restoring, TokenOf, Token, HasToken
<1>7. LoadRoutes \/ RestoreRoute \/ RoutePassedOver \/ RoutesRestored \/ UNCHANGED vars
        => UNCHANGED <<binding, secret, sw, del>> /\ amiss.token = amiss'.token
  BY LeftMoves DEF LoadRoutes, RestoreRoute, RoutePassedOver, RoutesRestored, vars, database, history
<1>8. ASSUME NEW b \in Agents, NEW p \in Providers, NEW proxy \in BOOLEAN, BeginSwitch(b, p, proxy)
      PROVE  Goal
  <2>1. [provider |-> p, token |-> NoToken] \in Settings \ {Native}
    BY NullsAssumption DEF Settings
  <2> QED BY <1>3, <1>8, <2>1 DEF BeginSwitch
<1>9. ASSUME NEW b \in Agents, BeginRestore(b)
      PROVE  Goal
  <2>1. Native \in Settings
    BY DEF Settings
  <2> QED BY <1>3, <1>9, <2>1 DEF BeginRestore
<1> QED BY <1>1, <1>2, <1>4, <1>5, <1>6, <1>7, <1>8, <1>9 DEF Next

-----------------------------------------------------------------------------
(* Steps, by what the invariants see of them *)

LEMMA NextMoves ==
  ASSUME TypeInv, [Next]_vars
  PROVE  \/ SwitchStep
         \/ DeleteStep
         \/ \E a \in Agents, want \in Settings, proxy \in BOOLEAN : Begin(a, want, proxy)
         \/ \E p \in Providers : BeginDelete(p)
         \/ LoadRoutes \/ RestoreRoute \/ RoutePassedOver \/ RoutesRestored
         \/ Restart
         \/ UNCHANGED vars
<1>1. ASSUME NEW a \in Agents, NEW p \in Providers, NEW proxy \in BOOLEAN, BeginSwitch(a, p, proxy)
      PROVE  \E b \in Agents, want \in Settings, through \in BOOLEAN : Begin(b, want, through)
  <2>1. [provider |-> p, token |-> NoToken] \in Settings
    BY DEF Settings
  <2> QED BY <1>1, <2>1 DEF BeginSwitch
<1>2. ASSUME NEW a \in Agents, BeginRestore(a)
      PROVE  \E b \in Agents, want \in Settings, through \in BOOLEAN : Begin(b, want, through)
  <2>1. Native \in Settings /\ FALSE \in BOOLEAN
    BY DEF Settings
  <2> QED BY <1>2, <2>1 DEF BeginRestore
<1> QED BY <1>1, <1>2 DEF Next

\* Secrets change only by a new token and by the deletion of one.
LEMMA SecretsMove ==
  ASSUME TypeInv, AmissOK, [Next]_vars
  PROVE  secret' = secret \/ CreateToken \/ ReplaceToken \/ \E a \in Agents, r \in 1 .. MaxRev : DeleteSecret(a, r)
<1>1. CASE SwitchStep
  <2>1. CASE RetireToken
    <3>1. HasToken(sw.previous) /\ sw.pc # "idle" /\ DeleteSecret(sw.agent, sw.previous.rev)
      BY <2>1, InSwitch DEF RetireToken, PathOK
    <3> QED BY <3>1, PreviousRev, InSwitch
  <2>2. CASE UndoToken
    <3>1. sw.pc # "idle" /\ (sw.created => DeleteSecret(sw.agent, sw.rev)) /\ (~sw.created => secret' = secret)
      BY <2>2 DEF UndoToken, Undo
    <3>2. sw.created => sw.rev \in 1 .. MaxRev
      BY <3>1, InSwitch, BoundsAssumption DEF PathOK, Switches
    <3> QED BY <3>1, <3>2, InSwitch
  <2>3. CASE QuietCall \/ ReuseToken \/ SaveBinding \/ ForgetBinding \/ RegisterRoute \/ Unregister \/ RouteLeft \/ Return
    BY <2>3 DEF QuietCall, ReuseToken, SaveBinding, ForgetBinding, RegisterRoute, Unregister, RouteLeft, Return
  <2> QED BY <1>1, <2>1, <2>2, <2>3, SwitchMoves
<1>2. CASE DeleteStep
  BY <1>2, DeletionDoes DEF DeleteRows
<1>3. CASE LoadRoutes \/ RestoreRoute \/ RoutePassedOver \/ RoutesRestored \/ Restart \/ UNCHANGED vars
  BY <1>3 DEF LoadRoutes, RestoreRoute, RoutePassedOver, RoutesRestored, Restart, vars
<1> QED BY <1>1, <1>2, <1>3, NextMoves DEF Begin, BeginDelete

\* A new token is in use nowhere; else tokens only go.
LEMMA SecretsDistinctStep ==
  ASSUME TypeInv, AmissOK, SecretsDistinct, [Next]_vars
  PROVE  SecretsDistinct'
<1>1. CASE secret' = secret
  BY <1>1 DEF SecretsDistinct
<1>2. ASSUME NEW a \in Agents, NEW r \in 1 .. MaxRev, DeleteSecret(a, r)
      PROVE  SecretsDistinct'
  <2>1. \A b \in Agents, s \in 1 .. MaxRev : secret'[b][s] = secret[b][s] \/ secret'[b][s] = NoToken
    BY <1>2, DropsOne
  <2> QED BY <2>1 DEF SecretsDistinct
<1>3. CASE CreateToken \/ ReplaceToken
  <2>1. PICK a \in Agents, r \in 1 .. MaxRev, t \in Tokens \ InUse : Stores(a, r, t)
    BY <1>3, NewTokenDoes, InSwitch DEF Stores
  <2>2. \A b \in Agents, s \in 1 .. MaxRev : secret[b][s] # t
    BY <2>1 DEF InUse
  <2>3. \A b \in Agents, s \in 1 .. MaxRev : secret'[b][s] = IF b = a /\ s = r THEN t ELSE secret[b][s]
    BY <2>1, SecretSet
  <2> QED BY <2>2, <2>3 DEF SecretsDistinct
<1> QED BY <1>1, <1>2, <1>3, SecretsMove

\* A call changes its own agent only.
LEMMA OthersStay ==
  ASSUME TypeInv, SwitchStep, NEW b \in Agents, b # sw.agent
  PROVE  /\ file'[b] = file[b] /\ companion'[b] = companion[b] /\ memory'[b] = memory[b]
         /\ binding'[b] = binding[b] /\ TokenOf(b)' = TokenOf(b)
<1>0. sw.pc # "idle" /\ sw.agent \in Agents
  BY SwitchAlone, InSwitch
<1>1. file'[b] = file[b] /\ companion'[b] = companion[b] /\ memory'[b] = memory[b] /\ binding'[b] = binding[b]
  BY DEF SwitchStep, UseDirectKey, ReuseToken, CreateToken, ReplaceToken, NewToken, WriteFile, WriteBeside, WriteCompanion, Verified,
       Remember, Select, RestoreSelection, SaveBinding, ForgetBinding, RegisterRoute, Unregister, RouteLeft,
       RetireToken, Return, StepFails, WriteFailsLate, RememberFailsHalfway, SelectFailsHalfway, TurnBack,
       PutBack, NotPutBack, Undo, UndoFile, FileLeft, UndoCompanion, CompanionLeft, UndoMemory, MemoryLeft, UndoToken, Failed,
       database, disk, TypeInv, StoresOK, FilesOK
<1>2. secret'[b] = secret[b]
  BY DEF SwitchStep, UseDirectKey, ReuseToken, CreateToken, ReplaceToken, NewToken, WriteFile, WriteBeside, WriteCompanion, Verified,
       Remember, Select, RestoreSelection, SaveBinding, ForgetBinding, RegisterRoute, Unregister, RouteLeft,
       RetireToken, Return, StepFails, WriteFailsLate, RememberFailsHalfway, SelectFailsHalfway, TurnBack,
       PutBack, NotPutBack, Undo, UndoFile, FileLeft, UndoCompanion, CompanionLeft, UndoMemory, MemoryLeft, UndoToken, Failed,
       DeleteSecret, TypeInv, StoresOK
<1> QED BY <1>1, <1>2, TokenStays

\* Crashes stay counted.
LEMMA CountsGrow ==
  ASSUME TypeInv, [Next]_vars
  PROVE  happened'.crash = 0 => happened.crash = 0 /\ ~Restart
<1>0. happened \in [fault : Nat, delete : Nat, crash : Nat, overlap : Nat]
  BY DEF TypeInv, CountsOK
<1>1. ASSUME NEW kinds, Happens(kinds)
      PROVE  happened'.crash = IF "crash" \in kinds THEN happened.crash + 1 ELSE happened.crash
  BY <1>0, <1>1 DEF Happens
<1>2. happened'.crash = happened.crash \/ happened'.crash = happened.crash + 1
  BY <1>1, WhatHappens
<1>3. Restart => happened'.crash = happened.crash + 1
  BY <1>1 DEF Restart
<1> QED BY <1>0, <1>2, <1>3

\* What a step that fails has put on the list to undo.
LEMMA ToUndo ==
  ASSUME TypeInv, Failure
  PROVE  /\ "file" \in sw'.undo <=> sw.pc \notin {"token", "write"}
         /\ Kind[sw.agent] = "session" /\ ~Restoring /\ sw.pc \in {"remember", "select", "save"} => "memory" \in sw'.undo
         /\ Kind[sw.agent] \in {"plain", "session"} =>
              ("companion" \in sw'.undo <=> Kind[sw.agent] = "session" /\ sw.pc \in {"select", "save"})
<1>0. /\ sw.pc \in Steppable /\ sw'.undo = Undone(Kind[sw.agent], sw.pc)
  BY FailureDoes
<1>1. CASE Restoring
  <2>1. sw.pc \in {"write", "select", "save"}
    BY <1>0, <1>1, InSwitch DEF PathOK, Steppable
  <2> QED BY <1>0, <1>1, <2>1 DEF Undone
<1>2. CASE ~Restoring
  BY <1>0, <1>2 DEF Undone, Steppable
<1> QED BY <1>1, <1>2

-----------------------------------------------------------------------------
(* Files and bindings *)

LEMMA FileStep ==
  ASSUME TypeInv, AmissOK, DeletionInv, FileInv, [Next]_vars
  PROVE  FileInv'
<1> SUFFICES ASSUME InTurn' PROVE CallFile'
  BY DEF FileInv
<1>0. CallFile /\ (sw.pc = "idle" \/ del.pc = "idle")
  BY InTurnFacts DEF FileInv
<1> DEFINE a == sw.agent
<1>1. CASE SwitchStep
  <2>0. sw.pc # "idle" /\ a \in Agents /\ file \in [Agents -> Settings]
    BY <1>1, SwitchAlone, InSwitch DEF TypeInv, FilesOK
  <2>a. sw'.pc \notin {"idle", "undo", "failed"} => sw'.lost = {}
    <3>1. TypeInv'
      BY TypeInvStep
    <3> QED BY <3>1 DEF TypeInv, PathOK, SwitchOK, Idle
  <2>1. CASE UseDirectKey \/ ReuseToken \/ CreateToken \/ ReplaceToken
    BY <1>0, <2>0, <2>a, <2>1, UseDirectKeyDoes, ReuseTokenDoes, NewTokenDoes DEF CallFile, Carried, After
  <2>2. CASE WriteFile
    BY <1>0, <2>0, <2>a, <2>2, WriteFileDoes DEF CallFile, Carried, WantKept, After
  <2>3. CASE WriteBeside \/ Select \/ Verified \/ Remember \/ RestoreSelection
    BY <1>0, <2>0, <2>a, <2>3, WriteCompanionDoes, VerifiedDoes, RememberDoes, RestoreSelectionDoes
       DEF CallFile, Carried, WantKept, BackupKept, After
  <2>4. CASE SaveBinding \/ ForgetBinding
    BY <1>0, <2>0, <2>a, <2>4, SaveDoes DEF CallFile, Carried, WantKept, After
  <2>5. CASE RegisterRoute \/ Unregister \/ RouteLeft \/ RetireToken
    BY <1>0, <2>0, <2>a, <2>5, RegisterRouteDoes, UnregisterDoes, RouteLeftDoes, RetireTokenDoes
       DEF CallFile, Carried, WantKept, After
  <2>6. CASE Failure
    <3>0. /\ sw.pc \in Steppable /\ sw'.pc = "undo" /\ sw'.file = sw.file /\ Carried
          /\ "file" \in sw'.undo <=> sw.pc \notin {"token", "write"}
      BY <2>6, FailureDoes, ToUndo
    <3>1. CASE WriteFailsLate
      <4>1. sw.pc = "write" /\ "file" \in sw'.lost /\ a \in amiss'.file
        BY <2>6, <3>1, FailureDoes, LeftMoves
      <4> QED BY <1>0, <2>0, <3>0, <4>1 DEF CallFile, Carried, After
    <3>2. CASE ~WriteFailsLate
      <4>1. file' = file /\ "file" \notin sw'.lost
        BY <2>6, <3>2, FailureDoes DEF Failure
      <4> QED BY <1>0, <2>0, <3>0, <4>1 DEF CallFile, Carried, After, Steppable
    <3> QED BY <3>1, <3>2
  <2>7. CASE UndoFile
    <3>1. /\ sw.pc = "undo" /\ sw'.pc = "undo" /\ Carried
      BY <2>7, UndoingDoes DEF Undoing
    <3> QED BY <1>0, <2>0, <2>7, <3>1, UndoFileDoes DEF CallFile, Carried, After
  <2>8. CASE FileLeft
    <3>1. /\ sw.pc = "undo" /\ sw'.pc = "undo" /\ Carried /\ sw'.undo = sw.undo \ {"file"} /\ "file" \in sw'.lost
      BY <2>8, UndoingDoes, FileLeftDoes DEF Undoing
    <3>2. a \in amiss'.file
      BY <2>8, FileLeftDoes, LeftMoves
    <3> QED BY <1>0, <2>0, <3>1, <3>2 DEF CallFile, Carried, After
  <2>9. CASE UndoCompanion \/ CompanionLeft \/ UndoMemory \/ MemoryLeft \/ UndoToken
    <3>1. sw.pc = "undo" /\ sw'.pc = "undo" /\ Carried /\ BackupKept
      BY <2>9, UndoingDoes, UndoTokenDoes DEF Undoing
    <3>2. /\ file' = file /\ ("file" \in sw'.undo <=> "file" \in sw.undo) /\ ("file" \in sw'.lost <=> "file" \in sw.lost)
      BY <2>9, UndoCompanionDoes, CompanionLeftDoes, UndoMemoryDoes, MemoryLeftDoes, UndoTokenDoes
    <3>3. amiss'.file = amiss.file
      BY <2>9, UndoCompanionDoes, CompanionLeftDoes, UndoMemoryDoes, MemoryLeftDoes, UndoTokenDoes, LeftMoves
    <3> QED BY <1>0, <3>1, <3>2, <3>3 DEF CallFile, Carried, BackupKept, After
  <2>10. CASE Failed
    BY <1>0, <2>0, <2>10, FailedDoes DEF CallFile, Carried, After
  <2>11. CASE Return
    BY <2>11 DEF Return, Idle, CallFile
  <2> QED
    BY <1>1, <2>1, <2>2, <2>3, <2>4, <2>5, <2>6, <2>7, <2>8, <2>9, <2>10, <2>11 DEF SwitchStep, Failure
<1>2. CASE DeleteStep
  BY <1>0, <1>2, DeletionDoes DEF CallFile
<1>3. ASSUME NEW b \in Agents, NEW want \in Settings, NEW proxy \in BOOLEAN, Begin(b, want, proxy)
      PROVE  CallFile'
  BY <1>3, BeginDoes DEF CallFile, After
<1>4. ASSUME NEW p \in Providers, BeginDelete(p)
      PROVE  CallFile'
  BY <1>4, BeginsAlone DEF BeginDelete, CallFile
<1>5. CASE Restart
  BY <1>5 DEF Restart, Idle, CallFile
<1>6. CASE LoadRoutes \/ RestoreRoute \/ RoutePassedOver \/ RoutesRestored \/ UNCHANGED vars
  <2>1. sw' = sw /\ file' = file /\ amiss'.file = amiss.file
    BY <1>6, LeftMoves DEF LoadRoutes, RestoreRoute, RoutePassedOver, RoutesRestored, vars, disk, history
  <2> QED BY <1>0, <2>1 DEF CallFile
<1> QED BY <1>1, <1>2, <1>3, <1>4, <1>5, <1>6, NextMoves

\* What a call that has ended leaves: the file it wrote under the binding it
\* saved, or both as it found them.
LEMMA CallEnds ==
  ASSUME TypeInv, BindingInv, FileInv, MatchInv, InTurn, happened.crash = 0,
         sw.pc \in {"done", "failed"}, binding[sw.agent] # Unbound, sw.agent \notin amiss.file
  PROVE  file[sw.agent] = Says(binding[sw.agent], TokenOf(sw.agent))
<1> DEFINE a == sw.agent
<1>0. CallToken /\ CallBinding /\ CallFile /\ sw \in Switches /\ PathOK
  BY InSwitch DEF BindingInv, FileInv
<1>1. CASE sw.pc = "failed"
  BY <1>0, <1>1 DEF CallBinding, CallFile, MatchInv, Before
<1>2. CASE sw.pc = "done"
  <2>1. /\ ~Restoring /\ binding[a] = [provider |-> sw.want.provider, rev |-> sw.rev]
        /\ file[a] = sw.want
    BY <1>0, <1>2 DEF CallBinding, CallFile, After
  <2>2. sw.want = [provider |-> sw.want.provider, token |-> sw.want.token]
    BY <1>0, <2>1 DEF Switches, Settings, Restoring
  <2>3. TokenOf(a) = sw.want.token
    <3>1. CASE sw.proxy
      <4>1. sw.rev > 0 /\ secret[a][sw.rev] = sw.want.token
        BY <1>0, <1>2, <3>1 DEF CallToken
      <4>2. HasToken(binding[a]) /\ binding[a].rev = sw.rev
        BY <2>1, <4>1 DEF HasToken
      <4> QED BY <4>1, <4>2 DEF TokenOf, Token
    <3>2. CASE ~sw.proxy
      <4>1. sw.rev = 0 /\ sw.want.token = NoToken
        BY <1>0, <1>2, <2>1, <3>2 DEF CallToken
      <4> QED BY <2>1, <4>1 DEF TokenOf, HasToken
    <3> QED BY <3>1, <3>2
  <2> QED BY <2>1, <2>2, <2>3 DEF Says
<1> QED BY <1>1, <1>2

\* A deletion drops the tokens of agents that are bound to nothing by then.
LEMMA DeletionKeepsTokens ==
  ASSUME TypeInv, BindingInv, InTurn, DeleteStep, NEW b \in Agents
  PROVE  binding'[b] # Unbound => binding'[b] = binding[b] /\ TokenOf(b)' = TokenOf(b)
<1>0. DeletedTokens
  BY DEF BindingInv
<1>1. CASE DeleteRows
  <2>1. secret' = secret /\ (binding'[b] # Unbound => binding'[b] = binding[b])
    BY <1>1 DEF DeleteRows
  <2> QED BY <2>1, TokenStays
<1>2. CASE del.pc = "secrets" /\ binding' = binding /\ secret' = secret
  BY <1>2, TokenStays
<1>3. ASSUME del.pc = "secrets", binding' = binding, NEW x \in del.tokens, DeleteSecret(x[1], x[2]),
             x[1] \in Agents, x[2] \in 1 .. MaxRev
      PROVE  binding'[b] # Unbound => TokenOf(b)' = TokenOf(b)
  <2>1. binding[x[1]] = Unbound
    BY <1>0, <1>3 DEF DeletedTokens
  <2>2. ASSUME HasToken(binding[b]) PROVE secret'[b][binding[b].rev] = secret[b][binding[b].rev]
    <3>1. b # x[1] /\ binding[b].rev \in 1 .. MaxRev
      BY <2>1, <2>2, BoundRev DEF HasToken
    <3> QED BY <1>3, <3>1, DropsOne
  <2> QED BY <1>3, <2>2, TokenStays
<1>4. CASE UNCHANGED <<binding, secret>>
  BY <1>4, TokenStays
<1> QED BY <1>1, <1>2, <1>3, <1>4, DeletionDoes

\* A step of a call leaves amiss what is amiss with the others, and mends its
\* own file by saving the binding only.
LEMMA CallMends ==
  ASSUME TypeInv, AmissOK, SwitchStep
  PROVE  /\ amiss.file \ {sw.agent} = amiss'.file \ {sw.agent}
         /\ amiss.selection \subseteq amiss'.selection /\ amiss'.selection \subseteq amiss.selection \cup {sw.agent}
         /\ sw'.pc \in Before => amiss.file \subseteq amiss'.file
<1>1. \/ UNCHANGED amiss
      \/ Left("file", sw.agent) \/ Left("selection", sw.agent) \/ Mended("route", sw.agent)
      \/ \E t : Left("token", t)
      \/ SaveBinding /\ Mended("file", sw.agent)
      \/ ForgetBinding /\ Mended("file", sw.agent)
  BY DEF SwitchStep, UseDirectKey, ReuseToken, CreateToken, ReplaceToken, WriteFile, WriteBeside, WriteCompanion, Verified,
       Remember, Select, RestoreSelection, SaveBinding, ForgetBinding, RegisterRoute, Unregister, RouteLeft,
       RetireToken, Return, StepFails, WriteFailsLate, RememberFailsHalfway, SelectFailsHalfway,
       UndoFile, FileLeft, UndoCompanion, CompanionLeft, UndoMemory, MemoryLeft, UndoToken, Failed, history
<1>2. SaveBinding \/ ForgetBinding => sw'.pc \notin Before
  BY SaveDoes DEF Before
<1> QED BY <1>1, <1>2, LeftMoves

LEMMA MatchStep ==
  ASSUME TypeInv, AmissOK, DeletionInv, BindingInv, FileInv, MatchInv, [Next]_vars
  PROVE  MatchInv'
<1> SUFFICES ASSUME InTurn', happened'.crash = 0 PROVE MatchInv'
  BY DEF MatchInv
<1>0. /\ InTurn /\ happened.crash = 0 /\ ~Restart /\ (sw.pc = "idle" \/ del.pc = "idle")
      /\ \A b \in Agents \ amiss.file :
           binding[b] # Unbound /\ (sw.pc = "idle" \/ b # sw.agent) => file[b] = Says(binding[b], TokenOf(b))
      /\ sw.pc \in Before /\ sw.agent \notin amiss.file /\ sw.found.binding # Unbound
           => sw.found.file = Says(sw.found.binding, sw.found.token)
  BY InTurnFacts, CountsGrow DEF MatchInv
<1> USE DEF Says
<1>1. CASE SwitchStep
  <2>0. sw.pc # "idle" /\ sw \in Switches /\ sw.agent \in Agents
    BY <1>1, SwitchAlone, InSwitch
  <2>1. \A b \in Agents \ {sw.agent} :
          b \notin amiss'.file /\ binding'[b] # Unbound
            => file'[b] = [provider |-> binding'[b].provider, token |-> TokenOf(b)']
    BY <1>0, <1>1, OthersStay, CallMends
  <2>2. CASE Return
    <3>1. sw.pc \in {"done", "failed"} /\ sw' = Idle /\ UNCHANGED <<binding, secret, file, amiss>>
      BY <2>2 DEF Return, database, disk, history
    <3>2. \A b \in Agents : TokenOf(b)' = TokenOf(b)
      BY <3>1 DEF TokenOf, Token
    <3>3. binding[sw.agent] # Unbound /\ sw.agent \notin amiss.file
            => file[sw.agent] = Says(binding[sw.agent], TokenOf(sw.agent))
      BY <1>0, <3>1, CallEnds
    <3> QED BY <2>1, <3>1, <3>2, <3>3 DEF MatchInv, Idle, Before
  <2>3. CASE /\ sw'.agent = sw.agent /\ sw'.found = sw.found /\ sw'.pc # "idle"
             /\ sw'.pc \in Before => sw.pc \in Before
    BY <1>0, <1>1, <2>0, <2>1, <2>3, CallMends DEF MatchInv
  <2>4. Return \/ (/\ sw'.agent = sw.agent /\ sw'.found = sw.found /\ sw'.pc # "idle"
                   /\ sw'.pc \in Before => sw.pc \in Before)
    <3>1. CASE QuietCall
      BY <3>1 DEF QuietCall, Carried, Before
    <3> QED
      BY <1>1, <3>1, SwitchMoves, ReuseTokenDoes, NewTokenDoes, SaveDoes, RegisterRouteDoes,
         UnregisterDoes, RouteLeftDoes, RetireTokenDoes, UndoTokenDoes DEF Carried, Before
  <2> QED BY <2>2, <2>3, <2>4
<1>2. CASE DeleteStep
  <2>0. sw.pc = "idle" /\ sw' = sw
    BY <1>0, <1>2, DeletionDoes
  <2>a. amiss'.file = amiss.file
    BY <1>2, LeftMoves DEF DeleteStep, DeleteRows, DeleteSecrets, Deleted, RestoreFile, RestoreSkipped, RestoreRest, history
  <2>1. ASSUME NEW b \in Agents, binding'[b] # Unbound
        PROVE  file'[b] = file[b]
    <3>1. binding[b] # Unbound
      BY <1>0, <1>2, <2>1, DeletionKeepsTokens
    <3>2. ASSUME NEW c \in Agents, RestoreFile(c) \/ RestoreSkipped(c) PROVE file'[b] = file[b]
      <4>1. binding[c] = Unbound /\ \E left : file' = [file EXCEPT ![c] = left]
        BY <3>2, InTurnFacts DEF RestoreFile, RestoreSkipped
      <4> QED BY <3>1, <4>1 DEF TypeInv, FilesOK
    <3> QED BY <1>2, <3>2 DEF DeleteStep, DeleteRows, DeleteSecrets, Deleted, RestoreRest, disk
  <2> QED BY <1>0, <1>2, <2>0, <2>a, <2>1, DeletionKeepsTokens DEF MatchInv, Before
<1>3. ASSUME NEW b \in Agents, NEW want \in Settings, NEW proxy \in BOOLEAN, Begin(b, want, proxy)
      PROVE  MatchInv'
  <2>1. \A c \in Agents : TokenOf(c)' = TokenOf(c)
    BY <1>3, BeginDoes DEF TokenOf, Token
  <2> QED BY <1>0, <1>3, <2>1, BeginDoes DEF MatchInv
<1>4. CASE UNCHANGED <<binding, secret, file, sw>> /\ amiss'.file = amiss.file
  <2>1. \A c \in Agents : TokenOf(c)' = TokenOf(c)
    BY <1>4 DEF TokenOf, Token
  <2> QED BY <1>0, <1>4, <2>1 DEF MatchInv
<1>5. (\E p \in Providers : BeginDelete(p)) \/ LoadRoutes \/ RestoreRoute \/ RoutePassedOver \/ RoutesRestored \/ UNCHANGED vars
        => UNCHANGED <<binding, secret, file, sw>> /\ amiss'.file = amiss.file
  BY LeftMoves DEF BeginDelete, LoadRoutes, RestoreRoute, RoutePassedOver, RoutesRestored, vars, database, disk, history
<1> QED BY <1>0, <1>1, <1>2, <1>3, <1>4, <1>5, NextMoves

\* The invariants that need nothing of the constants.
CallsInv ==
  TypeInv /\ AmissOK /\ BoundProvidersExist /\ DeletionInv /\ SecretsDistinct /\ BindingInv /\ FileInv /\ MatchInv

LEMMA CallsInit == Init => CallsInv
<1> SUFFICES ASSUME Init PROVE CallsInv
  OBVIOUS
<1>1. TypeInv /\ AmissOK
  BY TypeInit
<1>2. /\ \A a \in Agents : binding[a] = Unbound
      /\ \A a \in Agents, r \in 1 .. MaxRev : secret[a][r] = NoToken
      /\ sw.pc = "idle" /\ del.pc = "idle"
  BY DEF Init, Idle
<1>3. BoundProvidersExist /\ DeletionInv
  BY <1>2 DEF BoundProvidersExist, DeletionInv
<1>4. SecretsDistinct
  BY <1>2 DEF SecretsDistinct
<1>5. BindingInv
  BY <1>2 DEF BindingInv, TokensStored, CallToken, CallBinding, DeletedTokens, HasToken
<1>6. FileInv /\ MatchInv
  BY <1>2 DEF FileInv, CallFile, MatchInv, Before
<1> QED BY <1>1, <1>3, <1>4, <1>5, <1>6 DEF CallsInv

LEMMA CallsStep ==
  ASSUME CallsInv, [Next]_vars
  PROVE  CallsInv'
BY TypeInvStep, AmissStep, BoundStep, DeletionStep, SecretsDistinctStep, BindingStep, FileStep, MatchStep DEF CallsInv

\* Unless a deletion overlaps a call, the program is stopped in the middle of
\* one or a file could not be put back, the provider and the token that the
\* window shows an agent to be bound to are those its file names
\* (BindingMatchesFile).
THEOREM BindingsAreWritten == Spec => []BindingMatchesFile
<1>1. ASSUME CallsInv PROVE BindingMatchesFile
  <2> SUFFICES ASSUME InTurn, Settled, happened.crash = 0, NEW a \in Agents, binding[a] # Unbound,
                      a \notin amiss.file
               PROVE  file[a] = Says(binding[a], TokenOf(a))
    BY DEF BindingMatchesFile, Says
  <2>1. CASE sw.pc = "idle" \/ a # sw.agent
    BY <1>1, <2>1 DEF CallsInv, MatchInv
  <2>2. CASE sw.pc \in {"done", "failed"} /\ a = sw.agent
    BY <1>1, <2>2, CallEnds DEF CallsInv
  <2> QED BY <2>1, <2>2 DEF Settled
<1>2. CallsInv /\ [Next]_vars => CallsInv'
  BY CallsStep
<1> QED BY CallsInit, <1>1, <1>2, PTL DEF Spec

-----------------------------------------------------------------------------
(* What is remembered, and what is beside the file *)

LEMMA MemoryStep ==
  ASSUME TypeInv, DeletionInv, MemoryInv, [Next]_vars
  PROVE  MemoryInv'
<1> SUFFICES ASSUME InTurn' PROVE CallMemory'
  BY DEF MemoryInv
<1>0. CallMemory /\ (sw.pc = "idle" \/ del.pc = "idle")
  BY InTurnFacts DEF MemoryInv
<1> DEFINE a == sw.agent
<1>1. CASE SwitchStep
  <2>0. /\ sw.pc # "idle" /\ a \in Agents /\ memory \in [Agents -> Settings \cup {Forgotten}]
        /\ sw.pc \notin {"undo", "failed"} => sw.lost = {}
    BY <1>1, SwitchAlone, InSwitch DEF TypeInv, StoresOK, PathOK
  <2>1. CASE UseDirectKey
    BY <1>0, <2>0, <2>1, UseDirectKeyDoes DEF CallMemory, Carried, BackupKept, Before
  <2>2. CASE ReuseToken \/ CreateToken \/ ReplaceToken
    BY <1>0, <2>0, <2>2, ReuseTokenDoes, NewTokenDoes DEF CallMemory, Carried, BackupKept, Before
  <2>3. CASE WriteFile
    BY <1>0, <2>0, <2>3, WriteFileDoes DEF CallMemory, Carried, WantKept, Before
  <2>4. CASE WriteBeside \/ Select
    BY <1>0, <2>0, <2>4, WriteCompanionDoes DEF CallMemory, Carried, WantKept, Before, Restoring
  <2>5. CASE Verified
    BY <1>0, <2>0, <2>5, VerifiedDoes DEF CallMemory, Carried, WantKept, BackupKept, Before, Restoring
  <2>6. CASE Remember
    BY <1>0, <2>0, <2>6, RememberDoes DEF CallMemory, Carried, WantKept, Before, Restoring
  <2>7. CASE RestoreSelection
    BY <1>0, <2>0, <2>7, RestoreSelectionDoes DEF CallMemory, Carried, WantKept, Before, Restoring
  <2>8. CASE SaveBinding \/ ForgetBinding
    BY <1>0, <2>0, <2>8, SaveDoes DEF CallMemory, Carried, WantKept, BackupKept, Before, Restoring
  <2>9. CASE RegisterRoute \/ Unregister \/ RouteLeft \/ RetireToken
    BY <1>0, <2>0, <2>9, RegisterRouteDoes, UnregisterDoes, RouteLeftDoes, RetireTokenDoes
       DEF CallMemory, Carried, WantKept, BackupKept, Before, Restoring
  <2>10. CASE Failure
    <3>0. /\ sw.pc \in Steppable /\ sw'.pc = "undo" /\ Carried /\ WantKept /\ sw'.remembered = sw.remembered
          /\ Kind[a] = "session" /\ ~Restoring /\ sw.pc \in {"remember", "select", "save"} => "memory" \in sw'.undo
      BY <2>10, FailureDoes, ToUndo
    <3>1. CASE RememberFailsHalfway
      <4>1. sw.pc = "remember" /\ "memory" \in sw'.lost /\ memory[a] = Forgotten
        BY <2>10, <3>1, FailureDoes
      <4> QED BY <1>0, <2>0, <3>0, <4>1 DEF CallMemory, Carried, WantKept, Before
    <3>2. CASE ~RememberFailsHalfway
      <4>1. memory' = memory
        BY <2>10, <3>2, FailureDoes DEF Failure
      <4> QED BY <1>0, <2>0, <3>0, <4>1 DEF CallMemory, Carried, WantKept, Before, Steppable, Restoring
    <3> QED BY <3>1, <3>2
  <2>11. CASE UndoMemory \/ MemoryLeft
    <3>1. sw.pc = "undo" /\ sw'.pc = "undo" /\ Carried /\ WantKept /\ BackupKept
      BY <2>11, UndoingDoes DEF Undoing
    <3> QED
      BY <1>0, <2>0, <2>11, <3>1, UndoMemoryDoes, MemoryLeftDoes
         DEF CallMemory, Carried, WantKept, BackupKept, Before, Restoring
  <2>12. CASE CompanionLeft
    <3>1. sw.pc = "undo" /\ sw'.pc = "undo" /\ Carried /\ WantKept /\ BackupKept
      BY <2>12, UndoingDoes DEF Undoing
    <3> QED
      BY <1>0, <2>0, <2>12, <3>1, CompanionLeftDoes DEF CallMemory, Carried, WantKept, BackupKept, Before, Restoring
  <2>13. CASE UndoFile \/ FileLeft \/ UndoCompanion \/ UndoToken
    <3>1. sw.pc = "undo" /\ sw'.pc = "undo" /\ Carried /\ WantKept /\ BackupKept
      BY <2>13, UndoingDoes, UndoTokenDoes DEF Undoing
    <3>2. /\ memory' = memory /\ ("memory" \in sw'.undo <=> "memory" \in sw.undo)
          /\ "memory" \in sw'.lost <=> "memory" \in sw.lost
      BY <2>13, UndoFileDoes, FileLeftDoes, UndoCompanionDoes, UndoTokenDoes
    <3> QED BY <1>0, <3>1, <3>2 DEF CallMemory, Carried, WantKept, BackupKept, Before, Restoring
  <2>14. CASE Failed
    BY <1>0, <2>0, <2>14, FailedDoes DEF CallMemory, Carried, WantKept, BackupKept, Before, Restoring
  <2>15. CASE Return
    BY <2>15 DEF Return, Idle, CallMemory
  <2> QED
    BY <1>1, <2>1, <2>2, <2>3, <2>4, <2>5, <2>6, <2>7, <2>8, <2>9, <2>10, <2>11, <2>12,
       <2>13, <2>14, <2>15 DEF SwitchStep, Failure
<1>2. CASE DeleteStep
  BY <1>0, <1>2, DeletionDoes DEF CallMemory
<1>3. ASSUME NEW b \in Agents, NEW want \in Settings, NEW proxy \in BOOLEAN, Begin(b, want, proxy)
      PROVE  CallMemory'
  BY <1>3, BeginDoes DEF CallMemory
<1>4. ASSUME NEW p \in Providers, BeginDelete(p)
      PROVE  CallMemory'
  BY <1>4, BeginsAlone DEF BeginDelete, CallMemory
<1>5. CASE Restart
  BY <1>5 DEF Restart, Idle, CallMemory
<1>6. CASE LoadRoutes \/ RestoreRoute \/ RoutePassedOver \/ RoutesRestored \/ UNCHANGED vars
  BY <1>0, <1>6 DEF CallMemory, LoadRoutes, RestoreRoute, RoutePassedOver, RoutesRestored, vars, database, Restoring
<1> QED BY <1>1, <1>2, <1>3, <1>4, <1>5, <1>6, NextMoves

LEMMA CompanionStep ==
  ASSUME OneLayer, TypeInv, DeletionInv, CompanionInv, [Next]_vars
  PROVE  CompanionInv'
<1> SUFFICES ASSUME InTurn' PROVE CallCompanion'
  BY DEF CompanionInv
<1>0. CallCompanion /\ (sw.pc = "idle" \/ del.pc = "idle")
  BY InTurnFacts DEF CompanionInv
<1> DEFINE a == sw.agent
<1>1. CASE SwitchStep
  <2>0. /\ sw.pc # "idle" /\ a \in Agents /\ companion \in [Agents -> Settings] /\ PathOK /\ sw # Idle
        /\ Kind[a] \in {"plain", "session"} /\ (sw.pc \notin {"undo", "failed"} => sw.lost = {})
    BY <1>1, SwitchAlone, InSwitch DEF TypeInv, FilesOK, OneLayer, PathOK
  <2>1. CASE UseDirectKey \/ ReuseToken \/ CreateToken \/ ReplaceToken
    BY <1>0, <2>0, <2>1, UseDirectKeyDoes, ReuseTokenDoes, NewTokenDoes DEF CallCompanion, Carried, BackupKept
  <2>2. CASE WriteFile
    BY <1>0, <2>0, <2>2, WriteFileDoes DEF CallCompanion, Carried
  <2>3. CASE WriteBeside
    BY <1>0, <2>0, <2>3, WriteCompanionDoes DEF CallCompanion, Carried
  <2>4. CASE Select
    BY <1>0, <2>0, <2>4, WriteCompanionDoes DEF CallCompanion, Carried, WantKept, Restoring
  <2>5. CASE Verified \/ Remember
    BY <1>0, <2>0, <2>5, VerifiedDoes, RememberDoes DEF CallCompanion, Carried
  <2>6. CASE RestoreSelection
    BY <1>0, <2>0, <2>6, RestoreSelectionDoes DEF CallCompanion, Carried, WantKept, Restoring, Original
  <2>7. CASE SaveBinding \/ ForgetBinding \/ RegisterRoute \/ Unregister \/ RouteLeft \/ RetireToken
    BY <2>7, SaveDoes, RegisterRouteDoes, UnregisterDoes, RouteLeftDoes, RetireTokenDoes DEF CallCompanion
  <2>8. CASE Failure
    <3>0. /\ sw.pc \in Steppable /\ sw'.pc = "undo" /\ Carried
          /\ "companion" \in sw'.undo <=> Kind[a] = "session" /\ sw.pc \in {"select", "save"}
          /\ sw'.companion = IF sw.pc \in {"companion", "select"} THEN companion[a] ELSE sw.companion
      BY <2>0, <2>8, FailureDoes, ToUndo
    <3>1. CASE SelectFailsHalfway
      <4>1. Kind[a] = "session" /\ sw.pc = "select"
        BY <2>0, <2>8, <3>1, FailureDoes
      <4> QED BY <1>0, <2>0, <3>0, <4>1 DEF CallCompanion, Carried
    <3>2. CASE ~SelectFailsHalfway
      <4>1. companion' = companion
        BY <2>8, <3>2, FailureDoes DEF Failure
      <4> QED BY <1>0, <2>0, <3>0, <4>1 DEF CallCompanion, Carried, Steppable
    <3> QED BY <3>1, <3>2
  <2>9. CASE UndoCompanion
    <3>1. sw.pc = "undo" /\ sw'.pc = "undo" /\ Carried
      BY <2>9, UndoingDoes DEF Undoing
    <3> QED BY <1>0, <2>0, <2>9, <3>1, UndoCompanionDoes DEF CallCompanion, Carried
  <2>10. CASE CompanionLeft
    <3>1. sw.pc = "undo" /\ sw'.pc = "undo" /\ Carried
      BY <2>10, UndoingDoes DEF Undoing
    <3> QED BY <1>0, <2>0, <2>10, <3>1, CompanionLeftDoes DEF CallCompanion, Carried
  <2>11. CASE UndoFile \/ FileLeft \/ UndoMemory \/ MemoryLeft \/ UndoToken
    <3>1. sw.pc = "undo" /\ sw'.pc = "undo" /\ Carried /\ BackupKept
      BY <2>11, UndoingDoes, UndoTokenDoes DEF Undoing
    <3>2. /\ companion' = companion /\ ("companion" \in sw'.undo <=> "companion" \in sw.undo)
          /\ "companion" \in sw'.lost <=> "companion" \in sw.lost
      BY <2>11, UndoFileDoes, FileLeftDoes, UndoMemoryDoes, MemoryLeftDoes, UndoTokenDoes
    <3> QED BY <1>0, <3>1, <3>2 DEF CallCompanion, Carried, BackupKept
  <2>12. CASE Failed
    BY <1>0, <2>0, <2>12, FailedDoes DEF CallCompanion, Carried
  <2>13. CASE Return
    BY <2>13 DEF Return, Idle, CallCompanion
  <2> QED
    BY <1>1, <2>1, <2>2, <2>3, <2>4, <2>5, <2>6, <2>7, <2>8, <2>9, <2>10, <2>11, <2>12, <2>13
       DEF SwitchStep, Failure
<1>2. CASE DeleteStep
  BY <1>0, <1>2, DeletionDoes DEF CallCompanion
<1>3. ASSUME NEW b \in Agents, NEW want \in Settings, NEW proxy \in BOOLEAN, Begin(b, want, proxy)
      PROVE  CallCompanion'
  BY <1>3, BeginDoes DEF CallCompanion
<1>4. ASSUME NEW p \in Providers, BeginDelete(p)
      PROVE  CallCompanion'
  BY <1>4, BeginsAlone DEF BeginDelete, CallCompanion
<1>5. CASE Restart
  BY <1>5 DEF Restart, Idle, CallCompanion
<1>6. CASE LoadRoutes \/ RestoreRoute \/ RoutePassedOver \/ RoutesRestored \/ UNCHANGED vars
  BY <1>0, <1>6 DEF CallCompanion, LoadRoutes, RestoreRoute, RoutePassedOver, RoutesRestored, vars, disk, Restoring
<1> QED BY <1>1, <1>2, <1>3, <1>4, <1>5, <1>6, NextMoves

-----------------------------------------------------------------------------
(* Routes *)

\* The tokens of two bindings differ, and so do a binding's and a call's.
LEMMA TokensDiffer ==
  ASSUME TypeInv, SecretsDistinct, NEW a \in Agents, NEW b \in Agents, a # b, NEW r \in 1 .. MaxRev,
         HasToken(binding[a]), TokenOf(a) # NoToken
  PROVE  TokenOf(a) # secret[b][r]
<1>1. binding[a].rev \in 1 .. MaxRev /\ TokenOf(a) = secret[a][binding[a].rev]
  BY BoundRev
<1> QED BY <1>1 DEF SecretsDistinct

\* A call that saves a binding, and the token it registers.
LEMMA RegisteredToken ==
  ASSUME TypeInv, BindingInv, InTurn, sw.pc = "route", sw.proxy
  PROVE  /\ ~Restoring /\ HasToken(binding[sw.agent]) /\ binding[sw.agent].provider = sw.want.provider
         /\ TokenOf(sw.agent) = sw.want.token /\ sw.rev \in 1 .. MaxRev
         /\ secret[sw.agent][sw.rev] = sw.want.token /\ sw.want.token # NoToken
         /\ HasToken(sw.previous) => \/ Token(sw.agent, sw.previous) = sw.want.token
                                     \/ Token(sw.agent, sw.previous) \in amiss.token
<1>0. CallToken /\ CallBinding /\ sw \in Switches /\ PathOK /\ sw # Idle
  BY InSwitch DEF BindingInv
<1>1. ~Restoring /\ sw.rev > 0 /\ sw.want.token # NoToken /\ secret[sw.agent][sw.rev] = sw.want.token
  BY <1>0 DEF PathOK, CallToken
<1>2. binding[sw.agent] = [provider |-> sw.want.provider, rev |-> sw.rev]
  BY <1>0, <1>1 DEF CallBinding, After
<1>3. HasToken(binding[sw.agent]) /\ binding[sw.agent].rev = sw.rev /\ binding[sw.agent].provider = sw.want.provider
  BY <1>1, <1>2, <1>0, NullsAssumption DEF HasToken, Switches, Settings, Restoring
<1>4. sw.rev \in 1 .. MaxRev
  BY <1>0, <1>1, BoundsAssumption DEF Switches
<1>5. TokenOf(sw.agent) = sw.want.token
  BY <1>1, <1>3 DEF TokenOf, Token
<1>6. HasToken(sw.previous) => sw.rev = sw.previous.rev \/ Token(sw.agent, sw.previous) \in amiss.token
  BY <1>0 DEF CallToken
<1> QED BY <1>1, <1>3, <1>4, <1>5, <1>6 DEF Token

\* When the boot is over and no agent is bound anew, what matters is that the
\* tokens of bindings, and the routes they name, stay.
LEMMA ServedStays ==
  ASSUME TypeInv, NEW b \in Agents, Served(b), boot.pc = "done", ~(sw.pc = "route" /\ sw.agent = b),
         binding'[b] = binding[b], TokenOf(b)' = TokenOf(b), routes'[TokenOf(b)] = routes[TokenOf(b)],
         b \in amiss.route => b \in amiss'.route
  PROVE  Served(b)'
BY DEF Served

LEMMA BootDone ==
  ASSUME TypeInv, RoutesInv, InTurn, sw.pc # "idle" \/ del.pc # "idle"
  PROVE  boot.pc = "done"
BY DEF RoutesInv, BootInv

\* A route that is amiss stays so until it is registered or the program is
\* started again.
LEMMA AmissStays ==
  ASSUME TypeInv, AmissOK,
         \/ SwitchStep \/ DeleteStep \/ LoadRoutes \/ RestoreRoute \/ RoutePassedOver \/ RoutesRestored
         \/ UNCHANGED vars
         \/ \E a \in Agents, want \in Settings, proxy \in BOOLEAN : Begin(a, want, proxy)
         \/ \E p \in Providers : BeginDelete(p)
  PROVE  amiss.token \subseteq amiss'.token /\ (RegisterRoute \/ amiss.route \subseteq amiss'.route)
<1> USE DEF history
<1> DEFINE Stay == \/ UNCHANGED amiss
                   \/ \E x : Left("file", x) \/ Left("selection", x) \/ Left("route", x) \/ Left("token", x)
                   \/ \E x : Mended("file", x)
                   \/ RegisterRoute /\ Mended("route", sw.agent)
<1>1. CASE SwitchStep
  <2>1. Stay
    BY <1>1 DEF SwitchStep, UseDirectKey, ReuseToken, CreateToken, ReplaceToken, WriteFile, WriteBeside, WriteCompanion, Verified,
       Remember, Select, RestoreSelection, SaveBinding, ForgetBinding, RegisterRoute, Unregister, RouteLeft,
       RetireToken, Return, StepFails, WriteFailsLate, RememberFailsHalfway, SelectFailsHalfway,
       UndoFile, FileLeft, UndoCompanion, CompanionLeft, UndoMemory, MemoryLeft, UndoToken, Failed
  <2> QED BY <2>1, LeftMoves
<1>2. CASE DeleteStep
  <2>1. Stay
    BY <1>2 DEF DeleteStep, DeleteRows, DeleteSecrets, Deleted, RestoreFile, RestoreSkipped, RestoreRest
  <2> QED BY <2>1, LeftMoves
<1>3. CASE \/ LoadRoutes \/ RestoreRoute \/ RoutePassedOver \/ RoutesRestored \/ UNCHANGED vars
           \/ \E a \in Agents, want \in Settings, proxy \in BOOLEAN : Begin(a, want, proxy)
           \/ \E p \in Providers : BeginDelete(p)
  <2>1. Stay
    BY <1>3 DEF LoadRoutes, RestoreRoute, RoutePassedOver, RoutesRestored, vars, Begin, BeginDelete
  <2> QED BY <2>1, LeftMoves
<1> QED BY <1>1, <1>2, <1>3

LEMMA RoutesSwitchStep ==
  ASSUME TypeInv, AmissOK, DeletionInv, SecretsDistinct, BindingInv, RoutesInv, SwitchStep, InTurn, InTurn'
  PROVE  RoutesInv'
<1> DEFINE a == sw.agent
<1>0. /\ sw.pc # "idle" /\ a \in Agents /\ boot.pc = "done" /\ boot' = boot /\ providers' = providers
      /\ sw \in Switches /\ PathOK /\ sw # Idle /\ providers \subseteq Providers
      /\ routes \in [Tokens -> Providers \cup {NoRoute}]
  BY SwitchAlone, InSwitch, BootDone DEF TypeInv, StoresOK
<1>1. /\ TokensStored /\ CallToken /\ CallBinding
      /\ \A b \in Agents : HasToken(binding[b]) => Served(b)
      /\ \A t \in Tokens : routes[t] \in providers => Owned(t)
      /\ sw.pc \in Before => routes = sw.found.routes
  BY DEF BindingInv, RoutesInv
<1>2. BootInv'
  BY <1>0 DEF BootInv
<1>3. \A b \in Agents \ {a} : binding'[b] = binding[b] /\ TokenOf(b)' = TokenOf(b)
  BY OthersStay
<1>4. \A b \in Agents : HasToken(binding[b]) => TokenOf(b) \in Tokens
  BY <1>1, BoundRev DEF TokensStored
<1>5. NoRoute \notin providers
  BY <1>0, NullsAssumption
<1>b. amiss.token \subseteq amiss'.token /\ (RegisterRoute \/ amiss.route \subseteq amiss'.route)
  BY AmissStays
\* Steps that leave the routes, the agent's binding and its token.
<1>a. ASSUME routes' = routes, binding'[a] = binding[a],
             \A b \in Agents : b = a /\ HasToken(binding[b]) => TokenOf(b)' = TokenOf(b),
             sw.pc # "route", sw'.pc # "route", Carried, sw'.pc \in Before => sw.pc \in Before,
             amiss.route \subseteq amiss'.route
      PROVE  RoutesInv'
  <2>1. \A b \in Agents : HasToken(binding'[b]) => Served(b)'
    <3> SUFFICES ASSUME NEW b \in Agents, HasToken(binding'[b]) PROVE Served(b)'
      OBVIOUS
    <3>1. binding'[b] = binding[b] /\ TokenOf(b)' = TokenOf(b) /\ HasToken(binding[b])
      BY <1>3, <1>a DEF HasToken
    <3> QED BY <1>0, <1>1, <1>a, <3>1, ServedStays
  <2>2. \A t \in Tokens : routes'[t] \in providers' => Owned(t)'
    <3> SUFFICES ASSUME NEW t \in Tokens, routes'[t] \in providers', t \notin amiss.token PROVE Owned(t)'
      BY <1>b DEF Owned
    <3>1. PICK b \in Agents : HasToken(binding[b]) /\ TokenOf(b) = t /\ routes[t] = binding[b].provider
      BY <1>0, <1>1, <1>a DEF Owned
    <3>2. binding'[b] = binding[b] /\ TokenOf(b)' = TokenOf(b)
      BY <1>3, <1>a, <3>1
    <3> QED BY <1>a, <3>1, <3>2 DEF Owned, HasToken
  <2>3. sw'.pc \in Before => routes' = sw'.found.routes
    BY <1>1, <1>a DEF Carried, Before
  <2> QED BY <1>2, <2>1, <2>2, <2>3 DEF RoutesInv, HasToken
<1>6. CASE QuietCall
  <2>1. \A b \in Agents : TokenOf(b)' = TokenOf(b)
    BY <1>6 DEF QuietCall, TokenOf, Token
  <2> QED BY <1>a, <1>6, <2>1 DEF QuietCall, Before, Carried
<1>7. CASE ReuseToken
  <2>1. \A b \in Agents : TokenOf(b)' = TokenOf(b)
    BY <1>7, ReuseTokenDoes DEF TokenOf, Token
  <2> QED BY <1>a, <1>7, <2>1, ReuseTokenDoes DEF Before, Carried
<1>8. CASE CreateToken \/ ReplaceToken
  <2>1. ASSUME HasToken(binding[a]) PROVE TokenOf(a)' = TokenOf(a)
    <3>1. PICK b \in Agents, r \in 1 .. MaxRev, t \in Tokens : b = a /\ r = sw'.rev /\ r = NextRev(a) /\ Stores(b, r, t)
      BY <1>0, <1>8, NewTokenDoes DEF Stores
    <3>2. binding[b].rev \in 1 .. MaxRev /\ binding[b] # Unbound
      BY <2>1, <3>1, BoundRev DEF HasToken
    <3>3. r # binding[b].rev
      BY <3>1, <3>2, BoundsAssumption DEF NextRev
    <3>4. binding' = binding /\ secret'[b][binding[b].rev] = secret[b][binding[b].rev]
      BY <1>8, <3>1, <3>2, <3>3, SecretSet, NewTokenDoes
    <3>5. TokenOf(b)' = TokenOf(b)
      BY <3>4, TokenStays
    <3>6. sw'.agent = a
      BY <1>8, NewTokenDoes DEF Carried
    <3> QED BY <3>1, <3>5, <3>6
  <2> QED BY <1>a, <1>b, <1>8, <2>1, NewTokenDoes DEF Before, Carried, RegisterRoute
<1>9. CASE SaveBinding \/ ForgetBinding
  <2>1. /\ sw.pc = "save" /\ sw'.pc = "route" /\ sw'.agent = a /\ sw'.previous = sw.previous
        /\ secret' = secret /\ routes' = routes
    BY <1>9, SaveDoes DEF Carried
  <2>a. amiss.route \subseteq amiss'.route
    BY <1>9, SaveDoes, LeftMoves
  <2>2. \A b \in Agents : HasToken(binding'[b]) => Served(b)'
    <3> SUFFICES ASSUME NEW b \in Agents, b # a, HasToken(binding'[b]) PROVE Served(b)'
      BY <2>1 DEF Served
    <3>1. binding'[b] = binding[b] /\ TokenOf(b)' = TokenOf(b) /\ HasToken(binding[b])
      BY <1>3 DEF HasToken
    <3> QED BY <1>0, <1>1, <2>1, <2>a, <3>1, ServedStays
  <2>3. \A t \in Tokens : routes'[t] \in providers' => Owned(t)'
    <3> SUFFICES ASSUME NEW t \in Tokens, routes'[t] \in providers', t \notin amiss.token PROVE Owned(t)'
      BY <1>b DEF Owned
    <3>1. PICK b \in Agents : HasToken(binding[b]) /\ TokenOf(b) = t /\ routes[t] = binding[b].provider
      BY <1>0, <1>1, <2>1 DEF Owned
    <3>2. CASE b # a
      BY <1>3, <2>1, <3>1, <3>2 DEF Owned, HasToken
    <3>3. CASE b = a
      <4>1. sw.previous = binding[a]
        BY <1>0, <1>1, <2>1 DEF CallBinding, Before
      <4>2. Token(a, sw.previous)' = t /\ HasToken(sw.previous)
        <5>1. TokenOf(a) = secret[a][binding[a].rev]
          BY <1>0, <3>1, <3>3, BoundRev
        <5> QED BY <2>1, <3>1, <3>3, <4>1, <5>1 DEF Token, HasToken
      <4> QED BY <2>1, <4>2 DEF Owned, Token, HasToken
    <3> QED BY <3>2, <3>3
  <2> QED BY <1>2, <2>1, <2>2, <2>3 DEF RoutesInv, HasToken, Before
<1>10. CASE RegisterRoute
  <2>1. /\ sw.pc = "route" /\ sw.proxy /\ sw'.pc = "done" /\ Carried /\ binding' = binding /\ secret' = secret
        /\ routes' = [routes EXCEPT ![sw.want.token] = sw.want.provider]
    BY <1>10, RegisterRouteDoes
  <2>2. /\ HasToken(binding[a]) /\ binding[a].provider = sw.want.provider
        /\ TokenOf(a) = sw.want.token /\ sw.rev \in 1 .. MaxRev
        /\ secret[a][sw.rev] = sw.want.token /\ sw.want.token # NoToken
        /\ HasToken(sw.previous) => Token(a, sw.previous) = sw.want.token \/ Token(a, sw.previous) \in amiss.token
    BY <2>1, RegisteredToken
  <2>a. amiss.route \ {a} \subseteq amiss'.route
    BY <1>10, RegisterRouteDoes, LeftMoves
  <2>3. /\ \A b \in Agents : TokenOf(b)' = TokenOf(b)
        /\ \A t \in Tokens : routes'[t] = IF t = TokenOf(a) THEN binding[a].provider ELSE routes[t]
    BY <1>0, <2>1, <2>2 DEF TokenOf, Token
  <2>4. \A b \in Agents \ {a} : HasToken(binding[b]) => TokenOf(b) # TokenOf(a)
    BY <1>0, <1>1, <2>2, TokensDiffer DEF TokensStored
  <2>5. \A b \in Agents : HasToken(binding'[b]) => Served(b)'
    <3> SUFFICES ASSUME NEW b \in Agents, HasToken(binding[b]) PROVE Served(b)'
      BY <2>1
    <3>1. CASE b = a
      BY <1>0, <1>4, <2>1, <2>2, <2>3, <3>1 DEF Served
    <3>2. CASE b # a
      BY <1>0, <1>1, <1>4, <2>1, <2>3, <2>4, <2>a, <3>2, ServedStays
    <3> QED BY <3>1, <3>2
  <2>6. \A t \in Tokens : routes'[t] \in providers' => Owned(t)'
    <3> SUFFICES ASSUME NEW t \in Tokens, routes'[t] \in providers', t \notin amiss.token PROVE Owned(t)'
      BY <1>b DEF Owned
    <3>1. CASE t = TokenOf(a)
      BY <1>0, <2>1, <2>2, <2>3, <3>1 DEF Owned
    <3>2. CASE t # TokenOf(a)
      <4>1. PICK b \in Agents : HasToken(binding[b]) /\ TokenOf(b) = t /\ routes[t] = binding[b].provider
        BY <1>0, <1>1, <2>2, <2>3, <3>2 DEF Owned
      <4> QED BY <2>1, <2>3, <3>2, <4>1 DEF Owned
    <3> QED BY <3>1, <3>2
  <2> QED BY <1>2, <2>1, <2>5, <2>6 DEF RoutesInv, HasToken, Before
<1>11. CASE Unregister
  <2>1. /\ sw.pc = "route" /\ ~sw.proxy /\ sw'.pc \in {"retire", "done"} /\ Carried /\ binding' = binding /\ secret' = secret
        /\ routes' = IF HasToken(sw.previous) /\ Token(a, sw.previous) # NoToken
                       THEN [routes EXCEPT ![Token(a, sw.previous)] = NoRoute] ELSE routes
    BY <1>11, UnregisterDoes
  <2>2. ~HasToken(binding[a])
    BY <1>0, <1>1, <2>1 DEF CallToken, CallBinding, After, HasToken
  <2>3. \A b \in Agents : TokenOf(b)' = TokenOf(b)
    BY <2>1 DEF TokenOf, Token
  <2>4. \A b \in Agents : HasToken(binding[b]) /\ HasToken(sw.previous) => TokenOf(b) # Token(a, sw.previous)
    <3> SUFFICES ASSUME NEW b \in Agents, HasToken(binding[b]), HasToken(sw.previous)
                 PROVE  TokenOf(b) # Token(a, sw.previous)
      OBVIOUS
    <3>1. PICK c \in Agents, r \in 1 .. MaxRev : c = a /\ r = sw.previous.rev /\ Token(a, sw.previous) = secret[a][r]
      BY <1>0, PreviousRev
    <3> QED BY <1>1, <2>2, <3>1, TokensDiffer DEF TokensStored
  <2>5. \A b \in Agents : HasToken(binding'[b]) => Served(b)'
    <3> SUFFICES ASSUME NEW b \in Agents, HasToken(binding[b]) PROVE Served(b)'
      BY <2>1
    <3>1. routes'[TokenOf(b)] = routes[TokenOf(b)] /\ b # a
      BY <1>0, <1>4, <2>1, <2>2, <2>4
    <3>2. amiss' = amiss
      BY <1>11, UnregisterDoes
    <3> QED BY <1>0, <1>1, <2>1, <2>3, <3>1, <3>2, ServedStays
  <2>6. \A t \in Tokens : routes'[t] \in providers' => Owned(t)'
    <3> SUFFICES ASSUME NEW t \in Tokens, routes'[t] \in providers', t \notin amiss.token PROVE Owned(t)'
      BY <1>b DEF Owned
    <3>1. routes'[t] = routes[t] /\ ~(HasToken(sw.previous) /\ Token(a, sw.previous) = t)
      BY <1>0, <1>5, <2>1, NullsAssumption
    <3>2. PICK b \in Agents : HasToken(binding[b]) /\ TokenOf(b) = t /\ routes[t] = binding[b].provider
      BY <1>0, <1>1, <3>1 DEF Owned
    <3> QED BY <2>1, <2>3, <3>1, <3>2 DEF Owned
  <2> QED BY <1>2, <2>1, <2>5, <2>6 DEF RoutesInv, HasToken, Before
<1>15. CASE RouteLeft
  <2>1. /\ sw.pc = "route" /\ ~sw.proxy /\ sw'.pc = "retire" /\ Carried /\ binding' = binding /\ secret' = secret
        /\ routes' = routes /\ Left("token", Token(a, sw.previous))
    BY <1>15, RouteLeftDoes
  <2>2. Token(a, sw.previous) \in amiss'.token /\ amiss'.route = amiss.route
    BY <2>1, LeftMoves
  <2>3. ~HasToken(binding[a])
    BY <1>0, <1>1, <2>1 DEF CallToken, CallBinding, After, HasToken
  <2>4. \A b \in Agents : TokenOf(b)' = TokenOf(b)
    BY <2>1 DEF TokenOf, Token
  <2>5. \A b \in Agents : HasToken(binding'[b]) => Served(b)'
    <3> SUFFICES ASSUME NEW b \in Agents, HasToken(binding[b]) PROVE Served(b)'
      BY <2>1
    <3> QED BY <1>0, <1>1, <2>1, <2>2, <2>3, <2>4, ServedStays
  <2>6. \A t \in Tokens : routes'[t] \in providers' => Owned(t)'
    <3> SUFFICES ASSUME NEW t \in Tokens, routes'[t] \in providers', t \notin amiss'.token PROVE Owned(t)'
      BY DEF Owned
    <3>1. PICK b \in Agents : HasToken(binding[b]) /\ TokenOf(b) = t /\ routes[t] = binding[b].provider
      BY <1>0, <1>1, <1>b, <2>1, <2>2 DEF Owned
    <3> QED BY <2>1, <2>4, <3>1 DEF Owned
  <2> QED BY <1>2, <2>1, <2>5, <2>6 DEF RoutesInv, HasToken, Before
<1>12. CASE RetireToken
  <2>1. ~HasToken(binding[a])
    <3>1. sw.pc = "retire"
      BY <1>12, RetireTokenDoes
    <3> QED BY <1>0, <1>1, <3>1 DEF CallToken, CallBinding, After, HasToken
  <2> QED BY <1>a, <1>12, <2>1, RetireTokenDoes DEF Before, Carried
<1>13. CASE UndoToken
  <2>1. /\ sw.pc = "undo" /\ sw'.pc = "undo" /\ Carried /\ binding' = binding /\ routes' = routes
        /\ IF sw.created THEN DeleteSecret(a, sw.rev) ELSE secret' = secret
    BY <1>13, UndoTokenDoes
  <2>2. \A b \in Agents : b = a /\ HasToken(binding[b]) => TokenOf(b)' = TokenOf(b)
    <3>1. CASE sw.created /\ HasToken(binding[a])
      <4>1. sw.rev \in 1 .. MaxRev /\ sw.rev # binding[a].rev
        BY <1>0, <1>1, <2>1, <3>1, BoundsAssumption DEF CallToken, CallBinding, Before, PathOK, Switches
      <4>2. PICK b \in Agents, r \in 1 .. MaxRev : b = a /\ r = sw.rev
        BY <1>0, <4>1
      <4>3. DeleteSecret(b, r) /\ binding[b].rev \in 1 .. MaxRev
        BY <2>1, <3>1, <4>2, BoundRev
      <4>4. secret'[b][binding[b].rev] = secret[b][binding[b].rev]
        BY <4>1, <4>2, <4>3, DropsOne
      <4>5. TokenOf(b)' = TokenOf(b)
        BY <2>1, <4>4, TokenStays
      <4>6. sw'.agent = a
        BY <2>1 DEF Carried
      <4> QED BY <4>2, <4>5, <4>6
    <3>2. CASE ~sw.created
      BY <2>1, <3>2 DEF TokenOf, Token
    <3> QED BY <3>1, <3>2
  <2> QED BY <1>a, <1>13, <2>1, <2>2, UndoTokenDoes DEF Before, Carried
<1>14. CASE Return
  <2>1. sw.pc \in {"done", "failed"} /\ sw' = Idle /\ routes' = routes /\ binding' = binding /\ secret' = secret
    BY <1>14 DEF Return, database
  <2>a. amiss' = amiss
    BY <1>14 DEF Return, history
  <2>2. \A b \in Agents : TokenOf(b)' = TokenOf(b)
    BY <2>1 DEF TokenOf, Token
  <2>3. \A b \in Agents : HasToken(binding'[b]) => Served(b)'
    BY <1>0, <1>1, <2>1, <2>2, <2>a DEF Served
  <2>4. \A t \in Tokens : routes'[t] \in providers' => Owned(t)'
    BY <1>0, <1>1, <2>1, <2>2, <2>a DEF Owned
  <2> QED BY <1>2, <2>1, <2>3, <2>4 DEF RoutesInv, HasToken, Before, Idle
<1> QED
  BY <1>6, <1>7, <1>8, <1>9, <1>10, <1>11, <1>12, <1>13, <1>14, <1>15, SwitchMoves

LEMMA RoutesDeleteStep ==
  ASSUME TypeInv, AmissOK, DeletionInv, BindingInv, RoutesInv, DeleteStep, InTurn, InTurn'
  PROVE  RoutesInv'
<1>0. /\ sw.pc = "idle" /\ del.pc # "idle" /\ boot.pc = "done" /\ sw' = sw /\ boot' = boot /\ routes' = routes
      /\ \A b \in Agents : HasToken(binding[b]) => Served(b)
      /\ \A t \in Tokens : routes[t] \in providers => Owned(t)
  BY DeletionDoes, BootDone DEF DeletionInv, RoutesInv
<1>a. amiss.token \subseteq amiss'.token /\ amiss.route \subseteq amiss'.route
  BY <1>0, AmissStays DEF RegisterRoute
<1>1. \A b \in Agents : binding'[b] # Unbound => binding'[b] = binding[b] /\ TokenOf(b)' = TokenOf(b)
  BY DeletionKeepsTokens
<1>2. \A b \in Agents : HasToken(binding'[b]) => Served(b)'
  <2> SUFFICES ASSUME NEW b \in Agents, HasToken(binding'[b]) PROVE Served(b)'
    OBVIOUS
  <2>1. binding'[b] = binding[b] /\ TokenOf(b)' = TokenOf(b) /\ HasToken(binding[b])
    BY <1>1 DEF HasToken
  <2> QED BY <1>0, <1>a, <2>1, ServedStays
<1>3. \A t \in Tokens : routes'[t] \in providers' => Owned(t)'
  <2> SUFFICES ASSUME NEW t \in Tokens, routes[t] \in providers', t \notin amiss.token PROVE Owned(t)'
    BY <1>0, <1>a DEF Owned
  <2>1. /\ routes[t] \in providers
        /\ \A b \in Agents : binding[b] # Unbound /\ binding[b].provider = routes[t] => binding'[b] = binding[b]
    <3>1. CASE DeleteRows
      BY <3>1 DEF DeleteRows, BoundTo
    <3>2. CASE UNCHANGED <<providers, binding>>
      BY <3>2
    <3> QED BY <3>1, <3>2, DeletionDoes
  <2>2. PICK b \in Agents : HasToken(binding[b]) /\ TokenOf(b) = t /\ routes[t] = binding[b].provider
    BY <1>0, <2>1 DEF Owned
  <2>3. binding'[b] = binding[b] /\ TokenOf(b)' = TokenOf(b)
    BY <1>1, <2>1, <2>2 DEF HasToken
  <2> QED BY <1>0, <2>2, <2>3 DEF Owned, HasToken
<1>4. BootInv'
  BY <1>0 DEF BootInv
<1> QED BY <1>0, <1>2, <1>3, <1>4 DEF RoutesInv, HasToken, Before

\* Restoring the routes: each binding has its route, or is still to come.
LEMMA RoutesBootStep ==
  ASSUME TypeInv, AmissOK, BoundProvidersExist, SecretsDistinct, BindingInv, RoutesInv,
         LoadRoutes \/ RestoreRoute \/ RoutePassedOver \/ RoutesRestored, InTurn, InTurn'
  PROVE  RoutesInv'
<1>0. /\ BootInv /\ TokensStored
      /\ \A b \in Agents : HasToken(binding[b]) => Served(b)
      /\ \A t \in Tokens : routes[t] \in providers => Owned(t)
      /\ routes \in [Tokens -> Providers \cup {NoRoute}]
  BY DEF RoutesInv, BindingInv, TypeInv, StoresOK
<1>1. /\ UNCHANGED <<binding, secret, providers, sw, del>> /\ sw.pc = "idle" /\ del.pc = "idle"
      /\ boot.pc \in {"start", "loading"}
  BY <1>0 DEF LoadRoutes, RestoreRoute, RoutePassedOver, RoutesRestored, database, BootInv
<1>2. \A b \in Agents : TokenOf(b)' = TokenOf(b)
  BY <1>1 DEF TokenOf, Token
<1>a. amiss.token \subseteq amiss'.token /\ amiss.route \subseteq amiss'.route
  BY <1>1, AmissStays DEF RegisterRoute
<1>3. CASE LoadRoutes
  <2>1. /\ boot.pc = "start" /\ boot'.pc = "loading" /\ routes' = routes
        /\ boot'.todo = {<<b, binding[b]>> : b \in {c \in Agents : HasToken(binding[c])}}
    BY <1>3 DEF LoadRoutes
  <2>2. BootInv'
    BY <1>1, <2>1 DEF BootInv, HasToken
  <2>3. \A b \in Agents : HasToken(binding[b]) => Served(b)'
    BY <1>1, <2>1 DEF Served
  <2>4. \A t \in Tokens : routes'[t] \in providers => Owned(t)'
    BY <1>0, <1>1, <1>2, <1>a, <2>1 DEF Owned
  <2> QED BY <1>1, <2>2, <2>3, <2>4 DEF RoutesInv, HasToken, Before
<1>4. CASE RoutesRestored
  <2>1. boot.pc = "loading" /\ boot.todo = {} /\ boot'.pc = "done" /\ routes' = routes
    BY <1>4 DEF RoutesRestored, TypeInv, BootOK
  <2>2. BootInv'
    BY <2>1 DEF BootInv
  <2>3. \A b \in Agents : HasToken(binding[b]) => Served(b)'
    BY <1>0, <1>1, <1>2, <1>a, <2>1 DEF Served
  <2>4. \A t \in Tokens : routes'[t] \in providers => Owned(t)'
    BY <1>0, <1>1, <1>2, <1>a, <2>1 DEF Owned
  <2> QED BY <1>1, <2>2, <2>3, <2>4 DEF RoutesInv, HasToken, Before
<1>5. CASE RestoreRoute
  <2>1. PICK x \in boot.todo :
          /\ boot' = [boot EXCEPT !.todo = @ \ {x}] /\ boot.pc = "loading"
          /\ routes' = IF Token(x[1], x[2]) # NoToken /\ x[2].provider \in providers
                         THEN [routes EXCEPT ![Token(x[1], x[2])] = x[2].provider] ELSE routes
    BY <1>5 DEF RestoreRoute
  <2>2. PICK a \in Agents : x = <<a, binding[a]>> /\ HasToken(binding[a])
    BY <1>0, <1>1, <2>1 DEF BootInv, TypeInv, BootOK
  <2>3. Token(a, binding[a]) = TokenOf(a) /\ TokenOf(a) # NoToken /\ TokenOf(a) \in Tokens
        /\ binding[a].provider \in providers
    BY <1>0, <2>2, BoundRev DEF TokensStored, BoundProvidersExist, HasToken
  <2>4. \A t \in Tokens : routes'[t] = IF t = TokenOf(a) THEN binding[a].provider ELSE routes[t]
    BY <1>0, <2>1, <2>2, <2>3
  <2>5. boot'.pc = "loading" /\ boot'.todo = boot.todo \ {<<a, binding[a]>>}
    BY <2>1, <2>2 DEF TypeInv, BootOK
  <2>6. BootInv'
    BY <1>0, <1>1, <2>1, <2>5 DEF BootInv, HasToken
  <2>7. \A b \in Agents : HasToken(binding[b]) => Served(b)'
    <3> SUFFICES ASSUME NEW b \in Agents, HasToken(binding[b]) PROVE Served(b)'
      OBVIOUS
    <3>1. CASE b = a
      BY <1>1, <1>2, <2>3, <2>4, <3>1 DEF Served
    <3>2. CASE b # a
      <4>1. TokenOf(b) # TokenOf(a) /\ TokenOf(b) \in Tokens
        <5>1. TokenOf(a) = secret[a][binding[a].rev] /\ binding[a].rev \in 1 .. MaxRev
          BY <2>2, BoundRev
        <5>2. PICK r \in 1 .. MaxRev : r = binding[a].rev
          BY <5>1
        <5>3. TokenOf(b) # NoToken /\ TokenOf(b) \in Tokens
          BY <1>0, BoundRev DEF TokensStored
        <5> QED BY <3>2, <5>1, <5>2, <5>3, TokensDiffer
      <4>2. routes'[TokenOf(b)] = routes[TokenOf(b)]
        BY <2>4, <4>1
      <4>3. <<b, binding[b]>> # <<a, binding[a]>>
        BY <3>2
      <4> QED BY <1>0, <1>1, <1>2, <1>a, <2>1, <2>5, <4>2, <4>3 DEF Served
    <3> QED BY <3>1, <3>2
  <2>8. \A t \in Tokens : routes'[t] \in providers => Owned(t)'
    BY <1>0, <1>1, <1>2, <1>a, <2>2, <2>3, <2>4 DEF Owned
  <2> QED BY <1>1, <2>6, <2>7, <2>8 DEF RoutesInv, HasToken, Before
<1>6. CASE RoutePassedOver
  <2>1. PICK x \in boot.todo :
          boot' = [boot EXCEPT !.todo = @ \ {x}] /\ boot.pc = "loading" /\ routes' = routes /\ Left("route", x[1])
    BY <1>6 DEF RoutePassedOver
  <2>2. PICK a \in Agents : x = <<a, binding[a]>> /\ HasToken(binding[a])
    BY <1>0, <1>1, <2>1 DEF BootInv, TypeInv, BootOK
  <2>3. boot'.pc = "loading" /\ boot'.todo = boot.todo \ {<<a, binding[a]>>} /\ a \in amiss'.route
    BY <2>1, <2>2, LeftMoves DEF TypeInv, BootOK
  <2>4. BootInv'
    BY <1>0, <1>1, <2>1, <2>3 DEF BootInv, HasToken
  <2>5. \A b \in Agents : HasToken(binding[b]) => Served(b)'
    <3> SUFFICES ASSUME NEW b \in Agents, HasToken(binding[b]), b # a PROVE Served(b)'
      BY <2>3 DEF Served
    <3>1. <<b, binding[b]>> # <<a, binding[a]>>
      OBVIOUS
    <3> QED BY <1>0, <1>1, <1>2, <1>a, <2>1, <2>3, <3>1 DEF Served
  <2>6. \A t \in Tokens : routes'[t] \in providers => Owned(t)'
    BY <1>0, <1>1, <1>2, <1>a, <2>1 DEF Owned
  <2> QED BY <1>1, <2>4, <2>5, <2>6 DEF RoutesInv, HasToken, Before
<1> QED BY <1>3, <1>4, <1>5, <1>6

LEMMA RoutesStep ==
  ASSUME ~EarlySnapshot, TypeInv, AmissOK, BoundProvidersExist, DeletionInv, SecretsDistinct, BindingInv, RoutesInv,
         [Next]_vars
  PROVE  RoutesInv'
<1> SUFFICES ASSUME InTurn' PROVE RoutesInv'
  BY DEF RoutesInv
<1>0. /\ InTurn /\ BootInv
      /\ \A b \in Agents : HasToken(binding[b]) => Served(b)
      /\ \A t \in Tokens : routes[t] \in providers => Owned(t)
      /\ sw.pc \in Before => routes = sw.found.routes
  BY InTurnFacts DEF RoutesInv
<1>1. ASSUME NEW a \in Agents, NEW want \in Settings, NEW proxy \in BOOLEAN, Begin(a, want, proxy)
      PROVE  RoutesInv'
  <2>1. /\ sw.pc = "idle" /\ boot.pc = "done" /\ sw'.pc \in {"write", "token"} /\ sw'.found.routes = routes
        /\ UNCHANGED <<binding, secret, routes, providers, boot, amiss>>
    BY <1>1, BeginDoes DEF UiReady
  <2>2. \A b \in Agents : TokenOf(b)' = TokenOf(b)
    BY <2>1 DEF TokenOf, Token
  <2>3. \A b \in Agents : HasToken(binding[b]) => Served(b)'
    BY <1>0, <2>1, <2>2 DEF Served
  <2>4. \A t \in Tokens : routes[t] \in providers => Owned(t)'
    BY <1>0, <2>1, <2>2 DEF Owned
  <2> QED BY <2>1, <2>3, <2>4 DEF RoutesInv, BootInv, HasToken
<1>2. ASSUME NEW p \in Providers, BeginDelete(p)
      PROVE  RoutesInv'
  <2>1. /\ sw.pc = "idle" /\ boot.pc = "done" /\ UNCHANGED <<binding, secret, routes, providers, boot, sw, amiss>>
    BY <1>2, BeginsAlone DEF BeginDelete, UiReady, database
  <2>2. \A b \in Agents : TokenOf(b)' = TokenOf(b)
    BY <2>1 DEF TokenOf, Token
  <2>3. \A b \in Agents : HasToken(binding[b]) => Served(b)'
    BY <1>0, <2>1, <2>2 DEF Served
  <2>4. \A t \in Tokens : routes[t] \in providers => Owned(t)'
    BY <1>0, <2>1, <2>2 DEF Owned
  <2> QED BY <2>1, <2>3, <2>4 DEF RoutesInv, BootInv, HasToken, Before
<1>3. CASE Restart
  <2>1. /\ sw'.pc = "idle" /\ del'.pc = "idle" /\ boot'.pc = "start" /\ boot'.todo = {}
        /\ \A t \in Tokens : routes'[t] = NoRoute
        /\ providers' = providers
    BY <1>3 DEF Restart, Idle, database
  <2>2. NoRoute \notin providers
    BY NullsAssumption DEF TypeInv, StoresOK
  <2> QED BY <2>1, <2>2 DEF RoutesInv, BootInv, Served, Before
<1>4. CASE UNCHANGED vars
  <2>1. UNCHANGED <<binding, secret, routes, providers, boot, sw, del, amiss>>
    BY <1>4 DEF vars
  <2>2. \A b \in Agents : TokenOf(b)' = TokenOf(b)
    BY <2>1 DEF TokenOf, Token
  <2>3. \A b \in Agents : HasToken(binding[b]) => Served(b)'
    BY <1>0, <2>1, <2>2 DEF Served
  <2>4. \A t \in Tokens : routes[t] \in providers => Owned(t)'
    BY <1>0, <2>1, <2>2 DEF Owned, HasToken, Token
  <2>5. BootInv'
    BY <1>0, <2>1 DEF BootInv, HasToken
  <2> QED BY <1>0, <2>1, <2>3, <2>4, <2>5 DEF RoutesInv, HasToken
<1> QED
  BY <1>0, <1>1, <1>2, <1>3, <1>4, RoutesSwitchStep, RoutesDeleteStep, RoutesBootStep, NextMoves

LEMMA RoutesInit == Init => RoutesInv
<1> SUFFICES ASSUME Init PROVE RoutesInv
  OBVIOUS
<1>1. /\ sw.pc = "idle" /\ del.pc = "idle" /\ boot.pc = "start" /\ boot.todo = {} /\ providers = Providers
      /\ \A a \in Agents : binding[a] = Unbound
      /\ \A t \in Tokens : routes[t] = NoRoute
  BY DEF Init, Idle
<1>2. NoRoute \notin providers
  BY <1>1, NullsAssumption
<1> QED BY <1>1, <1>2 DEF RoutesInv, BootInv, Served, Before, HasToken

\* Unless a deletion overlaps a call, and as long as the window waits for the
\* routes to be restored, every proxy binding's token leads to the binding's
\* provider from the registration on, and no other token leads to a provider
\* once a call has ended (RoutesMatchBindings).
THEOREM RoutesServeBindings == ~EarlySnapshot => (Spec => []RoutesMatchBindings)
<1> SUFFICES ASSUME ~EarlySnapshot PROVE Spec => []RoutesMatchBindings
  OBVIOUS
<1>1. CallsInv /\ RoutesInv => RoutesMatchBindings
  <2> SUFFICES ASSUME CallsInv, RoutesInv PROVE RoutesMatchBindings
    OBVIOUS
  <2>1. RouteServesBinding
    BY DEF CallsInv, BindingInv, TokensStored, RoutesInv, Served, RouteServesBinding
  <2>2. NoStrayRoute
    BY DEF RoutesInv, Owned, NoStrayRoute, Settled, TokenOf
  <2> QED BY <2>1, <2>2 DEF RoutesMatchBindings
<1>2. CallsInv /\ RoutesInv /\ [Next]_vars => CallsInv' /\ RoutesInv'
  BY CallsStep, RoutesStep DEF CallsInv
<1> QED BY CallsInit, RoutesInit, <1>1, <1>2, PTL DEF Spec

\* As long as the window waits for the routes and no deletion overlaps, a
\* failed switch or restore of an agent that keeps one layer at most beside
\* its file has changed nothing but what its own rollback failed to put back:
\* of its file, its selection and what is remembered of it each on its own,
\* and of its binding, its token and the routes in no case
\* (FailedSwitchChangesNothing).
THEOREM FailureLeavesEverything ==
  ~EarlySnapshot /\ OneLayer => (Spec => []FailedSwitchChangesNothing)
<1> SUFFICES ASSUME ~EarlySnapshot, OneLayer PROVE Spec => []FailedSwitchChangesNothing
  OBVIOUS
<1> DEFINE Inv == CallsInv /\ MemoryInv /\ CompanionInv /\ RoutesInv
<1>1. Init => Inv
  BY CallsInit, RoutesInit DEF Init, Idle, MemoryInv, CallMemory, CompanionInv, CallCompanion
<1>2. Inv => FailedSwitchChangesNothing
  <2> SUFFICES ASSUME Inv, InTurn, sw.pc = "failed"
               PROVE  LET a == sw.agent IN
                      /\ "file" \in sw.lost \/ file[a] = sw.found.file
                      /\ "companion" \in sw.lost \/ companion[a] = sw.found.companion
                      /\ "memory" \in sw.lost \/ memory[a] = sw.found.memory
                      /\ binding[a] = sw.found.binding /\ TokenOf(a) = sw.found.token
                      /\ routes = sw.found.routes
    BY DEF FailedSwitchChangesNothing
  <2>1. "file" \in sw.lost \/ file[sw.agent] = sw.found.file
    BY DEF CallsInv, FileInv, CallFile
  <2>2. "companion" \in sw.lost \/ companion[sw.agent] = sw.found.companion
    BY DEF CompanionInv, CallCompanion
  <2>3. "memory" \in sw.lost \/ memory[sw.agent] = sw.found.memory
    BY DEF MemoryInv, CallMemory, Before
  <2>4. binding[sw.agent] = sw.found.binding /\ TokenOf(sw.agent) = sw.found.token
    BY DEF CallsInv, BindingInv, CallBinding, Before
  <2>5. routes = sw.found.routes
    BY DEF RoutesInv, Before
  <2> QED BY <2>1, <2>2, <2>3, <2>4, <2>5
<1>3. Inv /\ [Next]_vars => Inv'
  BY CallsStep, RoutesStep, MemoryStep, CompanionStep DEF CallsInv
<1> QED BY <1>1, <1>2, <1>3, PTL DEF Spec

-----------------------------------------------------------------------------
(* What an agent had without AT-Switch *)

\* A restore finds the original selection, whatever is beside the file.
LEMMA OriginalIsNative ==
  ASSUME OneLayer, NEW a \in Agents, NativeFound(Kind[a], memory[a], companion[a])
  PROVE  Original(a) = Native
BY DEF OneLayer, NativeFound, Original

LEMMA NativeStep ==
  ASSUME OneLayer, TypeInv, AmissOK, DeletionInv, MemoryInv, CompanionInv, NativeInv, [Next]_vars
  PROVE  NativeInv'
<1> SUFFICES ASSUME InTurn' PROVE NativeInv'
  BY DEF NativeInv
<1>0. /\ InTurn /\ (sw.pc = "idle" \/ del.pc = "idle")
      /\ \A a \in Agents \ amiss.selection : NativeFound(Kind[a], memory[a], companion[a])
      /\ sw.pc # "idle" /\ sw.agent \notin amiss.selection =>
           /\ NativeFound(Kind[sw.agent], sw.found.memory, sw.found.companion)
           /\ sw.pc \in {"save"} \cup After /\ Restoring => companion[sw.agent] = Native
           /\ sw.pc \in After /\ Restoring => memory[sw.agent] = Forgotten
           /\ sw.pc \in {"select", "save"} /\ ~Restoring /\ Kind[sw.agent] = "session" => memory[sw.agent] = Native
      /\ CallMemory /\ CallCompanion
  BY InTurnFacts DEF NativeInv, MemoryInv, CompanionInv
<1>a. Native # Forgotten
  BY NullsAssumption
<1>1. CASE SwitchStep
  <2> DEFINE a == sw.agent
  <2>0. /\ sw.pc # "idle" /\ a \in Agents /\ PathOK /\ sw # Idle /\ Kind[a] \in {"plain", "session"}
        /\ companion \in [Agents -> Settings] /\ memory \in [Agents -> Settings \cup {Forgotten}]
    BY <1>1, SwitchAlone, InSwitch DEF TypeInv, FilesOK, StoresOK, OneLayer
  <2>1. \A b \in Agents \ {a} : b \notin amiss'.selection => NativeFound(Kind[b], memory'[b], companion'[b])
    BY <1>0, <1>1, OthersStay, CallMends
  <2>a. CASE Return
    <3>1. sw' = Idle /\ UNCHANGED <<memory, companion, amiss>>
      BY <2>a DEF Return, database, disk, history
    <3> QED BY <1>0, <3>1 DEF NativeInv, Idle, After
  <2>b. CASE a \in amiss'.selection /\ ~Return
    <3>1. sw'.agent = a
      <4>1. CASE QuietCall
        BY <4>1 DEF QuietCall, Carried
      <4> QED
        BY <1>1, <2>b, <4>1, SwitchMoves, ReuseTokenDoes, NewTokenDoes, SaveDoes, RegisterRouteDoes,
           UnregisterDoes, RouteLeftDoes, RetireTokenDoes, UndoTokenDoes DEF Carried
    <3> QED BY <2>1, <2>b, <3>1 DEF NativeInv
  <2> SUFFICES ASSUME a \notin amiss'.selection, ~Return PROVE NativeInv'
    BY <2>a, <2>b
  <2>c. a \notin amiss.selection
    BY <1>1, CallMends
\* What is left to show of a step that goes on with the call.
  <2>2. ASSUME NativeFound(Kind[a], memory'[a], companion'[a]), Carried, sw'.want = sw.want \/ ~Restoring,
               Restoring' => Restoring,
               sw'.pc \in {"save"} \cup After /\ Restoring => companion'[a] = Native,
               sw'.pc \in After /\ Restoring => memory'[a] = Forgotten,
               sw'.pc \in {"select", "save"} /\ ~Restoring' /\ Kind[a] = "session" => memory'[a] = Native
        PROVE  NativeInv'
    <3>1. \A b \in Agents \ amiss'.selection : NativeFound(Kind[b], memory'[b], companion'[b])
      BY <2>1, <2>2
    <3> QED BY <1>0, <2>0, <2>2, <2>c, <3>1 DEF NativeInv, Carried
  <2>3. CASE UseDirectKey \/ Verified \/ Failed \/ UndoToken \/ WriteFile \/ WriteBeside
    <3>1. /\ UNCHANGED <<memory, companion>> /\ Carried /\ WantKept
          /\ sw'.pc \in {"write", "companion", "select", "verify", "remember", "undo", "failed"}
          /\ sw'.pc = "select" => Restoring \/ Kind[a] # "session"
      BY <2>0, <2>3, UseDirectKeyDoes, VerifiedDoes, FailedDoes, UndoTokenDoes, WriteFileDoes, WriteCompanionDoes
    <3> QED BY <1>0, <2>0, <2>2, <2>c, <3>1 DEF WantKept, Restoring, After
\* The call turns back, or goes on to do so.
  <2>14. ASSUME sw'.pc = "undo", Carried, WantKept, NativeFound(Kind[a], memory'[a], companion'[a])
         PROVE  NativeInv'
    BY <1>0, <2>0, <2>2, <2>14 DEF WantKept, Restoring, After
  <2>15. CASE Failure
    <3>0. sw'.pc = "undo" /\ Carried /\ WantKept
      BY <2>15, FailureDoes
    <3>1. CASE RememberFailsHalfway
      <4>1. sw.pc = "remember" /\ memory[a] = Forgotten /\ memory'[a] = companion[a] /\ companion' = companion
        BY <2>0, <2>15, <3>1, FailureDoes
      <4> QED BY <1>0, <1>a, <2>0, <2>14, <2>c, <3>0, <4>1 DEF NativeFound
    <3>2. CASE SelectFailsHalfway
      <4>1. /\ sw.pc = "select" /\ Kind[a] = "session" /\ memory' = memory
            /\ companion'[a] = IF Restoring THEN Original(a) ELSE Shown(a, sw.want)
        BY <2>0, <2>15, <3>2, FailureDoes
      <4>2. Restoring => companion'[a] = Native
        BY <1>0, <2>0, <2>c, <4>1, OriginalIsNative
      <4>3. ~Restoring => memory[a] = Native
        BY <1>0, <2>0, <2>c, <4>1
      <4> QED BY <1>0, <1>a, <2>0, <2>14, <2>c, <3>0, <4>1, <4>2, <4>3 DEF NativeFound
    <3>3. CASE StepFails \/ WriteFailsLate
      <4>1. UNCHANGED <<memory, companion>>
        BY <2>15, <3>3, FailureDoes
      <4> QED BY <1>0, <2>0, <2>14, <2>c, <3>0, <4>1
    <3> QED BY <2>15, <3>1, <3>2, <3>3 DEF Failure
  <2>16. CASE UndoFile \/ FileLeft \/ CompanionLeft \/ MemoryLeft
    <3>1. sw'.pc = "undo" /\ Carried /\ WantKept
      BY <2>16, UndoingDoes DEF Undoing
    <3>2. UNCHANGED <<memory, companion>>
      BY <2>16, UndoFileDoes, FileLeftDoes, CompanionLeftDoes, MemoryLeftDoes
    <3> QED BY <1>0, <2>0, <2>14, <2>c, <3>1, <3>2
  <2>4. CASE ReuseToken \/ CreateToken \/ ReplaceToken
    <3>1. UNCHANGED <<memory, companion>> /\ Carried /\ sw'.pc = "write" /\ ~Restoring /\ ~Restoring'
      BY <2>4, ReuseTokenDoes, NewTokenDoes DEF Restoring
    <3> QED BY <1>0, <2>0, <2>2, <2>c, <3>1 DEF After
  <2>5. CASE Remember
    <3>1. /\ sw.pc = "remember" /\ sw'.pc = "select" /\ Carried /\ WantKept /\ ~Restoring
          /\ memory'[a] = IF memory[a] = Forgotten THEN companion[a] ELSE memory[a]
          /\ companion' = companion
      BY <2>0, <2>5, RememberDoes
    <3>2. memory'[a] = Native /\ Kind[a] = "session"
      BY <1>0, <2>0, <2>c, <3>1 DEF NativeFound, CallMemory
    <3> QED BY <1>0, <1>a, <2>0, <2>2, <2>c, <3>1, <3>2 DEF NativeFound, WantKept, Restoring, After
  <2>6. CASE Select
    <3>1. /\ sw.pc = "select" /\ sw'.pc = "save" /\ Carried /\ WantKept /\ ~Restoring
          /\ memory' = memory /\ (Kind[a] = "plain" => companion' = companion)
      BY <2>6, WriteCompanionDoes
    <3>2. NativeFound(Kind[a], memory[a], companion'[a])
      BY <1>0, <1>a, <2>0, <2>c, <3>1 DEF NativeFound
    <3> QED BY <1>0, <2>0, <2>2, <2>c, <3>1, <3>2 DEF WantKept, Restoring, After
  <2>7. CASE RestoreSelection
    <3>1. /\ sw.pc = "select" /\ sw'.pc = "save" /\ Carried /\ WantKept /\ Restoring
          /\ memory' = memory /\ companion'[a] = Original(a)
      BY <2>0, <2>7, RestoreSelectionDoes
    <3>2. companion'[a] = Native
      BY <1>0, <2>0, <2>c, <3>1, OriginalIsNative
    <3> QED BY <1>0, <2>0, <2>2, <2>c, <3>1, <3>2 DEF NativeFound, WantKept, Restoring, After
  <2>8. CASE SaveBinding
    <3>1. /\ sw.pc = "save" /\ sw'.pc = "route" /\ Carried /\ WantKept /\ ~Restoring
          /\ memory' = memory /\ companion' = companion
      BY <2>8, SaveDoes
    <3> QED BY <1>0, <2>0, <2>2, <2>c, <3>1 DEF WantKept, Restoring
  <2>9. CASE ForgetBinding
    <3>1. /\ sw.pc = "save" /\ sw'.pc = "route" /\ Carried /\ WantKept /\ Restoring
          /\ memory'[a] = Forgotten /\ companion' = companion
      BY <2>0, <2>9, SaveDoes
    <3> QED BY <1>0, <2>0, <2>2, <2>c, <3>1 DEF NativeFound, WantKept, Restoring
  <2>10. CASE RegisterRoute \/ Unregister \/ RouteLeft \/ RetireToken
    <3>1. /\ sw.pc \in After /\ sw'.pc \in {"retire", "done"} /\ Carried /\ WantKept
          /\ memory' = memory /\ companion' = companion
      BY <2>10, RegisterRouteDoes, UnregisterDoes, RouteLeftDoes, RetireTokenDoes DEF After
    <3> QED BY <1>0, <2>0, <2>2, <2>c, <3>1 DEF WantKept, Restoring
  <2>11. CASE UndoCompanion
    <3>1. /\ sw.pc = "undo" /\ sw'.pc = "undo" /\ Carried /\ WantKept /\ "companion" \in sw.undo
          /\ memory' = memory /\ companion'[a] = sw.companion
      BY <2>0, <2>11, UndoCompanionDoes, UndoingDoes DEF Undoing
    <3>2. sw.companion = sw.found.companion
      BY <1>0, <2>0, <3>1 DEF CallCompanion
    <3>3. NativeFound(Kind[a], memory[a], sw.found.companion)
      BY <1>0, <2>0, <2>c, <3>1 DEF NativeFound, CallMemory, Before
    <3> QED BY <2>0, <2>14, <3>1, <3>2, <3>3
  <2>12. CASE UndoMemory
    <3>1. /\ sw.pc = "undo" /\ sw'.pc = "undo" /\ Carried /\ WantKept
          /\ "memory" \in sw.undo /\ "companion" \notin sw.undo
          /\ memory'[a] = (IF sw.remembered THEN Forgotten ELSE memory[a]) /\ companion' = companion
      BY <2>0, <2>12, UndoMemoryDoes, UndoingDoes DEF Undoing
    <3>2. CASE sw.remembered
      <4>1. "companion" \notin sw.lost
        BY <2>12, <3>2, UndoMemoryDoes, LeftMoves
      <4>2. companion[a] = sw.found.companion /\ sw.found.memory = Forgotten
        BY <1>0, <2>0, <3>1, <3>2, <4>1 DEF CallCompanion, CallMemory, Before
      <4> QED BY <1>0, <2>0, <2>14, <2>c, <3>1, <3>2, <4>2 DEF NativeFound
    <3>3. CASE ~sw.remembered
      BY <1>0, <2>0, <2>14, <2>c, <3>1, <3>3
    <3> QED BY <3>2, <3>3
  <2> QED
    BY <1>1, <2>3, <2>4, <2>5, <2>6, <2>7, <2>8, <2>9, <2>10, <2>11, <2>12, <2>15, <2>16 DEF SwitchStep, Failure
<1>2. CASE DeleteStep
  <2>0. sw.pc = "idle" /\ sw' = sw
    BY <1>0, <1>2, DeletionDoes
  <2>1. \A b \in Agents \ amiss'.selection : NativeFound(Kind[b], memory'[b], companion'[b])
    <3>1. ASSUME NEW a \in Agents, RestoreRest(a)
          PROVE  \A b \in Agents \ amiss'.selection : NativeFound(Kind[b], memory'[b], companion'[b])
      <4>1. PICK back \in BOOLEAN, forgotten \in BOOLEAN :
              /\ companion' = IF back THEN [companion EXCEPT ![a] = Original(a)] ELSE companion
              /\ memory' = IF forgotten THEN [memory EXCEPT ![a] = Forgotten] ELSE memory
              /\ IF forgotten /\ ~back THEN Left("selection", a) ELSE UNCHANGED amiss
        BY <3>1 DEF RestoreRest
      <4>2. amiss.selection \subseteq amiss'.selection /\ (forgotten /\ ~back => a \in amiss'.selection)
        BY <4>1, LeftMoves
      <4>3. /\ \A b \in Agents \ {a} : companion'[b] = companion[b] /\ memory'[b] = memory[b]
            /\ companion'[a] = (IF back THEN Original(a) ELSE companion[a])
            /\ memory'[a] = (IF forgotten THEN Forgotten ELSE memory[a])
        BY <4>1 DEF TypeInv, StoresOK, FilesOK
      <4>4. a \notin amiss'.selection => NativeFound(Kind[a], memory'[a], companion'[a])
        BY <1>0, <4>2, <4>3, OriginalIsNative DEF NativeFound
      <4> QED BY <1>0, <4>2, <4>3, <4>4
    <3>2. CASE UNCHANGED <<memory, companion, amiss>>
      BY <1>0, <3>2
    <3> QED BY <1>2, <3>1, <3>2 DEF DeleteStep, DeleteRows, DeleteSecrets, Deleted, RestoreFile, RestoreSkipped,
                                    database, disk, history
  <2> QED BY <2>0, <2>1 DEF NativeInv, After
<1>3. ASSUME NEW b \in Agents, NEW want \in Settings, NEW proxy \in BOOLEAN, Begin(b, want, proxy)
      PROVE  NativeInv'
  BY <1>0, <1>3, BeginDoes DEF NativeInv, After
<1>4. CASE Restart
  <2>1. amiss'.selection = amiss.selection /\ sw'.pc = "idle" /\ UNCHANGED <<memory, companion>>
    BY <1>4 DEF Restart, Idle, AmissOK, database, disk
  <2> QED BY <1>0, <2>1 DEF NativeInv, After
<1>5. CASE UNCHANGED <<memory, companion, sw>> /\ amiss'.selection = amiss.selection
  BY <1>0, <1>5 DEF NativeInv, Restoring
<1>6. (\E p \in Providers : BeginDelete(p)) \/ LoadRoutes \/ RestoreRoute \/ RoutePassedOver \/ RoutesRestored \/ UNCHANGED vars
        => UNCHANGED <<memory, companion, sw>> /\ amiss'.selection = amiss.selection
  BY LeftMoves DEF BeginDelete, LoadRoutes, RestoreRoute, RoutePassedOver, RoutesRestored, vars, database, disk, history
<1> QED BY <1>1, <1>2, <1>3, <1>4, <1>5, <1>6, NextMoves

\* Unless a deletion overlaps a call, or the agent's selection was forgotten
\* although it had not been put back, a restore that succeeds leaves an agent
\* with one layer at most beside its file as it was without AT-Switch, and
\* what is remembered of it is never what a switch wrote
\* (RestoreReturnsNative).
THEOREM RestoredIsNative == OneLayer => (Spec => []RestoreReturnsNative)
<1> SUFFICES ASSUME OneLayer PROVE Spec => []RestoreReturnsNative
  OBVIOUS
<1> DEFINE Inv == CallsInv /\ MemoryInv /\ CompanionInv /\ NativeInv
<1>1. Init => Inv
  <2> SUFFICES ASSUME Init PROVE Inv
    OBVIOUS
  <2>1. /\ sw.pc = "idle" /\ del.pc = "idle"
        /\ \A a \in Agents : memory[a] = Forgotten /\ companion[a] = Native
    BY DEF Init, Idle
  <2>2. MemoryInv /\ CompanionInv
    BY <2>1 DEF MemoryInv, CallMemory, CompanionInv, CallCompanion
  <2>3. NativeInv
    BY <2>1 DEF NativeInv, NativeFound, After
  <2> QED BY <2>2, <2>3, CallsInit
<1>2. Inv => RestoreReturnsNative
  <2> SUFFICES ASSUME Inv, InTurn
               PROVE  /\ \A a \in Agents \ amiss.selection : memory[a] \in {Native, Forgotten}
                      /\ sw.pc = "done" /\ Restoring /\ sw.agent \notin amiss.selection => RestoredOf(sw.agent)
    BY DEF RestoreReturnsNative
  <2>1. \A a \in Agents \ amiss.selection : memory[a] \in {Native, Forgotten}
    BY DEF NativeInv, NativeFound
  <2>2. ASSUME sw.pc = "done", Restoring, sw.agent \notin amiss.selection
        PROVE  RestoredOf(sw.agent)
    <3>1. companion[sw.agent] = Native /\ memory[sw.agent] = Forgotten
      BY <2>2 DEF NativeInv, After
    <3>2. file[sw.agent] = Native
      BY <2>2 DEF CallsInv, FileInv, CallFile, After, Restoring
    <3>3. binding[sw.agent] = Unbound
      BY <2>2 DEF CallsInv, BindingInv, CallBinding, After
    <3> QED BY <3>1, <3>2, <3>3 DEF RestoredOf
  <2> QED BY <2>1, <2>2
<1>3. Inv /\ [Next]_vars => Inv'
  BY CallsStep, MemoryStep, CompanionStep, NativeStep DEF CallsInv
<1> QED BY <1>1, <1>2, <1>3, PTL DEF Spec
=============================================================================
