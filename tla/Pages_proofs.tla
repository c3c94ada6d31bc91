----------------------------- MODULE Pages_proofs -----------------------------
(***************************************************************************)
(* What holds of what the answers on the pages are made of (persona,       *)
(* selection, messages, prompt, markup, metering, settings), for inputs of *)
(* any size, and of every page, whatever the order of clicks, timers,      *)
(* events and answers, for any number of sockets, chats, entries,          *)
(* organisations, files and clicks.  Each page has its invariant; a step   *)
(* of one page leaves the others alone (PagesMove).                        *)
(***************************************************************************)
EXTENDS Decisions_proofs, FunctionTheorems

\* Every step leaves each page alone or is a step of its own.
LEMMA PagesMove ==
    ASSUME [PagesNext]_<<Questions, clientVars, adminVars, part>>
    PROVE  /\ [SocketNext]_socketVars /\ [ChatNext]_chatVars /\ [BrowseNext]_browse
           /\ [EditorNext]_editorVars /\ [ReviewNext]_reviewVars /\ [OrgsNext]_orgVars
           /\ [MatrixNext]_matrix /\ [FlashNext]_flash /\ [FilesNext]_files
           /\ [LoginNext]_loginVars
<1>1. UNCHANGED clientVars => UNCHANGED <<socketVars, chatVars, browse>>
  BY DEF clientVars
<1>2. UNCHANGED adminVars =>
        UNCHANGED <<editorVars, reviewVars, orgVars, matrix, flash, files, loginVars>>
  BY DEF adminVars
<1>3. CASE UNCHANGED <<Questions, clientVars, adminVars, part>>
  BY <1>1, <1>2, <1>3
<1>4. CASE SocketNext /\ WebStep
  BY <1>2, <1>4 DEF SocketNext, WebStep
<1>5. CASE ChatNext /\ WebStep
  BY <1>2, <1>5 DEF ChatNext, WebStep
<1>6. CASE BrowseNext /\ WebStep
  BY <1>2, <1>6 DEF BrowseNext, WebStep
<1>7. CASE UNCHANGED clientVars /\ UNCHANGED adminVars
  BY <1>1, <1>2, <1>7
<1>8. CASE EditorNext /\ AdminStep
  <2>1. EditorStep
    BY <1>8 DEF EditorNext, ListAnswered, LoadEntries, ToggleSelect, CreateEntry, Search,
                NextPage, PrevPage, ToggleSelectAll, BulkAction, BulkDone, BulkRequest, Click
  <2> QED BY <1>1, <1>8, <2>1 DEF AdminStep, EditorStep
<1>9. CASE ReviewNext /\ AdminStep
  <2>1. ReviewStep
    BY <1>9 DEF ReviewNext, VisitReview, SelectItem, HandleAction, ReviewAnswered, ActionArrives
  <2> QED BY <1>1, <1>9, <2>1 DEF AdminStep, ReviewStep
<1>10. CASE OrgsNext /\ AdminStep
  <2>1. OrgStep
    BY <1>10 DEF OrgsNext, OpenCreate, Edit, TypeName, CancelForm, SaveOrg, DeleteOrg, SendOrg,
                 OrgAnswered, OrgArrives
  <2> QED BY <1>1, <1>10, <2>1 DEF AdminStep, OrgStep
<1>11. CASE MatrixNext /\ AdminStep
  <2>1. MatrixStep
    BY <1>11 DEF MatrixNext, TogglePermission, SavePermissions, PermissionsAnswered
  <2> QED BY <1>1, <1>11, <2>1 DEF AdminStep, MatrixStep
<1>12. CASE FlashNext /\ AdminStep
  <2>1. UNCHANGED <<editorVars, reviewVars, orgVars, matrix, files, loginVars>>
    BY <1>12 DEF FlashNext, FlashStep, SaveSettings, CopyText, Copied, FlashTimer, FlashTick
  <2> QED BY <1>1, <1>12, <2>1 DEF AdminStep
<1>13. CASE FilesNext /\ AdminStep
  <2>1. FileStep
    BY <1>13 DEF FilesNext, ProcessFiles, UploadResolves, UploadRejects
  <2> QED BY <1>1, <1>13, <2>1 DEF AdminStep, FileStep
<1>14. CASE LoginNext /\ AdminStep
  <2>1. UNCHANGED <<editorVars, reviewVars, orgVars, matrix, flash, files>>
    BY <1>14 DEF LoginNext, TypeAdmin, TypeCode, SubmitLogin, LoginAnswered, LoginStep
  <2> QED BY <1>1, <1>14, <2>1 DEF AdminStep
<1> QED BY <1>3, <1>4, <1>5, <1>6, <1>7, <1>8, <1>9, <1>10, <1>11, <1>12, <1>13, <1>14
        DEF PagesNext

-----------------------------------------------------------------------------
(* A message that passes                                                   *)

FlashTimers == SUBSET (Nat \X Nat)
FlashInv ==
    /\ flash \in [now : Nat, shown : BOOLEAN, timers : FlashTimers, writing : Nat, steps : Nat]
    /\ FlashPasses

LEMMA FlashStart == FlashInit => FlashInv
BY DEF FlashInit, FlashInv, FlashTimers, FlashPasses

LEMMA FlashMoves == FlashInv /\ [FlashNext]_flash => FlashInv'
<1> SUFFICES ASSUME FlashInv, [FlashNext]_flash PROVE FlashInv'
  OBVIOUS
<1> DEFINE Records == [now : Nat, shown : BOOLEAN, timers : FlashTimers, writing : Nat, steps : Nat]
<1>0. PICK old \in Records : old = flash
  BY DEF FlashInv
<1>a. ASSUME NEW f \in Records, FlashStep(f), f.shown => f.timers # {} PROVE FlashInv'
  <2>1. flash' = [f EXCEPT !.steps = @ + 1]
    BY <1>a DEF FlashStep
  <2> QED BY <1>a, <2>1 DEF FlashInv, FlashPasses
<1>b. /\ Shown \in Records /\ Shown.timers # {} /\ Shown.writing = flash.writing
  <2>1. PICK timers : timers = old.timers \union {<<old.steps, old.now + FlashTicks>>}
    OBVIOUS
  <2>a. <<old.steps, old.now + FlashTicks>> \in Nat \X Nat
    BY DEF FlashTicks
  <2>b. old.timers \subseteq Nat \X Nat
    BY DEF FlashTimers
  <2>2. timers \in FlashTimers /\ timers # {}
    BY <2>1, <2>a, <2>b DEF FlashTimers
  <2>3. Shown = [old EXCEPT !.shown = TRUE, !.timers = timers]
    BY <1>0, <2>1 DEF Shown
  <2> QED BY <1>0, <2>2, <2>3
<1>1. CASE SaveSettings
  BY <1>a, <1>b, <1>1 DEF SaveSettings
<1>2. CASE CopyText
  <2>1. PICK f : f = [old EXCEPT !.writing = @ + 1]
    OBVIOUS
  <2>2. f \in Records /\ f.shown = old.shown /\ f.timers = old.timers
    BY <2>1
  <2> QED BY <1>0, <1>a, <1>2, <2>1, <2>2 DEF CopyText, FlashInv, FlashPasses
<1>3. ASSUME NEW works \in BOOLEAN, Copied(works) PROVE FlashInv'
  <2>1. PICK g \in Records : g = IF works THEN Shown ELSE flash
    BY <1>0, <1>b
  <2>2. g.writing = old.writing /\ old.writing > 0 /\ (g.shown => g.timers # {})
    BY <1>0, <1>b, <1>3, <2>1 DEF Copied, FlashInv, FlashPasses
  <2>3. PICK f : f = [g EXCEPT !.writing = @ - 1]
    OBVIOUS
  <2>4. f \in Records /\ f.shown = g.shown /\ f.timers = g.timers
    BY <2>2, <2>3
  <2> QED BY <1>a, <1>3, <2>1, <2>2, <2>3, <2>4 DEF Copied
<1>4. ASSUME NEW t \in flash.timers, FlashTimer(t) PROVE FlashInv'
  <2>1. PICK f : f = [old EXCEPT !.shown = FALSE, !.timers = @ \ {t}]
    OBVIOUS
  <2>2. f \in Records /\ ~f.shown
    BY <2>1 DEF FlashTimers
  <2> QED BY <1>0, <1>a, <1>4, <2>1, <2>2 DEF FlashTimer
<1>5. CASE FlashTick
  <2>1. PICK f : f = [old EXCEPT !.now = @ + 1]
    OBVIOUS
  <2>2. f \in Records /\ f.shown = old.shown /\ f.timers = old.timers
    BY <2>1
  <2> QED BY <1>0, <1>a, <1>5, <2>1, <2>2 DEF FlashTick, FlashInv, FlashPasses
<1>6. CASE UNCHANGED flash
  BY <1>6 DEF FlashInv, FlashPasses
<1> QED BY <1>1, <1>2, <1>3, <1>4, <1>5, <1>6 DEF FlashNext

-----------------------------------------------------------------------------
(* The permission matrix                                                   *)

PayloadSets == SUBSET Nat
MatrixOk(m) ==
    /\ m \in [roles : Nat, saving : BOOLEAN, message : {"none", "saved", "failed"},
              payload : Nat, flying : PayloadSets, server : Nat]
    /\ m.saving <=> m.flying # {}
    /\ m.flying \subseteq {m.payload}
    /\ m.server <= m.payload /\ m.payload <= m.roles
    /\ m.message = "saved" => m.server = m.payload

MatrixInv == MatrixOk(matrix)

LEMMA MatrixStart == MatrixInit => MatrixInv
BY DEF MatrixInit, MatrixInv, MatrixOk, PayloadSets

LEMMA MatrixMoves == MatrixInv /\ [MatrixNext]_matrix => MatrixInv'
<1> SUFFICES ASSUME MatrixInv, [MatrixNext]_matrix PROVE MatrixInv'
  OBVIOUS
<1>0. PICK old \in [roles : Nat, saving : BOOLEAN, message : {"none", "saved", "failed"},
                    payload : Nat, flying : PayloadSets, server : Nat] :
        /\ old = matrix
        /\ old.saving <=> old.flying # {}
        /\ old.flying \subseteq {old.payload}
        /\ old.server <= old.payload /\ old.payload <= old.roles
        /\ old.message = "saved" => old.server = old.payload
  BY DEF MatrixInv, MatrixOk
<1>a. old.payload \in Nat /\ old.roles \in Nat /\ old.server \in Nat
  OBVIOUS
<1>1. CASE TogglePermission
  <2>1. PICK m : m = [old EXCEPT !.roles = @ + 1, !.message = "none"]
    OBVIOUS
  <2>2. MatrixOk(m)
    <3>1. /\ m.saving = old.saving /\ m.message = "none" /\ m.payload = old.payload
          /\ m.flying = old.flying /\ m.server = old.server /\ m.roles = old.roles + 1
      BY <2>1
    <3>a. old.roles + 1 \in Nat
      BY <1>a
    <3>2. m \in [roles : Nat, saving : BOOLEAN, message : {"none", "saved", "failed"},
                 payload : Nat, flying : PayloadSets, server : Nat]
      BY <2>1, <3>a
    <3> QED BY <1>0, <1>a, <3>1, <3>2 DEF MatrixOk
  <2> QED BY <1>0, <1>1, <2>1, <2>2 DEF TogglePermission, MatrixInv
<1>2. CASE SavePermissions
  <2>1. old.flying = {}
    BY <1>0, <1>2 DEF SavePermissions
  <2>2. PICK flying \in PayloadSets : flying = {old.roles}
    BY <1>a DEF PayloadSets
  <2>3. PICK m : m = [old EXCEPT !.saving = TRUE, !.message = "none", !.payload = old.roles,
                                 !.flying = flying]
    OBVIOUS
  <2>4. MatrixOk(m)
    <3>1. /\ m.saving = TRUE /\ m.message = "none" /\ m.payload = old.roles
          /\ m.flying = flying /\ m.server = old.server /\ m.roles = old.roles
      BY <2>3
    <3>2. m \in [roles : Nat, saving : BOOLEAN, message : {"none", "saved", "failed"},
                 payload : Nat, flying : PayloadSets, server : Nat]
      BY <1>a, <2>3
    <3>3. old.server <= old.roles
      BY <1>0, <1>a
    <3> QED BY <1>a, <2>2, <3>1, <3>2, <3>3 DEF MatrixOk
  <2>5. matrix' = m
    BY <1>0, <1>2, <2>1, <2>2, <2>3 DEF SavePermissions
  <2> QED BY <2>4, <2>5 DEF MatrixInv
<1>3. ASSUME NEW payload \in matrix.flying, NEW applied \in BOOLEAN, NEW ok \in BOOLEAN,
             PermissionsAnswered(payload, applied, ok)
      PROVE  MatrixInv'
  <2>1. payload = old.payload /\ old.flying = {payload} /\ (ok => applied)
    BY <1>0, <1>3 DEF PermissionsAnswered
  <2>2. PICK flying \in PayloadSets : flying = {}
    BY DEF PayloadSets
  <2>3. PICK server \in Nat : server = IF applied THEN payload ELSE old.server
    BY <1>a, <2>1
  <2>4. PICK message \in {"saved", "failed"} : message = IF ok THEN "saved" ELSE "failed"
    OBVIOUS
  <2>5. PICK m : m = [old EXCEPT !.saving = FALSE, !.message = message,
                                 !.flying = flying, !.server = server]
    OBVIOUS
  <2>6. MatrixOk(m)
    <3>1. /\ m.saving = FALSE /\ m.message = message /\ m.payload = old.payload
          /\ m.flying = flying /\ m.server = server /\ m.roles = old.roles
      BY <2>5
    <3>2. m \in [roles : Nat, saving : BOOLEAN, message : {"none", "saved", "failed"},
                 payload : Nat, flying : PayloadSets, server : Nat]
      BY <2>5
    <3>3. server <= old.payload /\ (ok => server = old.payload) /\ (message = "saved" => ok)
      BY <1>0, <1>a, <2>1, <2>3, <2>4
    <3> QED BY <1>0, <2>2, <3>1, <3>2, <3>3 DEF MatrixOk
  <2>7. matrix' = m
    BY <1>0, <1>3, <2>1, <2>2, <2>3, <2>4, <2>5 DEF PermissionsAnswered
  <2> QED BY <2>6, <2>7 DEF MatrixInv
<1>4. CASE UNCHANGED matrix
  BY <1>4 DEF MatrixInv, MatrixOk
<1> QED BY <1>1, <1>2, <1>3, <1>4 DEF MatrixNext

LEMMA MatrixMeaning == MatrixInv => MatrixSaved
BY DEF MatrixInv, MatrixOk, MatrixSaved

-----------------------------------------------------------------------------
(* The upload list                                                         *)

FileRecord == [large : BOOLEAN, status : {"uploading", "done", "error"}, progress : {0, 100},
               given : BOOLEAN, stored : BOOLEAN, told : Nat]
FileOk(f) ==
    /\ f \in FileRecord
    /\ f.large => ~f.given /\ f.status = "error" /\ ~f.stored
    /\ f.told = (IF f.stored THEN 1 ELSE 0)
    /\ f.status = "done" => f.stored
    /\ f.status = "uploading" => ~f.stored
    /\ f.stored <=> f.progress = 100
FilesInv == files \in Seq(FileRecord) /\ \A i \in DOMAIN files : FileOk(files[i])

LEMMA FilesStart == FilesInit => FilesInv
BY DEF FilesInit, FilesInv

LEMMA FileChanges ==
    ASSUME FilesInv, NEW i \in DOMAIN files, NEW f, FileOk(f), files' = [files EXCEPT ![i] = f]
    PROVE  FilesInv'
BY DEF FilesInv, FileOk

LEMMA FilesMove == FilesInv /\ [FilesNext]_files => FilesInv'
<1> SUFFICES ASSUME FilesInv, [FilesNext]_files PROVE FilesInv'
  OBVIOUS
<1>1. ASSUME NEW sizes \in Seq(BOOLEAN), ProcessFiles(sizes) PROVE FilesInv'
  <2>1. PICK added : added = [i \in DOMAIN sizes |-> NewFile(sizes[i])]
    OBVIOUS
  <2>2. /\ DOMAIN sizes = 1..Len(sizes) /\ Len(sizes) \in Nat
        /\ \A i \in DOMAIN sizes : sizes[i] \in BOOLEAN
    OBVIOUS
  <2>3. \A i \in DOMAIN sizes : FileOk(added[i])
    <3>1. ASSUME NEW large \in BOOLEAN PROVE FileOk(NewFile(large))
      <4>1. CASE large
        <5>1. NewFile(large) = [large |-> TRUE, status |-> "error", progress |-> 0,
                                given |-> FALSE, stored |-> FALSE, told |-> 0]
          BY <4>1 DEF NewFile
        <5> QED BY <5>1 DEF FileOk, FileRecord
      <4>2. CASE ~large
        BY <4>2 DEF NewFile, FileOk, FileRecord
      <4> QED BY <4>1, <4>2
    <3> QED BY <2>1, <2>2, <3>1
  <2>4. added \in Seq(FileRecord) /\ Len(added) = Len(sizes)
    <3>1. added \in [1..Len(sizes) -> FileRecord]
      BY <2>1, <2>2, <2>3 DEF FileOk
    <3> QED BY <2>2, <3>1, SeqDef
  <2>5. files' = files \o added
    BY <1>1, <2>1 DEF ProcessFiles
  <2>6. /\ files' \in Seq(FileRecord) /\ Len(files') = Len(files) + Len(added)
        /\ \A i \in 1..Len(files') :
             files'[i] = IF i <= Len(files) THEN files[i] ELSE added[i - Len(files)]
    <3>1. files \in Seq(FileRecord)
      BY DEF FilesInv
    <3>2. /\ files \o added \in Seq(FileRecord)
          /\ Len(files \o added) = Len(files) + Len(added)
          /\ \A i \in 1..Len(files) + Len(added) :
               (files \o added)[i] = IF i <= Len(files) THEN files[i] ELSE added[i - Len(files)]
      BY <2>4, <3>1, ConcatProperties
    <3> QED BY <2>5, <3>2
  <2>7. \A i \in 1..Len(files') : FileOk(files'[i])
    <3>1. Len(files) \in Nat /\ DOMAIN files = 1..Len(files)
      BY DEF FilesInv
    <3>2. ASSUME NEW i \in 1..Len(files') PROVE FileOk(files'[i])
      <4>1. CASE i <= Len(files)
        BY <2>6, <3>1, <4>1 DEF FilesInv
      <4>2. CASE ~(i <= Len(files))
        <5>1. i - Len(files) \in DOMAIN sizes
          BY <2>2, <2>4, <2>6, <3>1, <4>2
        <5> QED BY <2>3, <2>6, <4>2, <5>1
      <4> QED BY <4>1, <4>2
    <3> QED BY <3>2
  <2> QED BY <2>6, <2>7 DEF FilesInv
<1>2. ASSUME NEW i, NEW callback \in {"returns", "raises"}, UploadResolves(i, callback)
      PROVE  FilesInv'
  <2>1. i \in DOMAIN files /\ files[i].status = "uploading"
    BY <1>2 DEF UploadResolves
  <2>2. PICK old \in FileRecord : old = files[i] /\ FileOk(old)
    BY <2>1 DEF FilesInv, FileOk
  <2>3. PICK f : f = [old EXCEPT !.progress = 100, !.stored = TRUE, !.told = @ + 1,
                                 !.status = IF callback = "raises" THEN "error" ELSE "done"]
    OBVIOUS
  <2>4. FileOk(f)
    <3>1. /\ f.progress = 100 /\ f.stored = TRUE /\ f.told = old.told + 1
          /\ f.status = (IF callback = "raises" THEN "error" ELSE "done")
          /\ f.large = old.large /\ f.given = old.given
      BY <2>3 DEF FileRecord
    <3>2. ~old.stored /\ old.told = 0 /\ ~old.large
      BY <2>1, <2>2 DEF FileOk
    <3>3. f \in FileRecord
      <4>1. PICK status \in {"error", "done"} :
              status = IF callback = "raises" THEN "error" ELSE "done"
        OBVIOUS
      <4>2. f = [old EXCEPT !.progress = 100, !.stored = TRUE, !.told = 1, !.status = status]
        BY <2>3, <3>2, <4>1
      <4> QED BY <4>2 DEF FileRecord
    <3> QED BY <3>1, <3>2, <3>3 DEF FileOk
  <2>5. files' = [files EXCEPT ![i] = f]
    <3>1. f = [files[i] EXCEPT !.progress = 100, !.stored = TRUE, !.told = @ + 1,
                               !.status = IF callback = "raises" THEN "error" ELSE "done"]
      BY <2>2, <2>3
    <3>2. files' = [files EXCEPT ![i] =
                      [files[i] EXCEPT !.progress = 100, !.stored = TRUE, !.told = @ + 1,
                         !.status = IF callback = "raises" THEN "error" ELSE "done"]]
      BY <1>2 DEF UploadResolves
    <3> QED BY ONLY <3>1, <3>2
  <2> QED BY <2>1, <2>4, <2>5, FileChanges
<1>3. ASSUME NEW i, UploadRejects(i) PROVE FilesInv'
  <2>1. i \in DOMAIN files /\ files[i].status = "uploading"
    BY <1>3 DEF UploadRejects
  <2>2. PICK old \in FileRecord : old = files[i] /\ FileOk(old)
    BY <2>1 DEF FilesInv, FileOk
  <2>3. PICK f : f = [old EXCEPT !.status = "error"]
    OBVIOUS
  <2>4. FileOk(f)
    BY <2>1, <2>2, <2>3 DEF FileOk, FileRecord
  <2>5. files' = [files EXCEPT ![i] = f]
    BY <1>3, <2>2, <2>3 DEF UploadRejects
  <2> QED BY <2>1, <2>4, <2>5, FileChanges
<1>4. CASE UNCHANGED files
  BY <1>4 DEF FilesInv
<1>5. ASSUME NEW one \in BOOLEAN, NEW two \in BOOLEAN
      PROVE  <<one>> \in Seq(BOOLEAN) /\ <<one, two>> \in Seq(BOOLEAN)
  OBVIOUS
<1> QED BY <1>1, <1>2, <1>3, <1>4, <1>5 DEF FilesNext

LEMMA FilesMeaning == FilesInv => FilesTruthful
BY DEF FilesInv, FileOk, FilesTruthful, Range, FileRecord

-----------------------------------------------------------------------------
(* The admin login                                                         *)

AdminNames == Admins \union {NoAdmin}
SentRecord == [admin : AdminNames, code : BOOLEAN]
LoginRecord == [admin : AdminNames, code : BOOLEAN, asked : BOOLEAN, error : BOOLEAN,
                loading : BOOLEAN, out : SentRecord, last : SentRecord, token : AdminNames,
                gone : BOOLEAN, tries : Nat]

\* While a request is out, it is the last that was sent.
LoginOk(l) ==
    /\ l \in LoginRecord
    /\ l.token # NoAdmin => /\ l.token = l.last.admin
                            /\ l.token \in demands => l.last.code
    /\ l.last.code => l.asked
    /\ l.asked => demands # {}
    /\ ~l.gone => (l.loading <=> l.out # Unsent)
    /\ l.error => ~l.loading
    /\ l.out # Unsent => l.out = l.last /\ l.out.admin # NoAdmin
    /\ ~l.gone => l.token = NoAdmin
LoginInv == LoginOk(login) /\ demands \subseteq Admins

LEMMA LoginStart == LoginInit => LoginInv
BY DEF LoginInit, LoginInv, LoginOk, LoginRecord, SentRecord, AdminNames, Unsent

LEMMA LoginMoves == LoginInv /\ [LoginNext]_loginVars => LoginInv'
<1> SUFFICES ASSUME LoginInv, [LoginNext]_loginVars PROVE LoginInv'
  OBVIOUS
<1>0. PICK old \in LoginRecord : old = login /\ LoginOk(old)
  BY DEF LoginInv, LoginOk
<1>a. ASSUME NEW l, LoginOk(l), LoginStep(l) PROVE LoginInv'
  BY <1>a DEF LoginStep, LoginInv, LoginOk
<1>b. Unsent \in SentRecord /\ Unsent.admin = NoAdmin
  BY DEF Unsent, SentRecord, AdminNames
<1>1. ASSUME NEW a \in Admins, TypeAdmin(a) PROVE LoginInv'
  <2>1. PICK l : l = [old EXCEPT !.admin = a]
    OBVIOUS
  <2>2. LoginOk(l)
    BY <1>0, <2>1 DEF LoginOk, LoginRecord, AdminNames
  <2> QED BY <1>0, <1>a, <1>1, <2>1, <2>2 DEF TypeAdmin
<1>2. CASE TypeCode
  <2>1. PICK l : l = [old EXCEPT !.code = ~@]
    OBVIOUS
  <2>2. LoginOk(l)
    BY <1>0, <2>1 DEF LoginOk, LoginRecord
  <2> QED BY <1>0, <1>a, <1>2, <2>1, <2>2 DEF TypeCode
<1>3. CASE SubmitLogin
  <2>1. /\ ~old.loading /\ ~old.gone /\ old.admin # NoAdmin /\ (old.asked => old.code)
    BY <1>0, <1>3 DEF SubmitLogin, LoginStep
  <2>2. PICK sent \in SentRecord : sent = [admin |-> old.admin, code |-> old.asked /\ old.code]
    BY <1>0 DEF SentRecord, LoginRecord
  <2>3. sent.admin = old.admin /\ (sent.code => old.asked) /\ sent # Unsent
    <3>1. sent.admin = old.admin /\ sent.code = (old.asked /\ old.code)
      BY <2>2
    <3> QED BY <1>b, <2>1, <3>1
  <2>4. PICK l : l = [old EXCEPT !.tries = @ + 1, !.error = FALSE, !.loading = TRUE,
                                 !.out = sent, !.last = sent]
    OBVIOUS
  <2>5. LoginOk(l)
    <3>1. /\ l.loading = TRUE /\ l.error = FALSE /\ l.out = sent /\ l.last = sent
          /\ l.asked = old.asked /\ l.gone = old.gone /\ l.token = old.token
      BY <2>4 DEF LoginRecord
    <3>a. old.tries + 1 \in Nat
      BY DEF LoginRecord
    <3>2. l \in LoginRecord
      BY <2>4, <3>a DEF LoginRecord
    <3>3. old.token = NoAdmin /\ (old.asked => demands # {})
      BY <1>0, <2>1 DEF LoginOk
    <3> QED BY <2>1, <2>3, <3>1, <3>2, <3>3 DEF LoginOk
  <2> QED BY <1>0, <1>a, <1>3, <2>2, <2>4, <2>5 DEF SubmitLogin
<1>4. ASSUME NEW right \in BOOLEAN, LoginAnswered(right) PROVE LoginInv'
  <2>0. /\ old.out # Unsent /\ old.out = old.last /\ ~old.gone /\ old.loading
        /\ old.out.admin # NoAdmin /\ old.out.admin \in AdminNames
    BY <1>0, <1>4 DEF LoginAnswered, LoginStep, LoginOk, LoginRecord, SentRecord
  <2>1. CASE ~right
    <3>1. PICK l : l = [old EXCEPT !.loading = FALSE, !.out = Unsent, !.error = TRUE]
      OBVIOUS
    <3>2. LoginOk(l)
      BY <1>0, <1>b, <2>0, <3>1 DEF LoginOk, LoginRecord
    <3>3. [RequestOver(login) EXCEPT !.error = TRUE] = l
      BY <1>0, <3>1 DEF RequestOver, LoginRecord
    <3> QED BY <1>a, <1>4, <2>1, <3>2, <3>3 DEF LoginAnswered
  <2>2. CASE right /\ old.out.admin \in demands /\ ~old.out.code
    <3>1. PICK l : l = [old EXCEPT !.loading = FALSE, !.out = Unsent, !.asked = TRUE,
                                   !.error = FALSE]
      OBVIOUS
    <3>2. LoginOk(l)
      BY <1>0, <1>b, <2>0, <2>2, <3>1 DEF LoginOk, LoginRecord
    <3>3. [RequestOver(login) EXCEPT !.asked = TRUE, !.error = FALSE] = l
      BY <1>0, <3>1 DEF RequestOver, LoginRecord
    <3> QED BY <1>0, <1>a, <1>4, <2>2, <3>2, <3>3 DEF LoginAnswered
  <2>3. CASE right /\ ~(old.out.admin \in demands /\ ~old.out.code)
    <3>1. PICK l : l = [old EXCEPT !.out = Unsent, !.token = old.out.admin, !.gone = TRUE]
      OBVIOUS
    <3>2. LoginOk(l)
      BY <1>0, <1>b, <2>0, <2>3, <3>1 DEF LoginOk, LoginRecord
    <3> QED BY <1>0, <1>a, <1>4, <2>3, <3>1, <3>2 DEF LoginAnswered
  <2> QED BY <2>1, <2>2, <2>3
<1>5. CASE UNCHANGED loginVars
  BY <1>5 DEF loginVars, LoginInv, LoginOk
<1> QED BY <1>1, <1>2, <1>3, <1>4, <1>5 DEF LoginNext

LEMMA LoginMeaning == LoginInv => LoginTruthful
BY DEF LoginInv, LoginOk, LoginTruthful

-----------------------------------------------------------------------------
\* What is appended comes last, and the rest stays in place.
LEMMA Appended ==
    ASSUME NEW S, NEW s \in Seq(S), NEW x \in S
    PROVE  /\ Append(s, x) \in Seq(S) /\ Len(s) \in Nat /\ DOMAIN s = 1..Len(s)
           /\ Len(Append(s, x)) = Len(s) + 1 /\ Append(s, x)[Len(s) + 1] = x
           /\ \A i \in 1..Len(s) : Append(s, x)[i] = s[i]
           /\ DOMAIN Append(s, x) = DOMAIN s \union {Len(s) + 1}
<1>1. Len(s) \in Nat /\ DOMAIN s = 1..Len(s)
  OBVIOUS
<1>2. 1..(Len(s) + 1) = (1..Len(s)) \union {Len(s) + 1}
  BY <1>1
<1> QED BY <1>1, <1>2, AppendProperties

(* The knowledge page                                                      *)

FetchSets == SUBSET Nat
Answers == Selections \union {<<"nothing", 0>>}
BrowseRecord == [selected : Selections, asked : Seq(Selections), flying : FetchSets,
                 order : Seq(Nat), failed : FetchSets, shown : Answers, loading : BOOLEAN]

\* The newest request is out, answered or failed, and the last answer is shown.
BrowseOk(b) ==
    /\ b \in BrowseRecord
    /\ Len(b.asked) >= 1 /\ b.selected = b.asked[Len(b.asked)]
    /\ b.flying \subseteq 1..Len(b.asked)
    /\ \A i \in DOMAIN b.order : b.order[i] \in 1..Len(b.asked)
    /\ \/ Len(b.asked) \in b.flying \union b.failed
       \/ \E i \in DOMAIN b.order : b.order[i] = Len(b.asked)
    /\ Len(b.order) > 0 => b.shown = b.asked[b.order[Len(b.order)]]
    /\ b.loading => b.flying # {}
BrowseInv == BrowseOk(browse)

LEMMA BrowseStart == BrowseInit => BrowseInv
<1> SUFFICES ASSUME BrowseInit PROVE BrowseInv
  OBVIOUS
<1>1. PICK f \in Filters :
        browse = [selected |-> <<f, 0>>, asked |-> << <<f, 0>> >>, flying |-> {1},
                  order |-> <<>>, failed |-> {}, shown |-> <<"nothing", 0>>, loading |-> TRUE]
  BY DEF BrowseInit
<1>2. <<f, 0>> \in Selections /\ <<"nothing", 0>> \in Answers
  BY DEF Selections, Answers
<1>3. /\ << <<f, 0>> >> \in Seq(Selections) /\ Len(<< <<f, 0>> >>) = 1
      /\ << <<f, 0>> >>[1] = <<f, 0>>
  BY <1>2
<1>4. {1} \in FetchSets /\ {} \in FetchSets /\ <<>> \in Seq(Nat) /\ Len(<<>>) = 0
  BY DEF FetchSets
<1>5. browse \in BrowseRecord
  BY <1>1, <1>2, <1>3, <1>4 DEF BrowseRecord
<1> QED BY <1>1, <1>3, <1>4, <1>5 DEF BrowseInv, BrowseOk

LEMMA BrowseMoves == BrowseInv /\ [BrowseNext]_browse => BrowseInv'
<1> SUFFICES ASSUME BrowseInv, [BrowseNext]_browse PROVE BrowseInv'
  OBVIOUS
<1>0. PICK old \in BrowseRecord : old = browse /\ BrowseOk(old)
  BY DEF BrowseInv, BrowseOk
<1>a. PICK newest \in Nat : newest = Len(old.asked) /\ newest >= 1 /\ DOMAIN old.asked = 1..newest
  BY <1>0 DEF BrowseOk, BrowseRecord
<1>b. /\ old.flying \in FetchSets /\ old.order \in Seq(Nat) /\ old.failed \in FetchSets
      /\ old.asked \in Seq(Selections)
  BY DEF BrowseRecord
<1>1. ASSUME NEW selection \in Selections, Choose(selection) PROVE BrowseInv'
  <2>1. PICK asked \in Seq(Selections) :
          /\ asked = Append(old.asked, selection) /\ Len(asked) = newest + 1
          /\ asked[newest + 1] = selection
          /\ \A i \in 1..newest : asked[i] = old.asked[i]
    <3>1. old.asked \in Seq(Selections) /\ selection \in Selections
      BY <1>b
    <3>2. /\ Append(old.asked, selection) \in Seq(Selections)
          /\ Len(Append(old.asked, selection)) = Len(old.asked) + 1
          /\ Append(old.asked, selection)[Len(old.asked) + 1] = selection
          /\ \A i \in 1..Len(old.asked) : Append(old.asked, selection)[i] = old.asked[i]
      BY ONLY <3>1, Appended
    <3> QED BY <1>a, <3>2
  <2>2. PICK flying \in FetchSets : flying = old.flying \union {newest + 1}
    <3>1. newest + 1 \in Nat
      BY <1>a
    <3> QED BY <1>b, <3>1 DEF FetchSets
  <2>3. PICK b : b = [old EXCEPT !.selected = selection, !.loading = TRUE, !.asked = asked,
                                 !.flying = flying]
    OBVIOUS
  <2>4. /\ b \in BrowseRecord /\ b.selected = selection /\ b.loading = TRUE /\ b.asked = asked
        /\ b.flying = flying /\ b.order = old.order /\ b.shown = old.shown
    BY <2>3 DEF BrowseRecord
  <2>5. browse' = b
    BY <1>0, <1>1, <1>a, <2>1, <2>2, <2>3 DEF Choose
  <2>6. \A i \in DOMAIN old.order : old.order[i] \in 1..newest
    BY <1>0, <1>a DEF BrowseOk
  <2>7. Len(old.order) > 0 => old.shown = asked[old.order[Len(old.order)]]
    <3>1. Len(old.order) > 0 => Len(old.order) \in DOMAIN old.order
      BY <1>b
    <3> QED BY <1>0, <2>1, <2>6, <3>1 DEF BrowseOk
  <2>8. b.flying \subseteq 1..newest + 1
    BY <1>0, <1>a, <2>2, <2>4 DEF BrowseOk
  <2>9. BrowseOk(b)
    BY <1>a, <2>1, <2>2, <2>4, <2>6, <2>7, <2>8 DEF BrowseOk
  <2> QED BY <2>5, <2>9 DEF BrowseInv
<1>2. ASSUME NEW i, EntriesArrive(i) PROVE BrowseInv'
  <2>1. i \in old.flying /\ i \in 1..newest
    BY <1>0, <1>2, <1>a DEF EntriesArrive, BrowseOk
  <2>2. PICK flying \in FetchSets : flying = old.flying \ {i}
    BY <1>b DEF FetchSets
  <2>3. PICK order \in Seq(Nat) :
          /\ order = Append(old.order, i) /\ Len(order) = Len(old.order) + 1
          /\ order[Len(old.order) + 1] = i
          /\ \A j \in DOMAIN old.order : order[j] = old.order[j]
          /\ DOMAIN order = DOMAIN old.order \union {Len(order)}
    <3>1. i \in Nat
      BY <2>1
    <3>2. old.order \in Seq(Nat)
      BY <1>b
    <3>3. /\ Append(old.order, i) \in Seq(Nat) /\ DOMAIN old.order = 1..Len(old.order)
          /\ Len(Append(old.order, i)) = Len(old.order) + 1
          /\ Append(old.order, i)[Len(old.order) + 1] = i
          /\ \A j \in 1..Len(old.order) : Append(old.order, i)[j] = old.order[j]
          /\ DOMAIN Append(old.order, i) = DOMAIN old.order \union {Len(old.order) + 1}
      BY ONLY <3>1, <3>2, Appended
    <3> QED BY <3>3
  <2>4. PICK shown \in Answers : shown = old.asked[i]
    BY <1>a, <1>b, <2>1 DEF Answers
  <2>5. PICK b : b = [old EXCEPT !.shown = shown, !.loading = FALSE, !.flying = flying,
                                 !.order = order]
    OBVIOUS
  <2>6. /\ b \in BrowseRecord /\ b.selected = old.selected /\ b.loading = FALSE
        /\ b.asked = old.asked /\ b.flying = flying /\ b.order = order /\ b.shown = shown
        /\ b.failed = old.failed
    BY <2>5 DEF BrowseRecord
  <2>7. browse' = b
    BY <1>0, <1>2, <2>2, <2>3, <2>4, <2>5 DEF EntriesArrive
  <2>8. \A j \in DOMAIN order : order[j] \in 1..newest
    BY <1>0, <1>a, <2>1, <2>3 DEF BrowseOk
  <2>9. \/ newest \in flying \union old.failed
        \/ \E j \in DOMAIN order : order[j] = newest
    <3>1. CASE newest = i
      BY <2>3, <3>1
    <3>2. CASE newest # i
      <4>1. \/ newest \in old.flying \union old.failed
            \/ \E j \in DOMAIN old.order : old.order[j] = newest
        BY <1>0, <1>a DEF BrowseOk
      <4> QED BY <2>2, <2>3, <3>2, <4>1
    <3> QED BY <3>1, <3>2
  <2>10. /\ Len(b.asked) >= 1 /\ b.selected = b.asked[Len(b.asked)]
         /\ b.flying \subseteq 1..newest
    BY <1>0, <1>a, <2>2, <2>6 DEF BrowseOk
  <2>11. order[Len(order)] = i
    BY <1>b, <2>3
  <2>12. BrowseOk(b)
    BY <1>a, <2>4, <2>6, <2>8, <2>9, <2>10, <2>11 DEF BrowseOk
  <2> QED BY <2>7, <2>12 DEF BrowseInv
<1>3. ASSUME NEW i, FetchFails(i) PROVE BrowseInv'
  <2>1. i \in old.flying /\ i \in 1..newest
    BY <1>0, <1>3, <1>a DEF FetchFails, BrowseOk
  <2>2. PICK flying \in FetchSets : flying = old.flying \ {i}
    BY <1>b DEF FetchSets
  <2>3. PICK failed \in FetchSets : failed = old.failed \union {i}
    BY <1>b, <2>1 DEF FetchSets
  <2>4. PICK b : b = [old EXCEPT !.loading = FALSE, !.flying = flying, !.failed = failed]
    OBVIOUS
  <2>5. /\ b \in BrowseRecord /\ b.selected = old.selected /\ b.loading = FALSE
        /\ b.asked = old.asked /\ b.flying = flying /\ b.order = old.order
        /\ b.shown = old.shown /\ b.failed = failed
    BY <2>4 DEF BrowseRecord
  <2>6. browse' = b
    BY <1>0, <1>3, <2>2, <2>3, <2>4 DEF FetchFails
  <2>7. BrowseOk(b)
    BY <1>0, <1>a, <2>2, <2>3, <2>5 DEF BrowseOk
  <2> QED BY <2>6, <2>7 DEF BrowseInv
<1>4. CASE UNCHANGED browse
  BY <1>4 DEF BrowseInv, BrowseOk
<1> QED BY <1>1, <1>2, <1>3, <1>4 DEF BrowseNext

LEMMA BrowseMeaning == BrowseInv => ShowsSelection /\ browse.flying \subseteq DOMAIN browse.asked
<1> SUFFICES ASSUME BrowseInv
             PROVE  ShowsSelection /\ browse.flying \subseteq DOMAIN browse.asked
  OBVIOUS
<1>0. PICK b \in BrowseRecord : b = browse /\ BrowseOk(b)
  BY DEF BrowseInv, BrowseOk
<1>1. b.asked \in Seq(Selections) /\ b.order \in Seq(Nat)
  BY DEF BrowseRecord
<1>2. ASSUME b.flying = {}, Len(b.asked) \notin b.failed
      PROVE  \/ b.shown = b.selected
             \/ \E i \in DOMAIN b.order : b.order[i] = Len(b.asked) /\ i < Len(b.order)
  <2>1. PICK i \in DOMAIN b.order : b.order[i] = Len(b.asked)
    BY <1>0, <1>2 DEF BrowseOk
  <2>2. i <= Len(b.order) /\ i >= 1 /\ i \in Nat /\ Len(b.order) \in Nat
    BY <1>1
  <2>3. CASE i = Len(b.order)
    BY <1>0, <2>1, <2>2, <2>3 DEF BrowseOk
  <2> QED BY <2>1, <2>2, <2>3
<1>3. b.flying \subseteq DOMAIN b.asked /\ (b.flying = {} => ~b.loading)
  BY <1>0, <1>1 DEF BrowseOk
<1> QED BY <1>0, <1>2, <1>3 DEF ShowsSelection

-----------------------------------------------------------------------------
(* The chat page                                                           *)

Tokens == {"none", "valid", "stale", "broken"}
ChatIds == Chats \union {NoChat}
ChatLists == SUBSET Chats
MessageRecord == [role : {"user", "assistant"}, q : Nat, chat : ChatIds, streaming : BOOLEAN]
ChatMessages == Seq(MessageRecord)
BusyRecord == [q : Nat, chat : ChatIds, session : Nat]
Requests == SUBSET BusyRecord
PageRecord == [list : ChatLists, active : ChatIds, shown : ChatMessages, busy : BusyRecord,
               mixed : BOOLEAN]
ChatRecord == [page : PageRecord, asked : Nat, used : ChatLists, left : Requests,
               session : Nat]
Users == {"loading", "none", "known", "leaving"}

\* Messages in the order of their questions, of which n were asked, each answer
\* below its question; the one that streams is the one that is out.
ShownOk(shown, busy, n) ==
    /\ \A i \in DOMAIN shown : shown[i].q >= 1 /\ shown[i].q <= n
    /\ \A i, j \in DOMAIN shown : i < j => shown[i].q <= shown[j].q
    /\ \A i \in DOMAIN shown : shown[i].role = "assistant" =>
         i > 1 /\ shown[i - 1] = Message("user", shown[i].q, shown[i].chat, FALSE)
    /\ \A i \in DOMAIN shown : shown[i].streaming =>
         shown[i].role = "assistant" /\ busy.q = shown[i].q
\* All messages of one conversation.
AllOf(shown, id) == \A i \in DOMAIN shown : shown[i].chat = id
PageOk(p, n) ==
    /\ p \in PageRecord
    /\ ShownOk(p.shown, p.busy, n)
    /\ ~p.mixed => AllOf(p.shown, p.active)
    /\ p.active \in p.list \union {NoChat}
    /\ Len(p.shown) > 0 => p.active # NoChat

\* The requests out are of the session, and of an older one after a login.
LeftOf(left, session, u) ==
    \A r \in left : r.session <= session /\ (r.session = session <=> u # "leaving")
SessionOk(c, u) ==
    /\ LeftOf(c.left, c.session, u)
    /\ c.page.busy # NoRequest => u # "leaving" /\ c.page.busy.session = c.session
ChatInv == /\ chat \in ChatRecord /\ PageOk(chat.page, chat.asked)
           /\ SessionOk(chat, user)
           /\ token \in Tokens /\ user \in Users

LEMMA EmptyPageOk == /\ EmptyPage \in PageRecord
                     /\ \A n \in Nat : PageOk(EmptyPage, n)
<1>1. {} \in ChatLists /\ NoChat \in ChatIds /\ <<>> \in ChatMessages /\ Len(<<>>) = 0
  BY DEF ChatLists, ChatIds, ChatMessages
<1>2. NoRequest \in BusyRecord
  BY <1>1 DEF NoRequest, BusyRecord
<1>3. EmptyPage \in PageRecord
  BY <1>1, <1>2 DEF EmptyPage, PageRecord
<1>4. /\ EmptyPage.shown = <<>> /\ EmptyPage.busy = NoRequest /\ EmptyPage.active = NoChat
      /\ DOMAIN <<>> = {}
  BY DEF EmptyPage
<1>5. ASSUME NEW n \in Nat PROVE ShownOk(<<>>, NoRequest, n) /\ AllOf(<<>>, NoChat)
  BY <1>4 DEF ShownOk, AllOf
<1> QED BY <1>1, <1>3, <1>4, <1>5 DEF PageOk

\* A step that changes the page alone, and sends no request.
LEMMA PageChanges ==
    ASSUME ChatInv, NEW p, PageOk(p, chat.asked), OnPage(p),
           p.busy # NoRequest => p.busy = Page.busy,
           token' \in Tokens, user' \in Users, user' = "leaving" <=> user = "leaving"
    PROVE  ChatInv'
<1>1. PICK old \in ChatRecord : old = chat
  BY DEF ChatInv
<1>2. PICK c : c = [old EXCEPT !.page = p]
  OBVIOUS
<1>3. /\ c \in ChatRecord /\ c.page = p /\ c.asked = old.asked /\ c.left = old.left
      /\ c.session = old.session
  BY <1>2 DEF ChatRecord, PageOk
<1>4. chat' = c
  BY <1>1, <1>2 DEF OnPage
<1>5. SessionOk(c, user')
  BY <1>1, <1>3 DEF ChatInv, SessionOk, LeftOf, Page
<1> QED BY <1>1, <1>3, <1>4, <1>5 DEF ChatInv

\* What is out when the page is left.
LEMMA LeftBehind ==
    ASSUME ChatInv
    PROVE  /\ PageLeft \in ChatRecord /\ PageLeft.page = EmptyPage
           /\ PageLeft.asked = chat.asked /\ PageLeft.session = chat.session
           /\ LeftOf(PageLeft.left, chat.session, user)
<1>1. PICK old \in ChatRecord : old = chat /\ SessionOk(old, user)
  BY DEF ChatInv
<1>2. /\ old.left \in Requests /\ old.page.busy \in BusyRecord /\ old.session \in Nat
  BY DEF ChatRecord, PageRecord
<1>3. PICK out \in Requests : out = old.left \union ({old.page.busy} \ {NoRequest})
  BY <1>2 DEF Requests
<1>4. PICK c : c = [old EXCEPT !.page = EmptyPage, !.left = out]
  OBVIOUS
<1>5. /\ c \in ChatRecord /\ c.page = EmptyPage /\ c.asked = old.asked
      /\ c.session = old.session /\ c.left = out
  BY <1>4, EmptyPageOk DEF ChatRecord
<1>6. PageLeft = c
  BY <1>1, <1>3, <1>4 DEF PageLeft, Out, Page
<1>7. LeftOf(out, old.session, user)
  BY <1>1, <1>2, <1>3 DEF SessionOk, LeftOf
<1> QED BY <1>1, <1>5, <1>6, <1>7

\* A step that leaves the page.
LEMMA PageLeaves ==
    ASSUME ChatInv, LeavePage, token' \in Tokens, user' \in Users,
           user' = "leaving" <=> user = "leaving"
    PROVE  ChatInv'
<1>1. chat' = PageLeft /\ chat.asked \in Nat
  BY DEF LeavePage, ChatInv, ChatRecord
<1>2. PageOk(EmptyPage, chat.asked) /\ EmptyPage.busy = NoRequest
  BY <1>1, EmptyPageOk DEF EmptyPage
<1>3. SessionOk(PageLeft, user')
  BY <1>2, LeftBehind DEF SessionOk, LeftOf
<1> QED BY <1>1, <1>2, <1>3, LeftBehind DEF ChatInv

LEMMA ChatStart == ChatInit => ChatInv
<1> SUFFICES ASSUME ChatInit PROVE ChatInv
  OBVIOUS
<1>1. /\ chat = [page |-> EmptyPage, asked |-> 0, used |-> {}, left |-> {}, session |-> 0]
      /\ {} \in ChatLists /\ {} \in Requests /\ EmptyPage.busy = NoRequest
  BY DEF ChatInit, ChatLists, Requests, EmptyPage
<1>2. chat \in ChatRecord
  BY <1>1, EmptyPageOk DEF ChatRecord
<1>3. SessionOk(chat, user)
  BY <1>1 DEF SessionOk, LeftOf
<1> QED BY <1>1, <1>2, <1>3, EmptyPageOk DEF ChatInit, ChatInv, Tokens, Users

\* A question with the place of its answer, appended to what is shown.
WithQuestion(shown, q, id) ==
    shown \o <<Message("user", q, id, FALSE), Message("assistant", q, id, TRUE)>>
LEMMA Asked ==
    ASSUME NEW shown \in ChatMessages, NEW n \in Nat, NEW id \in Chats, NEW busy, NEW out,
           ShownOk(shown, busy, n), busy.q = 0, out.q = n + 1
    PROVE  /\ WithQuestion(shown, n + 1, id) \in ChatMessages
           /\ ShownOk(WithQuestion(shown, n + 1, id), out, n + 1)
           /\ AllOf(shown, id) => AllOf(WithQuestion(shown, n + 1, id), id)
<1>b. PICK new : new = WithQuestion(shown, n + 1, id)
  OBVIOUS
<1>a. n + 1 \in Nat /\ id \in ChatIds
  BY DEF ChatIds
<1>1. PICK m1 \in MessageRecord : m1 = Message("user", n + 1, id, FALSE)
  BY <1>a DEF Message, MessageRecord
<1>2. PICK m2 \in MessageRecord : m2 = Message("assistant", n + 1, id, TRUE)
  BY <1>a DEF Message, MessageRecord
<1>3. PICK len \in Nat : len = Len(shown) /\ DOMAIN shown = 1..len /\ shown \in Seq(MessageRecord)
  BY DEF ChatMessages
<1>4. PICK two \in Seq(MessageRecord) :
        two = <<m1, m2>> /\ Len(two) = 2 /\ two[1] = m1 /\ two[2] = m2
  <2>1. <<m1, m2>> \in Seq(MessageRecord)
    BY ONLY m1 \in MessageRecord, m2 \in MessageRecord
  <2>2. Len(<<m1, m2>>) = 2 /\ <<m1, m2>>[1] = m1 /\ <<m1, m2>>[2] = m2
    BY ONLY TRUE
  <2> QED BY ONLY <2>1, <2>2
<1>5. /\ shown \o two \in Seq(MessageRecord) /\ Len(shown \o two) = len + 2
      /\ \A i \in 1..len + 2 : (shown \o two)[i] = IF i <= len THEN shown[i] ELSE two[i - len]
  <2>1. /\ shown \o two \in Seq(MessageRecord)
        /\ Len(shown \o two) = Len(shown) + Len(two)
        /\ \A i \in 1..Len(shown) + Len(two) :
             (shown \o two)[i] = IF i <= Len(shown) THEN shown[i] ELSE two[i - Len(shown)]
    BY <1>3, <1>4, ConcatProperties
  <2> QED BY <1>3, <1>4, <2>1
<1>6. new = shown \o two
  BY <1>b, <1>1, <1>2, <1>4 DEF WithQuestion
<1>7. /\ new \in Seq(MessageRecord) /\ DOMAIN new = 1..len + 2
      /\ \A i \in 1..len : new[i] = shown[i]
      /\ new[len + 1] = m1 /\ new[len + 2] = m2
  <2>1. new \in Seq(MessageRecord) /\ Len(new) = len + 2
    BY <1>5, <1>6
  <2>2. \A i \in 1..len : new[i] = shown[i]
    BY <1>3, <1>5, <1>6
  <2>3. /\ len + 1 \in 1..len + 2 /\ ~(len + 1 <= len) /\ len + 1 - len = 1
        /\ len + 2 \in 1..len + 2 /\ ~(len + 2 <= len) /\ len + 2 - len = 2
    BY ONLY len \in Nat
  <2>4. new[len + 1] = two[1] /\ new[len + 2] = two[2]
    <3>1. \A i \in 1..len + 2 : new[i] = IF i <= len THEN shown[i] ELSE two[i - len]
      BY ONLY <1>5, <1>6
    <3>2. new[len + 1] = two[len + 1 - len] /\ new[len + 2] = two[len + 2 - len]
      BY ONLY <2>3, <3>1
    <3> QED BY ONLY <2>3, <3>2
  <2>5. DOMAIN new = 1..len + 2
    BY <2>1
  <2> QED BY <1>4, <2>1, <2>2, <2>4, <2>5
<1>8. /\ m1.q = n + 1 /\ m1.role = "user" /\ m1.streaming = FALSE /\ m1.chat = id
      /\ m2.q = n + 1 /\ m2.role = "assistant" /\ m2.chat = id
  BY <1>1, <1>2 DEF Message
<1>9. \A i \in 1..len : shown[i].q \in Nat /\ shown[i].q >= 1 /\ shown[i].q <= n /\ ~shown[i].streaming
  <2>1. \A i \in 1..len : shown[i] \in MessageRecord
    BY <1>3
  <2>2. \A i \in 1..len : shown[i].q \in Nat
    BY <2>1 DEF MessageRecord
  <2>3. \A i \in 1..len : shown[i].q >= 1 /\ shown[i].q <= n /\ (shown[i].streaming => shown[i].q = 0)
    BY <1>3 DEF ShownOk
  <2> QED BY <2>2, <2>3
<1>10. \A i \in DOMAIN new : new[i].q >= 1 /\ new[i].q <= n + 1
  <2>1. ASSUME NEW i \in 1..len PROVE new[i].q >= 1 /\ new[i].q <= n + 1
    <3>1. new[i] = shown[i] /\ shown[i].q \in Nat /\ shown[i].q >= 1 /\ shown[i].q <= n
      BY <1>7, <1>9
    <3> QED BY ONLY <3>1, n \in Nat
  <2>2. DOMAIN new = (1..len) \union {len + 1, len + 2}
    <3>1. 1..len + 2 = (1..len) \union {len + 1, len + 2}
      BY ONLY len \in Nat
    <3> QED BY <1>7, <3>1
  <2>3. new[len + 1].q = n + 1 /\ new[len + 2].q = n + 1 /\ n + 1 >= 1 /\ n + 1 <= n + 1
    BY ONLY <1>7, <1>8, n \in Nat
  <2> QED BY <2>1, <2>2, <2>3
<1>11. \A i, j \in DOMAIN new : i < j => new[i].q <= new[j].q
  <2> SUFFICES ASSUME NEW i \in DOMAIN new, NEW j \in DOMAIN new, i < j
               PROVE  new[i].q <= new[j].q
    OBVIOUS
  <2>0. i \in 1..len + 2 /\ j \in 1..len + 2
    BY <1>7
  <2>1. CASE j <= len
    <3>1. i \in 1..len /\ j \in 1..len
      BY <2>0, <2>1
    <3> QED BY <1>3, <1>7, <3>1 DEF ShownOk
  <2>2. CASE ~(j <= len)
    <3>1. j = len + 1 \/ j = len + 2
      BY ONLY len \in Nat, <2>0, <2>2
    <3>2. new[j].q = n + 1
      BY <1>7, <1>8, <3>1
    <3> QED BY <1>10, <3>2
  <2> QED BY <2>1, <2>2
<1>12. ASSUME NEW i \in DOMAIN new
       PROVE  /\ new[i].role = "assistant" =>
                   i > 1 /\ new[i - 1] = Message("user", new[i].q, new[i].chat, FALSE)
              /\ new[i].streaming => new[i].role = "assistant" /\ out.q = new[i].q
  <2>0. i \in 1..len + 2
    BY <1>7
  <2>1. CASE i <= len
    <3>1. i \in 1..len /\ new[i] = shown[i]
      BY <1>7, <2>0, <2>1
    <3>2. shown[i].role = "assistant" =>
            i > 1 /\ shown[i - 1] = Message("user", shown[i].q, shown[i].chat, FALSE)
      BY <1>3, <3>1 DEF ShownOk
    <3>3. i > 1 => i - 1 \in 1..len
      BY <3>1
    <3> QED BY <1>7, <1>9, <3>1, <3>2, <3>3
  <2>2. CASE i = len + 1
    BY <1>7, <1>8, <2>2
  <2>3. CASE i = len + 2
    <3>1. i > 1 /\ i - 1 = len + 1
      BY <2>3
    <3> QED BY <1>1, <1>7, <1>8, <2>3, <3>1
  <2>4. i <= len \/ i = len + 1 \/ i = len + 2
    BY ONLY len \in Nat, <2>0
  <2> QED BY <2>1, <2>2, <2>3, <2>4
<1>13. ASSUME AllOf(shown, id), NEW i \in DOMAIN new PROVE new[i].chat = id
  <2>0. i \in 1..len + 2
    BY <1>7
  <2>1. i \in 1..len \/ i = len + 1 \/ i = len + 2
    BY ONLY len \in Nat, <2>0
  <2>2. CASE i \in 1..len
    <3>1. shown[i].chat = id
      BY <1>3, <1>13, <2>2 DEF AllOf
    <3> QED BY <1>7, <2>2, <3>1
  <2>3. CASE i = len + 1
    BY <1>7, <1>8, <2>3
  <2>4. CASE i = len + 2
    BY <1>7, <1>8, <2>4
  <2> QED BY <2>1, <2>2, <2>3, <2>4
<1> QED BY <1>b, <1>7, <1>10, <1>11, <1>12, <1>13 DEF ShownOk, ChatMessages, AllOf

\* The answer ends its placeholder, and nothing streams any more.
LEMMA AnsweredOk ==
    ASSUME NEW p \in PageRecord, NEW n \in Nat, PageOk(p, n), p = Page
    PROVE  /\ Answered \in ChatMessages /\ Len(Answered) = Len(p.shown)
           /\ ShownOk(Answered, NoRequest, n) /\ DOMAIN Answered = DOMAIN p.shown
           /\ \A i \in DOMAIN p.shown : Answered[i].chat = p.shown[i].chat
<1>1. PICK len \in Nat : len = Len(p.shown) /\ DOMAIN p.shown = 1..len
  BY DEF PageRecord, ChatMessages
<1>2. \A i \in 1..len : p.shown[i] \in MessageRecord
  BY <1>1 DEF PageRecord, ChatMessages
<1>3. ASSUME NEW i \in 1..len
      PROVE  /\ Answered[i] \in MessageRecord /\ ~Answered[i].streaming
             /\ Answered[i].role = p.shown[i].role /\ Answered[i].q = p.shown[i].q
             /\ Answered[i].chat = p.shown[i].chat
             /\ p.shown[i].role = "user" => Answered[i] = p.shown[i]
  <2>1. PICK m \in MessageRecord : m = p.shown[i]
    BY <1>2
  <2>2. m.streaming => m.role = "assistant" /\ p.busy.q = m.q
    BY <1>1, <2>1 DEF PageOk, ShownOk
  <2>3. Answered[i] = IF m.role = "assistant" /\ m.q = p.busy.q
                      THEN [m EXCEPT !.streaming = FALSE] ELSE m
    BY <1>1, <2>1 DEF Answered
  <2>4. PICK over \in MessageRecord : over = [m EXCEPT !.streaming = FALSE]
    BY DEF MessageRecord
  <2>5. over.streaming = FALSE /\ over.role = m.role /\ over.q = m.q /\ over.chat = m.chat
    BY <2>4 DEF MessageRecord
  <2> QED BY <2>1, <2>2, <2>3, <2>4, <2>5 DEF MessageRecord
<1>4. DOMAIN Answered = 1..len
  BY <1>1 DEF Answered
<1>5. Answered \in Seq(MessageRecord) /\ Len(Answered) = len
  <2>1. Answered \in [1..len -> MessageRecord]
    <3>1. Answered = [i \in 1..len |-> Answered[i]]
      BY <1>1 DEF Answered
    <3> QED BY <1>3, <3>1
  <2> QED BY <1>1, <2>1, SeqDef
<1>6. ASSUME NEW i \in 1..len, Answered[i].role = "assistant"
      PROVE  i > 1 /\ Answered[i - 1] = Message("user", Answered[i].q, Answered[i].chat, FALSE)
  <2>1. i > 1 /\ p.shown[i - 1] = Message("user", p.shown[i].q, p.shown[i].chat, FALSE)
    BY <1>1, <1>3, <1>6 DEF PageOk, ShownOk
  <2>2. i - 1 \in 1..len /\ p.shown[i - 1].role = "user"
    BY <1>1, <2>1 DEF Message
  <2>3. Answered[i - 1] = p.shown[i - 1]
    BY <1>3, <2>2
  <2> QED BY <1>3, <2>1, <2>3
<1>7. \A i \in 1..len : p.shown[i].q >= 1 /\ p.shown[i].q <= n
  BY <1>1 DEF PageOk, ShownOk
<1>8. \A i, j \in 1..len : i < j => p.shown[i].q <= p.shown[j].q
  BY <1>1 DEF PageOk, ShownOk
<1> QED BY <1>1, <1>3, <1>4, <1>5, <1>6, <1>7, <1>8 DEF ShownOk, ChatMessages

LEMMA ChatMoves ==
    ASSUME ClientAssumption, ChatInv, [ChatNext]_chatVars
    PROVE  ChatInv'
<1>0. PICK p \in PageRecord : p = chat.page /\ p = Page /\ PageOk(p, chat.asked)
  BY DEF ChatInv, PageOk, Page
<1>a. NoChat \notin Chats
  BY DEF ClientAssumption
<1>b. PICK old \in ChatRecord : old = chat
  BY DEF ChatInv
<1>c. /\ old.asked \in Nat /\ old.used \in ChatLists /\ p = old.page
      /\ old.left \in Requests /\ old.session \in Nat
  BY <1>0, <1>b DEF ChatRecord
<1>d. /\ p.list \in ChatLists /\ p.active \in ChatIds /\ p.shown \in ChatMessages
      /\ p.busy \in BusyRecord /\ p.mixed \in BOOLEAN
  BY DEF PageRecord
<1>e. token \in Tokens /\ user \in Users /\ SessionOk(old, user)
  BY <1>b DEF ChatInv
<1>f. PageOk(EmptyPage, chat.asked) /\ EmptyPage.busy = NoRequest
  BY <1>b, <1>c, EmptyPageOk DEF EmptyPage
<1>g. {} \in ChatLists /\ <<>> \in ChatMessages /\ Len(<<>>) = 0 /\ NoChat \in ChatIds
  BY DEF ChatLists, ChatMessages, ChatIds
<1>h. ASSUME NEW busy, NEW n, NEW id PROVE ShownOk(<<>>, busy, n) /\ AllOf(<<>>, id)
  <2>1. DOMAIN <<>> = {}
    OBVIOUS
  <2> QED BY <2>1 DEF ShownOk, AllOf
<1>1. ASSUME NEW id \in Chats, NewChat(id) PROVE ChatInv'
  <2>1. PICK used \in ChatLists : used = old.used \union {id}
    BY <1>c DEF ChatLists
  <2>2. PICK list \in ChatLists : list = p.list \union {id}
    BY <1>d DEF ChatLists
  <2>3. PICK q : q = [p EXCEPT !.list = list, !.active = id, !.shown = <<>>, !.mixed = FALSE]
    OBVIOUS
  <2>4. /\ q \in PageRecord /\ q.list = list /\ q.active = id /\ q.shown = <<>>
        /\ q.busy = p.busy
    BY <1>g, <2>3 DEF PageRecord, ChatIds
  <2>5. PageOk(q, old.asked)
    BY <1>0, <1>g, <1>h, <2>2, <2>4 DEF PageOk
  <2>6. PICK c : c = [old EXCEPT !.used = used, !.page = q]
    OBVIOUS
  <2>7. /\ c \in ChatRecord /\ c.page = q /\ c.asked = old.asked /\ c.left = old.left
        /\ c.session = old.session
    BY <2>4, <2>6 DEF ChatRecord
  <2>9. SessionOk(c, user)
    BY <1>c, <1>e, <2>4, <2>7 DEF SessionOk
  <2>8. chat' = c /\ UNCHANGED <<token, user>>
    BY <1>0, <1>1, <1>b, <2>1, <2>2, <2>3, <2>6 DEF NewChat
  <2> QED BY <1>e, <2>5, <2>7, <2>8, <2>9 DEF ChatInv
<1>2. ASSUME NEW id \in Chats, SelectChat(id) PROVE ChatInv'
  <2>0. PICK mixed \in BOOLEAN : mixed = (p.mixed \/ (id # p.active /\ p.shown # <<>>))
    OBVIOUS
  <2>1. PICK q : q = [p EXCEPT !.active = id, !.mixed = mixed]
    OBVIOUS
  <2>2. /\ q \in PageRecord /\ q.list = p.list /\ q.active = id /\ q.shown = p.shown
        /\ q.busy = p.busy /\ q.mixed = mixed
    BY <2>1 DEF PageRecord, ChatIds
  <2>4. ~mixed => AllOf(p.shown, id)
    <3>1. p.shown = <<>> => AllOf(p.shown, id)
      BY <1>h
    <3> QED BY <1>0, <2>0, <3>1 DEF PageOk
  <2>3. PageOk(q, chat.asked)
    BY <1>0, <1>2, <1>a, <2>2, <2>4 DEF PageOk, SelectChat
  <2>5. OnPage(q)
    BY <1>0, <1>2, <2>0, <2>1 DEF SelectChat
  <2> QED BY <1>0, <1>2, <1>e, <2>2, <2>3, <2>5, PageChanges DEF SelectChat
<1>3. ASSUME NEW id \in Chats, DeleteChat(id) PROVE ChatInv'
  <2>1. PICK list \in ChatLists : list = p.list \ {id}
    BY <1>d DEF ChatLists
  <2>2. CASE p.active = id
    <3>1. PICK q : q = [p EXCEPT !.list = list, !.active = NoChat, !.shown = <<>>,
                                 !.mixed = FALSE]
      OBVIOUS
    <3>2. /\ q \in PageRecord /\ q.list = list /\ q.active = NoChat /\ q.shown = <<>>
          /\ q.busy = p.busy
      BY <1>g, <3>1 DEF PageRecord
    <3>3. PageOk(q, chat.asked)
      BY <1>0, <1>g, <1>h, <3>2 DEF PageOk
    <3>4. OnPage(q)
      BY <1>0, <1>3, <2>1, <2>2, <3>1 DEF DeleteChat
    <3> QED BY <1>0, <1>3, <1>e, <3>2, <3>3, <3>4, PageChanges DEF DeleteChat
  <2>3. CASE p.active # id
    <3>1. PICK q : q = [p EXCEPT !.list = list]
      OBVIOUS
    <3>2. /\ q \in PageRecord /\ q.list = list /\ q.active = p.active /\ q.shown = p.shown
          /\ q.busy = p.busy /\ q.mixed = p.mixed
      BY <3>1 DEF PageRecord
    <3>3. PageOk(q, chat.asked)
      BY <1>0, <2>1, <2>3, <3>2 DEF PageOk
    <3>4. OnPage(q)
      BY <1>0, <1>3, <2>1, <2>3, <3>1 DEF DeleteChat
    <3> QED BY <1>0, <1>3, <1>e, <3>2, <3>3, <3>4, PageChanges DEF DeleteChat
  <2> QED BY <2>2, <2>3
<1>4. ASSUME AskQuestion, user # "leaving" PROVE ChatInv'
  <2>0. /\ p.active # NoChat /\ p.busy = NoRequest /\ UNCHANGED <<token, user>>
        /\ p.active \in Chats
    BY <1>0, <1>4, <1>d DEF AskQuestion, ChatIds
  <2>1. PICK n \in Nat : n = old.asked + 1
    BY <1>c
  <2>2. CASE token = "none"
    <3>1. PICK c : c = [old EXCEPT !.asked = n, !.page = EmptyPage]
      OBVIOUS
    <3>2. /\ c \in ChatRecord /\ c.page = EmptyPage /\ c.asked = n /\ c.left = old.left
          /\ c.session = old.session
      BY <3>1, EmptyPageOk DEF ChatRecord
    <3>4. SessionOk(c, user)
      BY <1>e, <1>f, <3>2 DEF SessionOk
    <3>3. chat' = c
      BY <1>4, <1>b, <2>1, <2>2, <3>1 DEF AskQuestion
    <3> QED BY <1>e, <2>0, <2>1, <3>2, <3>3, <3>4, EmptyPageOk DEF ChatInv
  <2>3. CASE token # "none"
    <3>1. PICK busy \in BusyRecord : busy = [q |-> n, chat |-> p.active,
                                          session |-> old.session]
      BY <1>c, <1>d, <2>1 DEF BusyRecord
    <3>2. PICK new : new = p.shown \o <<Message("user", n, p.active, FALSE),
                                        Message("assistant", n, p.active, TRUE)>>
      OBVIOUS
    <3>3. ShownOk(p.shown, p.busy, old.asked) /\ p.busy.q = 0 /\ busy.q = n
      BY <1>0, <1>b, <2>0, <3>1 DEF PageOk, NoRequest
    <3>4. /\ new \in ChatMessages /\ ShownOk(new, busy, n)
          /\ AllOf(p.shown, p.active) => AllOf(new, p.active)
      <4>1. /\ p.shown \in ChatMessages /\ old.asked \in Nat /\ p.active \in Chats
            /\ n = old.asked + 1 /\ busy.q = old.asked + 1
        BY <1>c, <1>d, <2>0, <2>1, <3>3
      <4>2. new = WithQuestion(p.shown, old.asked + 1, p.active)
        BY <2>1, <3>2 DEF WithQuestion
      <4>3. /\ WithQuestion(p.shown, old.asked + 1, p.active) \in ChatMessages
            /\ ShownOk(WithQuestion(p.shown, old.asked + 1, p.active), busy, old.asked + 1)
            /\ AllOf(p.shown, p.active) =>
                 AllOf(WithQuestion(p.shown, old.asked + 1, p.active), p.active)
        BY <3>3, <4>1, Asked
      <4> QED BY <4>1, <4>2, <4>3
    <3>5. PICK q : q = [p EXCEPT !.shown = new, !.busy = busy]
      OBVIOUS
    <3>6. /\ q \in PageRecord /\ q.list = p.list /\ q.active = p.active /\ q.shown = new
          /\ q.busy = busy /\ q.mixed = p.mixed
      BY <3>4, <3>5 DEF PageRecord
    <3>7. PageOk(q, n)
      BY <1>0, <2>0, <2>3, <3>1, <3>4, <3>6 DEF PageOk
    <3>8. PICK c : c = [old EXCEPT !.asked = n, !.page = q]
      OBVIOUS
    <3>9. /\ c \in ChatRecord /\ c.page = q /\ c.asked = n /\ c.left = old.left
          /\ c.session = old.session
      BY <3>6, <3>8 DEF ChatRecord
    <3>10. chat' = c
      BY <1>0, <1>4, <1>b, <2>1, <2>3, <3>1, <3>2, <3>5, <3>8 DEF AskQuestion
    <3>11. SessionOk(c, user)
      BY <1>4, <1>e, <3>1, <3>6, <3>9 DEF SessionOk
    <3> QED BY <1>e, <2>0, <3>7, <3>9, <3>10, <3>11 DEF ChatInv
  <2> QED BY <2>2, <2>3
<1>5. CASE AnswerArrives
  <2>1. /\ Answered \in ChatMessages /\ Len(Answered) = Len(p.shown)
        /\ ShownOk(Answered, NoRequest, chat.asked) /\ DOMAIN Answered = DOMAIN p.shown
        /\ \A i \in DOMAIN p.shown : Answered[i].chat = p.shown[i].chat
    BY <1>0, <1>b, <1>c, AnsweredOk
  <2>2. PICK q : q = [p EXCEPT !.shown = Answered, !.busy = NoRequest]
    OBVIOUS
  <2>3. NoRequest \in BusyRecord
    BY <1>g DEF NoRequest, BusyRecord
  <2>4. /\ q \in PageRecord /\ q.list = p.list /\ q.active = p.active /\ q.shown = Answered
        /\ q.busy = NoRequest /\ q.mixed = p.mixed
    BY <2>1, <2>2, <2>3 DEF PageRecord
  <2>5. PageOk(q, chat.asked)
    BY <1>0, <2>1, <2>4 DEF PageOk, AllOf
  <2>6. OnPage(q) /\ UNCHANGED <<token, user>>
    BY <1>0, <1>5, <2>2 DEF AnswerArrives
  <2> QED BY <1>e, <2>4, <2>5, <2>6, PageChanges
<1>6. CASE Unauthorized
  <2>1. OnPage(EmptyPage) /\ token' \in Tokens /\ UNCHANGED user
    BY <1>6 DEF Unauthorized, Tokens
  <2> QED BY <1>e, <1>f, <2>1, PageChanges
<1>7. CASE GoElsewhere \/ Logout
  <2>1. LeavePage /\ token' \in Tokens /\ user' \in Users /\ (user' = "leaving" <=> user = "leaving")
    BY <1>7, <1>e DEF GoElsewhere, Logout, Tokens, Users
  <2> QED BY <2>1, PageLeaves
<1>8. CASE TokenAges
  BY <1>8, <1>e DEF TokenAges, ChatInv, Tokens
<1>9. CASE Mount
  <2>1. token' \in Tokens /\ user' \in Users /\ user # "leaving" /\ user' # "leaving"
    BY <1>9, <1>e DEF Mount, Tokens, Users
  <2>2. CASE token = "valid"
    <3>1. chat' = old
      BY <1>9, <1>b, <2>2 DEF Mount
    <3>2. SessionOk(old, user')
      BY <1>e, <2>1 DEF SessionOk, LeftOf
    <3> QED BY <1>0, <1>b, <1>c, <2>1, <3>1, <3>2 DEF ChatInv
  <2>3. CASE token # "valid"
    BY <1>9, <2>1, <2>3, PageLeaves DEF Mount
  <2> QED BY <2>2, <2>3
<1>11. PICK away \in ChatRecord :
         /\ away = PageLeft /\ away.page = EmptyPage /\ away.asked = old.asked
         /\ away.session = old.session /\ LeftOf(away.left, old.session, user)
         /\ away.left \in Requests
  BY <1>b, LeftBehind DEF ChatRecord
<1>12. ASSUME NEW r \in chat.left, LateAnswer(r) \/ LateUnauthorized(r) PROVE ChatInv'
  <2>1. PICK base \in ChatRecord :
          /\ chat' = [base EXCEPT !.left = base.left \ {r}]
          /\ base.session = old.session /\ base.asked = old.asked
          /\ LeftOf(base.left, old.session, user) /\ base.left \in Requests
          /\ PageOk(base.page, old.asked)
          /\ base.page.busy # NoRequest => user # "leaving" /\ base.page.busy.session = old.session
    <3>1. CASE LateAnswer(r)
      BY <1>0, <1>b, <1>c, <1>e, <3>1 DEF LateAnswer, SessionOk
    <3>2. CASE LateUnauthorized(r)
      BY <1>b, <1>f, <1>11, <3>2 DEF LateUnauthorized
    <3> QED BY <1>12, <3>1, <3>2
  <2>2. PICK left \in Requests : left = base.left \ {r}
    BY <2>1 DEF Requests
  <2>3. PICK c : c = [base EXCEPT !.left = left]
    OBVIOUS
  <2>4. /\ c \in ChatRecord /\ c.page = base.page /\ c.asked = old.asked /\ c.left = left
        /\ c.session = old.session
    BY <2>1, <2>3 DEF ChatRecord
  <2>5. chat' = c
    BY <2>1, <2>2, <2>3
  <2>6. token' \in Tokens /\ UNCHANGED user
    BY <1>12, <1>e DEF LateAnswer, LateUnauthorized, Tokens
  <2>7. SessionOk(c, user)
    BY <2>1, <2>2, <2>4 DEF SessionOk, LeftOf
  <2> QED BY <1>e, <2>1, <2>4, <2>5, <2>6, <2>7 DEF ChatInv
<1>13. CASE Login
  <2>1. PICK n \in Nat : n = old.session + 1
    BY <1>c
  <2>2. PICK c : c = [away EXCEPT !.session = n]
    OBVIOUS
  <2>3. /\ c \in ChatRecord /\ c.page = EmptyPage /\ c.asked = old.asked
        /\ c.left = away.left /\ c.session = n
    BY <1>11, <2>2 DEF ChatRecord
  <2>4. chat' = c
    BY <1>11, <1>13, <2>1, <2>2 DEF Login
  <2>5. token' \in Tokens /\ user' = "leaving" /\ user' \in Users
    BY <1>13 DEF Login, Tokens, Users
  <2>6. \A r \in away.left : r.session \in Nat /\ r.session <= old.session
    BY <1>11 DEF LeftOf, Requests, BusyRecord
  <2>7. LeftOf(away.left, n, "leaving")
    BY <1>c, <2>1, <2>6 DEF LeftOf
  <2>8. SessionOk(c, user')
    BY <1>f, <2>3, <2>5, <2>7 DEF SessionOk
  <2> QED BY <1>b, <1>f, <2>3, <2>4, <2>5, <2>8 DEF ChatInv
<1>14. CASE PageLoads
  <2>1. {} \in Requests
    BY DEF Requests
  <2>2. PICK c : c = [old EXCEPT !.left = {}]
    OBVIOUS
  <2>3. /\ c \in ChatRecord /\ c.page = p /\ c.asked = old.asked /\ c.left = {}
        /\ c.session = old.session
    BY <1>c, <2>1, <2>2 DEF ChatRecord
  <2>4. chat' = c /\ user = "leaving" /\ user' \in Users /\ token' \in Tokens
    BY <1>14, <1>b, <1>e, <2>2 DEF PageLoads, Users
  <2>5. SessionOk(c, user')
    BY <1>c, <1>e, <2>3, <2>4 DEF SessionOk, LeftOf
  <2> QED BY <1>0, <1>b, <2>3, <2>4, <2>5 DEF ChatInv
<1>10. CASE UNCHANGED chatVars
  BY <1>10 DEF chatVars, ChatInv
<1> QED BY <1>1, <1>2, <1>3, <1>4, <1>5, <1>6, <1>7, <1>8, <1>9, <1>10, <1>12, <1>13, <1>14
        DEF ChatNext, PageSteps

LEMMA ChatMeaning ==
    ChatInv => /\ AnswersInPlace /\ SessionsApart
               /\ token \in {"none", "valid", "stale", "broken"}
               /\ user \in {"loading", "none", "known", "leaving"}
<1> SUFFICES ASSUME ChatInv PROVE AnswersInPlace /\ SessionsApart
  BY DEF ChatInv, Tokens, Users
<1>1. PICK p \in PageRecord : p = Page /\ PageOk(p, chat.asked)
  BY DEF ChatInv, PageOk, Page
<1>2. p.shown # <<>> => Len(p.shown) > 0
  BY DEF PageRecord, ChatMessages
<1>3. ShownOk(p.shown, p.busy, chat.asked)
  BY <1>1 DEF PageOk
<1>4. /\ ~p.mixed => \A i \in DOMAIN p.shown : p.shown[i].chat = p.active
      /\ p.active \in p.list \union {NoChat}
      /\ p.shown # <<>> => p.active # NoChat
  BY <1>1, <1>2 DEF PageOk, AllOf
<1>5. /\ \A i \in DOMAIN p.shown : p.shown[i].role = "assistant" =>
           i > 1 /\ p.shown[i - 1] = Message("user", p.shown[i].q, p.shown[i].chat, FALSE)
      /\ \A i, j \in DOMAIN p.shown : i < j => p.shown[i].q <= p.shown[j].q
      /\ \A i \in {i \in DOMAIN p.shown : p.shown[i].streaming} : p.busy.q = p.shown[i].q
  BY <1>3 DEF ShownOk
<1>6. SessionsApart
  BY DEF ChatInv, SessionOk, LeftOf, SessionsApart, Out, Page
<1> QED BY <1>1, <1>4, <1>5, <1>6 DEF AnswersInPlace

-----------------------------------------------------------------------------
(* The socket: every message is in one place                               *)

Pairs == Nat \X Nat
MessageSets == SUBSET Nat

\* Of the messages 1..n, w is on the wire, p waits and l is lost; they leave in
\* their order, and what waits is newer than what left.
InOnePlace(w, p, l, n) ==
    /\ w \in Seq(Pairs) /\ p \in Seq(Nat) /\ l \in MessageSets
    /\ \A i, j \in DOMAIN w : i < j => w[i][1] < w[j][1]
    /\ \A i, j \in DOMAIN p : i < j => p[i] < p[j]
    /\ \A i \in DOMAIN w, j \in DOMAIN p : w[i][1] < p[j]
    /\ \A m : m \in 1..n <=> \/ \E i \in DOMAIN w : w[i][1] = m
                             \/ \E i \in DOMAIN p : p[i] = m
                             \/ m \in l
    /\ \A i \in DOMAIN w : w[i][1] \notin l
    /\ \A i \in DOMAIN p : p[i] \notin l

LEMMA Dropped ==
    ASSUME NEW w, NEW p, NEW l, NEW n \in Nat, InOnePlace(w, p, l, n)
    PROVE  InOnePlace(w, p, l \union {n + 1}, n + 1)
<1>1. 1..n + 1 = (1..n) \union {n + 1} /\ n + 1 \notin 1..n /\ n + 1 \in Nat
  OBVIOUS
<1>2. l \union {n + 1} \in MessageSets
  BY <1>1 DEF InOnePlace, MessageSets
<1>3. /\ \A i \in DOMAIN w : w[i][1] \in 1..n
      /\ \A i \in DOMAIN p : p[i] \in 1..n
  BY DEF InOnePlace
<1> QED BY <1>1, <1>2, <1>3 DEF InOnePlace

LEMMA Queued ==
    ASSUME NEW w, NEW p, NEW l, NEW n \in Nat, InOnePlace(w, p, l, n)
    PROVE  InOnePlace(w, Append(p, n + 1), l, n + 1)
<1>1. 1..n + 1 = (1..n) \union {n + 1} /\ n + 1 \notin 1..n /\ n + 1 \in Nat
  OBVIOUS
<1>2. w \in Seq(Pairs) /\ p \in Seq(Nat)
  BY DEF InOnePlace
<1>3. PICK q \in Seq(Nat), len \in Nat :
        /\ q = Append(p, n + 1) /\ DOMAIN p = 1..len /\ q[len + 1] = n + 1
        /\ \A i \in 1..len : q[i] = p[i]
        /\ DOMAIN q = (1..len) \union {len + 1}
  <2>1. /\ Append(p, n + 1) \in Seq(Nat) /\ Len(p) \in Nat /\ DOMAIN p = 1..Len(p)
        /\ Append(p, n + 1)[Len(p) + 1] = n + 1
        /\ \A i \in 1..Len(p) : Append(p, n + 1)[i] = p[i]
        /\ DOMAIN Append(p, n + 1) = DOMAIN p \union {Len(p) + 1}
    BY ONLY <1>1, <1>2, Appended
  <2> QED BY <2>1
<1>4. /\ \A i \in DOMAIN w : w[i][1] \in 1..n
      /\ \A i \in 1..len : p[i] \in 1..n /\ p[i] \notin l
      /\ \A m \in l : m \in 1..n
  BY <1>3 DEF InOnePlace
<1>5. \A i, j \in DOMAIN q : i < j => q[i] < q[j]
  <2> SUFFICES ASSUME NEW i \in DOMAIN q, NEW j \in DOMAIN q, i < j PROVE q[i] < q[j]
    OBVIOUS
  <2>1. i \in 1..len /\ (j \in 1..len \/ j = len + 1)
    BY <1>3
  <2>2. CASE j \in 1..len
    BY <1>3, <2>1, <2>2 DEF InOnePlace
  <2>3. CASE j = len + 1
    BY <1>3, <1>4, <2>1, <2>3
  <2> QED BY <2>1, <2>2, <2>3
<1>6. \A i \in DOMAIN w, j \in DOMAIN q : w[i][1] < q[j]
  <2> SUFFICES ASSUME NEW i \in DOMAIN w, NEW j \in DOMAIN q PROVE w[i][1] < q[j]
    OBVIOUS
  <2>1. CASE j \in 1..len
    BY <1>3, <2>1 DEF InOnePlace
  <2>2. CASE j = len + 1
    BY <1>3, <1>4, <2>2
  <2> QED BY <1>3, <2>1, <2>2
<1>7. \A m : m \in 1..n + 1 <=> \/ \E i \in DOMAIN w : w[i][1] = m
                                \/ \E i \in DOMAIN q : q[i] = m
                                \/ m \in l
  <2> SUFFICES ASSUME NEW m
               PROVE  m \in 1..n + 1 <=> \/ \E i \in DOMAIN w : w[i][1] = m
                                         \/ \E i \in DOMAIN q : q[i] = m
                                         \/ m \in l
    OBVIOUS
  <2>1. (\E i \in DOMAIN q : q[i] = m) <=> m = n + 1 \/ \E i \in DOMAIN p : p[i] = m
    BY <1>3
  <2>2. m \in 1..n <=> \/ \E i \in DOMAIN w : w[i][1] = m
                       \/ \E i \in DOMAIN p : p[i] = m
                       \/ m \in l
    BY DEF InOnePlace
  <2> QED BY <1>1, <2>1, <2>2
<1>8. \A i \in DOMAIN q : q[i] \notin l
  BY <1>1, <1>3, <1>4
<1> QED BY <1>2, <1>3, <1>5, <1>6, <1>7, <1>8 DEF InOnePlace

\* Everything that waits is sent through socket number x.
LEMMA Flushed ==
    ASSUME NEW w, NEW p, NEW l, NEW n \in Nat, InOnePlace(w, p, l, n), NEW x \in Nat
    PROVE  InOnePlace(w \o [i \in DOMAIN p |-> <<p[i], x>>], <<>>, l, n)
<1>1. w \in Seq(Pairs) /\ p \in Seq(Nat)
  BY DEF InOnePlace
<1>2. PICK a \in Nat : a = Len(w) /\ DOMAIN w = 1..a
  BY <1>1
<1>3. PICK b \in Nat : b = Len(p) /\ DOMAIN p = 1..b
  BY <1>1
<1>4. PICK s : s = [i \in DOMAIN p |-> <<p[i], x>>]
  OBVIOUS
<1>5. s \in Seq(Pairs) /\ Len(s) = b /\ \A i \in 1..b : s[i][1] = p[i]
  <2>1. \A i \in 1..b : p[i] \in Nat
    BY <1>1, <1>3
  <2>2. \A i \in 1..b : s[i] = <<p[i], x>>
    BY <1>3, <1>4
  <2>3. \A i \in 1..b : s[i] \in Pairs
    BY <2>1, <2>2 DEF Pairs
  <2>4. s \in [1..b -> Pairs]
    BY <1>3, <1>4, <2>3
  <2> QED BY <2>2, <2>4, SeqDef
<1>6. PICK v \in Seq(Pairs) :
        /\ v = w \o s /\ Len(v) = a + b
        /\ \A i \in 1..a + b : v[i] = IF i <= a THEN w[i] ELSE s[i - a]
  <2>1. /\ w \o s \in Seq(Pairs) /\ Len(w \o s) = Len(w) + Len(s)
        /\ \A i \in 1..Len(w) + Len(s) : (w \o s)[i] = IF i <= Len(w) THEN w[i] ELSE s[i - Len(w)]
    BY ONLY <1>1, <1>5, ConcatProperties
  <2> QED BY <1>2, <1>5, <2>1
<1>7. DOMAIN v = 1..a + b
  BY <1>6
<1>8. /\ \A i \in 1..a : i \in 1..a + b /\ v[i] = w[i]
      /\ \A i \in 1..b : a + i \in 1..a + b /\ v[a + i][1] = p[i]
      /\ \A i \in 1..a + b : i \in 1..a \/ \E j \in 1..b : i = a + j
  <2>1. \A i \in 1..a : i \in 1..a + b /\ i <= a
    BY ONLY a \in Nat, b \in Nat
  <2>2. \A i \in 1..b : a + i \in 1..a + b /\ ~(a + i <= a) /\ a + i - a = i
    BY ONLY a \in Nat, b \in Nat
  <2>3. ASSUME NEW i \in 1..a + b PROVE i \in 1..a \/ \E j \in 1..b : i = a + j
    <3>1. i \in 1..a \/ (i - a \in 1..b /\ i = a + (i - a))
      BY ONLY a \in Nat, b \in Nat, i \in 1..a + b
    <3> QED BY <3>1
  <2>4. ASSUME NEW i \in 1..b PROVE v[a + i] = s[i]
    <3>1. a + i \in 1..a + b /\ ~(a + i <= a) /\ a + i - a = i
      BY <2>2
    <3>2. v[a + i] = s[a + i - a]
      BY ONLY <1>6, <3>1
    <3> QED BY ONLY <3>1, <3>2
  <2> QED BY <1>5, <1>6, <2>1, <2>2, <2>3, <2>4
<1>9. \A i, j \in DOMAIN v : i < j => v[i][1] < v[j][1]
  <2> SUFFICES ASSUME NEW i \in DOMAIN v, NEW j \in DOMAIN v, i < j PROVE v[i][1] < v[j][1]
    OBVIOUS
  <2>1. CASE i \in 1..a /\ j \in 1..a
    BY <1>2, <1>8, <2>1 DEF InOnePlace
  <2>2. ASSUME i \in 1..a, NEW k \in 1..b, j = a + k PROVE v[i][1] < v[j][1]
    BY <1>2, <1>3, <1>8, <2>2 DEF InOnePlace
  <2>3. ASSUME NEW h \in 1..b, NEW k \in 1..b, i = a + h, j = a + k PROVE v[i][1] < v[j][1]
    <3>1. h < k
      BY <2>3
    <3>2. p[h] < p[k]
      BY <1>3, <3>1 DEF InOnePlace
    <3>3. v[a + h][1] = p[h] /\ v[a + k][1] = p[k]
      BY <1>8
    <3> QED BY ONLY <2>3, <3>2, <3>3
  <2>4. ASSUME NEW h \in 1..b, i = a + h, j \in 1..a PROVE FALSE
    BY <2>4
  <2> QED BY <1>7, <1>8, <2>1, <2>2, <2>3, <2>4
<1>10. ASSUME NEW m
       PROVE  (\E i \in DOMAIN v : v[i][1] = m) <=>
                (\E i \in DOMAIN w : w[i][1] = m) \/ (\E i \in DOMAIN p : p[i] = m)
  <2>1. ASSUME NEW i \in DOMAIN v, v[i][1] = m
        PROVE  (\E j \in DOMAIN w : w[j][1] = m) \/ (\E j \in DOMAIN p : p[j] = m)
    <3>1. i \in 1..a \/ \E j \in 1..b : i = a + j
      BY <1>7, <1>8
    <3>2. CASE i \in 1..a
      BY <1>2, <1>8, <2>1, <3>2
    <3>3. ASSUME NEW j \in 1..b, i = a + j PROVE p[j] = m
      <4>1. v[a + j][1] = p[j]
        BY <1>8
      <4> QED BY ONLY <2>1, <3>3, <4>1
    <3> QED BY <1>3, <3>1, <3>2, <3>3
  <2>2. ASSUME NEW j \in DOMAIN w, w[j][1] = m PROVE \E i \in DOMAIN v : v[i][1] = m
    BY <1>2, <1>7, <1>8, <2>2
  <2>3. ASSUME NEW j \in DOMAIN p, p[j] = m PROVE \E i \in DOMAIN v : v[i][1] = m
    <3>1. a + j \in DOMAIN v /\ v[a + j][1] = p[j]
      BY <1>3, <1>7, <1>8
    <3> QED BY <2>3, <3>1
  <2> QED BY <2>1, <2>2, <2>3
<1>11. \A m : m \in 1..n <=> \/ \E i \in DOMAIN v : v[i][1] = m
                             \/ \E i \in DOMAIN <<>> : <<>>[i] = m
                             \/ m \in l
  <2> SUFFICES ASSUME NEW m
               PROVE  m \in 1..n <=> (\E i \in DOMAIN v : v[i][1] = m) \/ m \in l
    OBVIOUS
  <2>1. m \in 1..n <=> \/ \E i \in DOMAIN w : w[i][1] = m
                       \/ \E i \in DOMAIN p : p[i] = m
                       \/ m \in l
    BY DEF InOnePlace
  <2> QED BY <1>10, <2>1
<1>12. \A i \in DOMAIN v : v[i][1] \notin l
  <2> SUFFICES ASSUME NEW i \in DOMAIN v PROVE v[i][1] \notin l
    OBVIOUS
  <2>1. (\E j \in DOMAIN w : w[j][1] = v[i][1]) \/ (\E j \in DOMAIN p : p[j] = v[i][1])
    BY <1>10
  <2> QED BY <2>1 DEF InOnePlace
<1>13. <<>> \in Seq(Nat) /\ DOMAIN <<>> = {}
  OBVIOUS
<1> QED BY <1>4, <1>6, <1>9, <1>11, <1>12, <1>13 DEF InOnePlace

\* An open socket takes the newest message while none waits.
LEMMA Taken ==
    ASSUME NEW w, NEW l, NEW n \in Nat, InOnePlace(w, <<>>, l, n), NEW x \in Nat
    PROVE  InOnePlace(w \o [i \in DOMAIN <<n + 1>> |-> << <<n + 1>>[i], x>>], <<>>, l, n + 1)
<1>1. InOnePlace(w, Append(<<>>, n + 1), l, n + 1)
  BY Queued
<1>2. Append(<<>>, n + 1) = <<n + 1>>
  OBVIOUS
<1>3. n + 1 \in Nat
  OBVIOUS
<1>4. InOnePlace(w, <<n + 1>>, l, n + 1)
  BY ONLY <1>1, <1>2
<1> QED BY ONLY <1>3, <1>4, Flushed, x \in Nat

\* What waits is lost through a socket that closes, all of it or its head.
LEMMA FlushLost ==
    ASSUME NEW w, NEW p, NEW l, NEW n \in Nat, InOnePlace(w, p, l, n),
           NEW k \in Nat, k <= Len(p)
    PROVE  InOnePlace(w, SubSeq(p, k + 1, Len(p)), l \union {p[i] : i \in 1..k}, n)
<1>1. p \in Seq(Nat) /\ l \in MessageSets /\ w \in Seq(Pairs)
  BY DEF InOnePlace
<1>2. PICK len \in Nat : len = Len(p) /\ DOMAIN p = 1..len
  BY <1>1
<1>3. \A i \in 1..len : p[i] \in Nat
  BY <1>1, <1>2
<1>4. PICK q \in Seq(Nat) :
        /\ q = SubSeq(p, k + 1, len) /\ DOMAIN q = 1..len - k
        /\ \A i \in 1..len - k : q[i] = p[k + i]
  <2>1. k + 1 \in Int /\ len \in Int /\ \A i \in (k + 1)..len : p[i] \in Nat
    BY <1>2, <1>3
  <2>2. /\ SubSeq(p, k + 1, len) \in Seq(Nat)
        /\ Len(SubSeq(p, k + 1, len)) = IF k + 1 <= len THEN len - (k + 1) + 1 ELSE 0
        /\ \A i \in 1..len - (k + 1) + 1 : SubSeq(p, k + 1, len)[i] = p[k + 1 + i - 1]
    BY ONLY <2>1, SubSeqProperties
  <2>3. /\ len - (k + 1) + 1 = len - k /\ \A i \in 1..len - k : k + 1 + i - 1 = k + i
        /\ (IF k + 1 <= len THEN len - (k + 1) + 1 ELSE 0) = len - k
    BY <1>2
  <2>4. \A i \in 1..len - k : SubSeq(p, k + 1, len)[i] = p[k + i]
    BY <2>2, <2>3
  <2>5. DOMAIN SubSeq(p, k + 1, len) = 1..len - k
    BY <2>2, <2>3
  <2> QED BY <2>2, <2>4, <2>5
<1>5. PICK gone \in MessageSets : gone = l \union {p[i] : i \in 1..k}
  <2>1. \A i \in 1..k : i \in 1..len
    BY <1>2
  <2>2. {p[i] : i \in 1..k} \subseteq Nat
    BY <1>3, <2>1
  <2> QED BY <1>1, <2>2 DEF MessageSets
<1>6. /\ \A i \in 1..len - k : k + i \in 1..len
      /\ \A i \in 1..k : i \in 1..len
      /\ \A i \in 1..len : i \in 1..k \/ \E j \in 1..len - k : i = k + j
  <2>1. ASSUME NEW i \in 1..len PROVE i \in 1..k \/ \E j \in 1..len - k : i = k + j
    <3>1. i \in 1..k \/ (i - k \in 1..len - k /\ i = k + (i - k))
      BY <1>2
    <3> QED BY <3>1
  <2> QED BY <1>2, <2>1
<1>7. \A i, j \in DOMAIN q : i < j => q[i] < q[j]
  <2> SUFFICES ASSUME NEW i \in DOMAIN q, NEW j \in DOMAIN q, i < j PROVE q[i] < q[j]
    OBVIOUS
  <2>1. k + i \in 1..len /\ k + j \in 1..len /\ k + i < k + j
    BY <1>4, <1>6
  <2>2. p[k + i] < p[k + j]
    BY <1>2, <2>1 DEF InOnePlace
  <2> QED BY <1>4, <2>2
<1>8. \A i \in DOMAIN w, j \in DOMAIN q : w[i][1] < q[j]
  BY <1>2, <1>4, <1>6 DEF InOnePlace
<1>9. \A m : m \in 1..n <=> \/ \E i \in DOMAIN w : w[i][1] = m
                            \/ \E i \in DOMAIN q : q[i] = m
                            \/ m \in gone
  <2> SUFFICES ASSUME NEW m
               PROVE  m \in 1..n <=> \/ \E i \in DOMAIN w : w[i][1] = m
                                     \/ \E i \in DOMAIN q : q[i] = m
                                     \/ m \in gone
    OBVIOUS
  <2>1. m \in 1..n <=> \/ \E i \in DOMAIN w : w[i][1] = m
                       \/ \E i \in DOMAIN p : p[i] = m
                       \/ m \in l
    BY DEF InOnePlace
  <2>2. (\E i \in DOMAIN p : p[i] = m) <=> \/ \E i \in DOMAIN q : q[i] = m
                                           \/ \E i \in 1..k : p[i] = m
    <3>1. ASSUME NEW i \in 1..len, p[i] = m
          PROVE  (\E j \in DOMAIN q : q[j] = m) \/ (\E j \in 1..k : p[j] = m)
      <4>1. ASSUME NEW j \in 1..len - k, i = k + j PROVE j \in DOMAIN q /\ q[j] = m
        BY <1>4, <3>1, <4>1
      <4> QED BY <1>6, <3>1, <4>1
    <3>2. ASSUME NEW j \in DOMAIN q, q[j] = m PROVE \E i \in 1..len : p[i] = m
      BY <1>4, <1>6, <3>2
    <3>3. ASSUME NEW j \in 1..k, p[j] = m PROVE \E i \in 1..len : p[i] = m
      BY <1>6, <3>3
    <3> QED BY <1>2, <3>1, <3>2, <3>3
  <2> QED BY <1>5, <2>1, <2>2
<1>10. \A i \in DOMAIN w : w[i][1] \notin gone
  <2> SUFFICES ASSUME NEW i \in DOMAIN w, NEW j \in 1..k, w[i][1] = p[j] PROVE FALSE
    BY <1>5 DEF InOnePlace
  <2>1. p[j] < p[j] /\ p[j] \in Nat
    BY <1>2, <1>3, <1>6 DEF InOnePlace
  <2> QED BY <2>1
<1>11. \A i \in DOMAIN q : q[i] \notin gone
  <2> SUFFICES ASSUME NEW i \in DOMAIN q, NEW j \in 1..k, q[i] = p[j] PROVE FALSE
    BY <1>2, <1>4, <1>5, <1>6 DEF InOnePlace
  <2>1. k + i \in 1..len /\ j \in 1..len /\ j < k + i
    BY <1>4, <1>6
  <2>2. p[j] < p[k + i] /\ p[j] \in Nat /\ q[i] = p[k + i]
    BY <1>2, <1>3, <1>4, <2>1 DEF InOnePlace
  <2> QED BY <2>2
<1> QED BY <1>1, <1>2, <1>4, <1>5, <1>7, <1>8, <1>9, <1>10, <1>11 DEF InOnePlace

-----------------------------------------------------------------------------
(* The socket: the connection                                              *)

ReadyStates == {"connecting", "open", "closing", "closed"}
Waiting == Seq(Nat)
ConnRecord == [state : {"closed", "connecting", "open"}, disposed : BOOLEAN, attempts : Nat,
               timers : Nat, ws : Nat, pending : Waiting, sent : Nat, calls : Nat,
               stuck : BOOLEAN, dropped : BOOLEAN]

\* While connect() was called once at most, the newest socket s[Len(s)] is the
\* only one that may live, and it lives only while no timer is set.
OneSocket(c, s) ==
    /\ c.calls = 0 => Len(s) = 0 /\ c.timers = 0
    /\ \A k \in DOMAIN s : s[k] # "closed" => k = Len(s) /\ c.timers = 0
    /\ c.timers <= 1
    /\ ~c.disposed => c.ws = Len(s)
    /\ c.disposed => c.state # "open" /\ \A k \in DOMAIN s : s[k] \in {"closing", "closed"}
    /\ c.state = "open" => c.ws # 0 /\ s[c.ws] \in {"open", "closing"} /\ c.pending = <<>>
    /\ ~c.stuck /\ ~c.dropped

\* What a connection that was asked for and not let go of waits for.
GoesOn(c, s) ==
    c.calls > 0 /\ ~c.disposed =>
        \/ c.state = "connecting" /\ s[Len(s)] \in {"connecting", "closing"}
        \/ c.state = "open" /\ \E k \in DOMAIN s : s[k] \in {"open", "closing"}
        \/ c.state = "closed" /\ (c.timers > 0 \/ c.attempts = MaxAttempts)
ConnOk(c, s) ==
    /\ c \in ConnRecord /\ s \in Seq(ReadyStates)
    /\ c.ws <= Len(s) /\ c.attempts <= MaxAttempts
    /\ c.state = "open" /\ c.ws # 0 /\ s[c.ws] = "open" => c.pending = <<>>
    /\ c.calls <= 1 => OneSocket(c, s)
    /\ GoesOn(c, s)
SocketInv == ConnOk(conn, socket) /\ InOnePlace(wire, conn.pending, lost, conn.sent)

LEMMA SocketStart == ClientAssumption /\ SocketInit => SocketInv
<1> SUFFICES ASSUME ClientAssumption, SocketInit PROVE SocketInv
  OBVIOUS
<1>1. /\ <<>> \in Waiting /\ <<>> \in Seq(ReadyStates) /\ Len(<<>>) = 0 /\ DOMAIN <<>> = {}
      /\ <<>> \in Seq(Pairs) /\ {} \in MessageSets /\ <<>> \in Seq(Nat)
  BY DEF Waiting, MessageSets
<1>2. /\ conn = [state |-> "closed", disposed |-> FALSE, attempts |-> 0, timers |-> 0,
                 ws |-> 0, pending |-> <<>>, sent |-> 0, calls |-> 0, stuck |-> FALSE,
                 dropped |-> FALSE]
      /\ socket = <<>> /\ wire = <<>> /\ lost = {}
  BY DEF SocketInit
<1>3. conn \in ConnRecord
  BY <1>1, <1>2 DEF ConnRecord
<1>4. OneSocket(conn, socket)
  BY <1>1, <1>2 DEF OneSocket
<1>5. MaxAttempts \in Nat
  BY DEF ClientAssumption
<1>6. InOnePlace(<<>>, <<>>, {}, 0)
  BY <1>1 DEF InOnePlace
<1>7. GoesOn(conn, socket)
  BY <1>2 DEF GoesOn
<1> QED BY <1>1, <1>2, <1>3, <1>4, <1>5, <1>6, <1>7 DEF SocketInv, ConnOk

\* A socket that begins to connect becomes the newest.
LEMMA Opens ==
    ASSUME NEW c \in ConnRecord, NEW s \in Seq(ReadyStates), ConnOk(c, s),
           NEW d \in ConnRecord, d.state = "connecting", d.ws = Len(s) + 1,
           d.attempts = c.attempts, d.pending = c.pending, d.disposed = c.disposed,
           d.stuck = c.stuck, d.dropped = c.dropped, ~c.disposed,
           d.calls <= 1 => c.calls <= 1 /\ d.calls # 0 /\ d.timers = 0
                           /\ \A k \in DOMAIN s : s[k] = "closed"
    PROVE  ConnOk(d, Append(s, "connecting"))
<1>1. PICK t \in Seq(ReadyStates) :
        /\ t = Append(s, "connecting") /\ Len(t) = Len(s) + 1 /\ t[Len(s) + 1] = "connecting"
        /\ \A i \in 1..Len(s) : t[i] = s[i]
        /\ DOMAIN t = DOMAIN s \union {Len(s) + 1}
        /\ Len(s) \in Nat /\ DOMAIN s = 1..Len(s)
  <2>1. "connecting" \in ReadyStates
    BY DEF ReadyStates
  <2>2. /\ Append(s, "connecting") \in Seq(ReadyStates) /\ Len(s) \in Nat
        /\ DOMAIN s = 1..Len(s) /\ Len(Append(s, "connecting")) = Len(s) + 1
        /\ Append(s, "connecting")[Len(s) + 1] = "connecting"
        /\ \A i \in 1..Len(s) : Append(s, "connecting")[i] = s[i]
        /\ DOMAIN Append(s, "connecting") = DOMAIN s \union {Len(s) + 1}
    BY ONLY <2>1, s \in Seq(ReadyStates), Appended
  <2> QED BY <2>2
<1>2. ASSUME d.calls <= 1 PROVE OneSocket(d, t)
  <2>1. OneSocket(c, s)
    BY <1>2 DEF ConnOk
  <2>2. \A k \in DOMAIN t : t[k] # "closed" => k = Len(t) /\ d.timers = 0
    BY <1>1, <1>2
  <2> QED BY <1>1, <1>2, <2>1, <2>2 DEF OneSocket
<1>3. d.attempts <= MaxAttempts
  BY DEF ConnOk
<1>4. GoesOn(d, t)
  BY <1>1 DEF GoesOn
<1> QED BY <1>1, <1>2, <1>3, <1>4 DEF ConnOk

\* A socket that lives is the newest, and a lost or closing one is not opened.
LEMMA Changes ==
    ASSUME NEW s \in Seq(ReadyStates), NEW k \in DOMAIN s, NEW x \in ReadyStates
    PROVE  /\ [s EXCEPT ![k] = x] \in Seq(ReadyStates)
           /\ Len([s EXCEPT ![k] = x]) = Len(s) /\ DOMAIN [s EXCEPT ![k] = x] = DOMAIN s
           /\ \A i \in DOMAIN s : [s EXCEPT ![k] = x][i] = IF i = k THEN x ELSE s[i]
OBVIOUS

LEMMA SocketMoves ==
    ASSUME ClientAssumption, SocketInv, [SocketNext]_socketVars
    PROVE  SocketInv'
<1>0. PICK c \in ConnRecord : c = conn /\ ConnOk(c, socket) /\ socket \in Seq(ReadyStates)
  BY DEF SocketInv, ConnOk
<1>a. /\ c.pending \in Waiting /\ c.sent \in Nat /\ c.ws \in Nat /\ c.timers \in Nat
      /\ c.calls \in Nat /\ c.attempts \in Nat /\ c.stuck \in BOOLEAN /\ c.disposed \in BOOLEAN
      /\ c.dropped \in BOOLEAN
  BY DEF ConnRecord
<1>b. InOnePlace(wire, c.pending, lost, c.sent)
  BY <1>0 DEF SocketInv
<1>c. PICK len \in Nat : len = Len(socket) /\ DOMAIN socket = 1..len
  BY <1>0
<1>d. MaxAttempts \in Nat
  BY DEF ClientAssumption
<1>e. c.calls <= 1 => OneSocket(c, socket)
  BY <1>0 DEF ConnOk
<1>f. c.calls \in {0, 1} <=> c.calls <= 1
  BY <1>a
<1>g. PICK pending \in Seq(Nat) : pending = c.pending
  BY <1>a DEF Waiting
<1>1. CASE Connect
  <2>1. PICK d : d = [c EXCEPT !.state = "connecting", !.ws = len + 1, !.calls = c.calls + 1]
    OBVIOUS
  <2>2. len + 1 \in Nat /\ c.calls + 1 \in Nat
    BY <1>a
  <2>3. /\ d \in ConnRecord /\ d.state = "connecting" /\ d.ws = len + 1
        /\ d.calls = c.calls + 1 /\ d.attempts = c.attempts /\ d.pending = c.pending
        /\ d.disposed = c.disposed /\ d.stuck = c.stuck /\ d.timers = c.timers
        /\ d.sent = c.sent /\ d.dropped = c.dropped
    BY <2>1, <2>2 DEF ConnRecord
  <2>4. /\ conn' = d /\ socket' = Append(socket, "connecting") /\ UNCHANGED <<wire, lost>>
        /\ ~c.disposed
    BY <1>0, <1>1, <1>c, <2>1 DEF Connect, Opened
  <2>5. d.calls <= 1 => /\ c.calls <= 1 /\ d.calls # 0 /\ d.timers = 0
                        /\ \A k \in DOMAIN socket : socket[k] = "closed"
    <3> SUFFICES ASSUME d.calls <= 1
                 PROVE  /\ c.calls <= 1 /\ d.calls # 0 /\ d.timers = 0
                        /\ \A k \in DOMAIN socket : socket[k] = "closed"
      OBVIOUS
    <3>1. c.calls = 0
      BY <1>a, <2>3
    <3>2. len = 0 /\ c.timers = 0
      BY <1>c, <1>e, <3>1 DEF OneSocket
    <3> QED BY <1>c, <2>3, <3>1, <3>2
  <2>6. ConnOk(d, Append(socket, "connecting"))
    BY <1>0, <1>c, <2>3, <2>4, <2>5, Opens
  <2> QED BY <1>b, <2>3, <2>4, <2>6 DEF SocketInv
<1>2. CASE ReconnectTimer
  <2>0. c.timers > 0 /\ ~c.disposed
    BY <1>0, <1>2 DEF ReconnectTimer
  <2>1. PICK d : d = [c EXCEPT !.state = "connecting", !.ws = len + 1, !.timers = c.timers - 1]
    OBVIOUS
  <2>2. len + 1 \in Nat /\ c.timers - 1 \in Nat
    BY <1>a, <2>0
  <2>3. /\ d \in ConnRecord /\ d.state = "connecting" /\ d.ws = len + 1
        /\ d.calls = c.calls /\ d.attempts = c.attempts /\ d.pending = c.pending
        /\ d.disposed = c.disposed /\ d.stuck = c.stuck /\ d.timers = c.timers - 1
        /\ d.sent = c.sent /\ d.dropped = c.dropped
    BY <2>1, <2>2 DEF ConnRecord
  <2>4. conn' = d /\ socket' = Append(socket, "connecting") /\ UNCHANGED <<wire, lost>>
    BY <1>0, <1>2, <1>c, <2>1 DEF ReconnectTimer, Opened
  <2>5. d.calls <= 1 => /\ c.calls <= 1 /\ d.calls # 0 /\ d.timers = 0
                        /\ \A k \in DOMAIN socket : socket[k] = "closed"
    <3> SUFFICES ASSUME c.calls <= 1
                 PROVE  /\ c.calls # 0 /\ c.timers = 1
                        /\ \A k \in DOMAIN socket : socket[k] = "closed"
      BY <2>3
    <3> QED BY <1>a, <1>e, <2>0 DEF OneSocket
  <2>6. ConnOk(d, Append(socket, "connecting"))
    BY <1>0, <1>c, <2>0, <2>3, <2>5, Opens
  <2> QED BY <1>b, <2>3, <2>4, <2>6 DEF SocketInv
<1>3. CASE SendMessage
  <2>0. PICK m \in Nat : m = c.sent + 1
    BY <1>a
  <2>1. CASE c.state = "open" /\ c.ws # 0
    <3>1. PICK d : d = [c EXCEPT !.sent = m]
      OBVIOUS
    <3>2. /\ d \in ConnRecord /\ d.sent = m /\ d.pending = c.pending /\ d.calls = c.calls
          /\ d.state = c.state /\ d.ws = c.ws /\ d.attempts = c.attempts
          /\ d.timers = c.timers /\ d.disposed = c.disposed /\ d.stuck = c.stuck
          /\ d.dropped = c.dropped
      BY <3>1 DEF ConnRecord
    <3>3. conn' = d /\ PutOnWire(m) /\ UNCHANGED socket
      BY <1>0, <1>3, <2>0, <2>1, <3>1 DEF SendMessage
    <3>4. ConnOk(d, socket)
      BY <1>0, <3>2 DEF ConnOk, OneSocket, GoesOn
    <3>5. CASE socket[c.ws] = "open"
      <4>1. c.pending = <<>>
        BY <1>0, <2>1, <3>5 DEF ConnOk
      <4>2. wire' = wire \o [i \in DOMAIN <<m>> |-> <<<<m>>[i], c.ws>>] /\ lost' = lost
        BY <1>0, <3>3, <3>5 DEF PutOnWire, Stamped
      <4>3. InOnePlace(wire, <<>>, lost, c.sent)
        BY <1>b, <4>1
      <4>4. InOnePlace(wire \o [i \in DOMAIN <<m>> |-> <<<<m>>[i], c.ws>>], <<>>, lost, m)
        BY <1>a, <2>0, <4>3, Taken
      <4> QED BY <3>2, <3>3, <3>4, <4>1, <4>2, <4>4 DEF SocketInv
    <3>6. CASE socket[c.ws] # "open"
      <4>1. lost' = lost \union {m} /\ wire' = wire
        BY <1>0, <3>3, <3>6 DEF PutOnWire
      <4>2. InOnePlace(wire, c.pending, lost \union {m}, m)
        BY <1>a, <1>b, <2>0, Dropped
      <4> QED BY <3>2, <3>3, <3>4, <4>1, <4>2 DEF SocketInv
    <3> QED BY <3>5, <3>6
  <2>2. CASE ~(c.state = "open" /\ c.ws # 0)
    <3>1. InOnePlace(wire, Append(c.pending, m), lost, m)
      BY <1>a, <1>b, <2>0, Queued
    <3>2. PICK more \in Waiting : more = Append(c.pending, m)
      BY <3>1 DEF InOnePlace, Waiting
    <3>3. PICK d : d = [c EXCEPT !.sent = m, !.pending = more]
      OBVIOUS
    <3>4. /\ d \in ConnRecord /\ d.sent = m /\ d.pending = more /\ d.calls = c.calls
          /\ d.state = c.state /\ d.ws = c.ws /\ d.attempts = c.attempts
          /\ d.timers = c.timers /\ d.disposed = c.disposed /\ d.stuck = c.stuck
          /\ d.dropped = c.dropped
      BY <3>3 DEF ConnRecord
    <3>5. conn' = d /\ UNCHANGED <<socket, wire, lost>>
      BY <1>0, <1>3, <2>0, <2>2, <3>2, <3>3 DEF SendMessage
    <3>6. ConnOk(d, socket)
      BY <1>0, <2>2, <3>4 DEF ConnOk, OneSocket, GoesOn
    <3> QED BY <3>1, <3>2, <3>4, <3>5, <3>6 DEF SocketInv
  <2> QED BY <2>1, <2>2
<1>4. CASE Dispose
  <2>0. ~c.disposed
    BY <1>0, <1>4 DEF Dispose
  <2>1. PICK timers \in Nat : timers = IF c.timers = 0 THEN 0 ELSE c.timers - 1
    BY <1>a
  <2>2. PICK d : d = [c EXCEPT !.disposed = TRUE, !.state = "closed", !.ws = 0,
                               !.timers = timers]
    OBVIOUS
  <2>3. /\ d \in ConnRecord /\ d.sent = c.sent /\ d.pending = c.pending /\ d.calls = c.calls
        /\ d.state = "closed" /\ d.ws = 0 /\ d.attempts = c.attempts
        /\ d.timers = timers /\ d.disposed = TRUE /\ d.stuck = c.stuck
        /\ d.dropped = c.dropped
    BY <2>2 DEF ConnRecord
  <2>4. conn' = d /\ UNCHANGED <<wire, lost>>
    BY <1>0, <1>4, <2>1, <2>2 DEF Dispose
  <2>5. PICK s \in Seq(ReadyStates) :
          /\ s = IF c.ws # 0 /\ socket[c.ws] # "closed"
                 THEN [socket EXCEPT ![c.ws] = "closing"] ELSE socket
          /\ Len(s) = len /\ DOMAIN s = 1..len
          /\ \A k \in 1..len : s[k] = IF k = c.ws /\ socket[k] # "closed" THEN "closing" ELSE socket[k]
    <3>1. CASE c.ws # 0 /\ socket[c.ws] # "closed"
      <4>1. c.ws \in DOMAIN socket /\ "closing" \in ReadyStates
        BY <1>0, <1>a, <1>c, <3>1 DEF ConnOk, ReadyStates
      <4>2. /\ [socket EXCEPT ![c.ws] = "closing"] \in Seq(ReadyStates)
            /\ Len([socket EXCEPT ![c.ws] = "closing"]) = Len(socket)
            /\ DOMAIN [socket EXCEPT ![c.ws] = "closing"] = DOMAIN socket
            /\ \A i \in DOMAIN socket :
                 [socket EXCEPT ![c.ws] = "closing"][i] = IF i = c.ws THEN "closing" ELSE socket[i]
        BY ONLY <1>0, <4>1, Changes
      <4> QED BY <1>c, <3>1, <4>2
    <3>2. CASE ~(c.ws # 0 /\ socket[c.ws] # "closed")
      <4>1. c.ws \notin 1..len \/ socket[c.ws] = "closed"
        BY <1>c, <3>2
      <4> QED BY <1>0, <1>c, <3>2, <4>1
    <3> QED BY <3>1, <3>2
  <2>6. socket' = s
    BY <1>0, <1>4, <2>5 DEF Dispose, Alive
  <2>7. ASSUME c.calls <= 1 PROVE OneSocket(d, s)
    <3>1. OneSocket(c, socket) /\ c.ws = len
      BY <1>c, <1>e, <2>0, <2>7 DEF OneSocket
    <3>2. timers = 0
      BY <1>a, <2>1, <3>1 DEF OneSocket
    <3>3. \A k \in 1..len : socket[k] # "closed" => k = len
      BY <1>c, <3>1 DEF OneSocket
    <3>4. \A k \in DOMAIN s : s[k] # "closed" => k = Len(s)
      BY <2>5, <3>3
    <3>5. \A k \in DOMAIN s : s[k] \in {"closing", "closed"}
      BY <2>5, <3>1, <3>3
    <3> QED BY <1>c, <2>3, <2>5, <3>1, <3>2, <3>4, <3>5 DEF OneSocket
  <2>8. ConnOk(d, s)
    BY <1>0, <2>3, <2>5, <2>7 DEF ConnOk, GoesOn
  <2> QED BY <1>b, <2>3, <2>4, <2>6, <2>8 DEF SocketInv
<1>5. ASSUME NEW k \in DOMAIN socket, SocketOpens(k) PROVE SocketInv'
  <2>0. socket[k] = "connecting" /\ k \in 1..len
    BY <1>5, <1>c DEF SocketOpens
  <2>1. PICK s \in Seq(ReadyStates) :
          /\ s = [socket EXCEPT ![k] = "open"] /\ Len(s) = len /\ DOMAIN s = 1..len
          /\ \A i \in 1..len : s[i] = IF i = k THEN "open" ELSE socket[i]
    <3>1. "open" \in ReadyStates
      BY DEF ReadyStates
    <3> QED BY <1>0, <1>c, <3>1, Changes
  <2>2. socket' = s
    BY <1>5, <2>1 DEF SocketOpens
  <2>3. PICK through : through = IF c.ws = 0 THEN "none" ELSE s[c.ws]
    OBVIOUS
  <2>4. through \in ReadyStates \union {"none"} /\ (through = "none" <=> c.ws = 0)
    <3>1. c.ws # 0 => c.ws \in 1..len
      BY <1>0, <1>a, <1>c DEF ConnOk
    <3> QED BY <2>1, <2>3, <3>1 DEF ReadyStates
  <2>5. PICK flushed : flushed = IF through = "none" \/ c.pending = <<>> THEN <<>>
                                   ELSE IF through = "connecting" THEN <<Head(c.pending)>>
                                   ELSE c.pending
    OBVIOUS
  <2>6. /\ conn' = [c EXCEPT !.state = "open", !.attempts = 0,
                      !.pending = SubSeq(c.pending, Len(flushed) + 1, Len(c.pending)),
                      !.stuck = through = "none" /\ c.pending # <<>>,
                      !.dropped = c.dropped \/ (through # "open" /\ flushed # <<>>)]
        /\ wire' = IF through = "open" THEN wire \o Stamped(flushed) ELSE wire
        /\ lost' = IF through = "open" THEN lost ELSE lost \union Range(flushed)
    BY <1>0, <1>5, <2>2, <2>3, <2>5 DEF SocketOpens
  <2>7. PICK n \in Nat : /\ n <= Len(pending) /\ Len(flushed) = n
                         /\ Range(flushed) = {pending[i] : i \in 1..n}
                         /\ through \notin {"none", "connecting"} =>
                              n = Len(pending) /\ flushed = pending
    <3>0. Len(pending) \in Nat /\ DOMAIN pending = 1..Len(pending) /\ Len(<<>>) = 0
      OBVIOUS
    <3>1. CASE through = "none" \/ pending = <<>>
      <4>1. flushed = <<>>
        BY <1>g, <2>5, <3>1
      <4>2. Range(<<>>) = {} /\ {pending[i] : i \in 1..0} = {}
        <5>1. DOMAIN <<>> = {} /\ 1..0 = {}
          OBVIOUS
        <5> QED BY <5>1 DEF Range
      <4>3. 0 \in Nat /\ 0 <= Len(pending)
        BY <3>0
      <4>4. through \notin {"none", "connecting"} => pending = <<>> /\ 0 = Len(pending)
        BY <3>0, <3>1
      <4> QED BY <3>0, <4>1, <4>2, <4>3, <4>4
    <3>2. CASE through = "connecting" /\ pending # <<>>
      <4>1. flushed = <<pending[1]>>
        BY <1>g, <2>5, <3>2
      <4>2. Len(flushed) = 1 /\ Range(flushed) = {pending[1]}
        BY <4>1 DEF Range
      <4>3. Len(pending) >= 1 /\ 1..1 = {1}
        BY <3>0, <3>2
      <4> QED BY <3>0, <3>2, <4>2, <4>3
    <3>3. CASE through \notin {"none", "connecting"} /\ pending # <<>>
      <4>1. flushed = pending
        BY <1>g, <2>5, <3>3
      <4>2. Range(pending) = {pending[i] : i \in 1..Len(pending)}
        BY <3>0 DEF Range
      <4>3. Len(pending) \in Nat /\ Len(pending) <= Len(pending)
        BY <3>0
      <4> QED BY <4>1, <4>2, <4>3
    <3> QED BY <3>1, <3>2, <3>3
  <2>8. InOnePlace(wire, SubSeq(pending, n + 1, Len(pending)),
                   lost \union {pending[i] : i \in 1..n}, c.sent)
    <3>1. InOnePlace(wire, pending, lost, c.sent) /\ c.sent \in Nat
      BY <1>a, <1>b, <1>g
    <3>2. n \in Nat /\ n <= Len(pending)
      BY <2>7
    <3> QED BY ONLY <3>1, <3>2, FlushLost
  <2>9. PICK rest \in Waiting : rest = SubSeq(pending, n + 1, Len(pending))
    BY <2>8 DEF InOnePlace, Waiting
  <2>10. through \notin {"none", "connecting"} => rest = <<>>
    <3>1. Len(pending) \in Int /\ Len(pending) + 1 \in Int /\ Len(pending) < Len(pending) + 1
      OBVIOUS
    <3>2. SubSeq(pending, Len(pending) + 1, Len(pending)) = <<>>
      BY <3>1, SubSeqEmpty
    <3> QED BY <2>7, <2>9, <3>2
  <2>11. PICK stuck \in BOOLEAN : stuck = (through = "none" /\ c.pending # <<>>)
    OBVIOUS
  <2>18. PICK dropped \in BOOLEAN :
           dropped = (c.dropped \/ (through # "open" /\ flushed # <<>>))
    OBVIOUS
  <2>12. PICK d : d = [c EXCEPT !.state = "open", !.attempts = 0, !.pending = rest,
                                !.stuck = stuck, !.dropped = dropped]
    OBVIOUS
  <2>13. /\ d \in ConnRecord /\ d.sent = c.sent /\ d.pending = rest /\ d.calls = c.calls
         /\ d.state = "open" /\ d.ws = c.ws /\ d.attempts = 0
         /\ d.timers = c.timers /\ d.disposed = c.disposed /\ d.stuck = stuck
         /\ d.dropped = dropped
    BY <2>12 DEF ConnRecord
  <2>14. conn' = d
    BY <1>g, <2>6, <2>7, <2>9, <2>11, <2>12, <2>18
  <2>15. InOnePlace(wire', rest, lost', c.sent)
    <3>1. CASE through = "open"
      <4>1. wire' = wire \o [i \in DOMAIN pending |-> <<pending[i], c.ws>>] /\ lost' = lost
        BY <1>0, <2>6, <2>7, <3>1 DEF Stamped
      <4>2. InOnePlace(wire \o [i \in DOMAIN pending |-> <<pending[i], c.ws>>], <<>>, lost, c.sent)
        BY <1>a, <1>b, <1>g, Flushed
      <4> QED BY <2>10, <3>1, <4>1, <4>2
    <3>2. CASE through # "open"
      BY <2>6, <2>7, <2>8, <2>9, <3>2
    <3> QED BY <3>1, <3>2
  <2>16. ASSUME c.calls <= 1 PROVE OneSocket(d, s)
    <3>1. OneSocket(c, socket)
      BY <1>e, <2>16
    <3>2. k = len /\ c.ws = len /\ c.timers = 0 /\ ~c.disposed /\ c.calls # 0
      BY <1>c, <2>0, <3>1 DEF OneSocket
    <3>3. through = "open" /\ c.ws # 0
      BY <2>0, <2>1, <2>3, <3>2
    <3>4. \A i \in DOMAIN s : s[i] # "closed" => i = Len(s)
      BY <1>c, <2>1, <3>1, <3>2 DEF OneSocket
    <3>5. d.stuck = FALSE /\ d.pending = <<>> /\ d.ws = len /\ d.timers = 0 /\ ~d.disposed
      BY <2>10, <2>11, <2>13, <3>2, <3>3
    <3>8. ~d.dropped
      BY <2>13, <2>18, <3>1, <3>3 DEF OneSocket
    <3>6. s[len] = "open" /\ len # 0
      BY <2>1, <3>2, <3>3
    <3>7. d.calls # 0 /\ d.state = "open"
      BY <2>13, <3>2
    <3> QED BY <2>1, <3>4, <3>5, <3>6, <3>7, <3>8 DEF OneSocket
  <2>17. ConnOk(d, s)
    <3>1. c.ws # 0 /\ s[c.ws] = "open" => rest = <<>>
      BY <2>3, <2>10
    <3>2. GoesOn(d, s)
      BY <2>0, <2>1, <2>13 DEF GoesOn
    <3> QED BY <1>0, <1>c, <1>d, <2>1, <2>13, <2>16, <3>1, <3>2 DEF ConnOk
  <2> QED BY <2>2, <2>13, <2>14, <2>15, <2>17 DEF SocketInv
<1>6. ASSUME NEW k \in DOMAIN socket, Breaks(k) PROVE SocketInv'
  <2>0. socket[k] # "closed" /\ k \in 1..len /\ "closing" \in ReadyStates
    BY <1>6, <1>c DEF Breaks, ReadyStates
  <2>1. PICK s \in Seq(ReadyStates) :
          /\ s = [socket EXCEPT ![k] = "closing"] /\ Len(s) = len /\ DOMAIN s = 1..len
          /\ \A i \in 1..len : s[i] = IF i = k THEN "closing" ELSE socket[i]
    BY <1>0, <1>c, <2>0, Changes
  <2>2. socket' = s /\ UNCHANGED <<conn, wire, lost>>
    BY <1>6, <2>1 DEF Breaks
  <2>3. ASSUME c.calls <= 1 PROVE OneSocket(c, s)
    <3>1. OneSocket(c, socket)
      BY <1>e, <2>3
    <3>2. c.state = "open" => c.ws \in 1..len
      BY <1>0, <1>a, <1>c, <3>1 DEF ConnOk, OneSocket
    <3> QED BY <1>c, <2>0, <2>1, <3>1, <3>2 DEF OneSocket
  <2>4. c.ws # 0 => c.ws \in 1..len
    BY <1>0, <1>a, <1>c DEF ConnOk
  <2>6. GoesOn(c, s)
    <3>1. GoesOn(c, socket)
      BY <1>0 DEF ConnOk
    <3> QED BY <1>c, <2>0, <2>1, <3>1 DEF GoesOn
  <2>5. ConnOk(c, s)
    BY <1>0, <1>c, <2>1, <2>3, <2>4, <2>6 DEF ConnOk
  <2> QED BY <1>0, <1>b, <2>2, <2>5 DEF SocketInv
<1>7. ASSUME NEW k \in DOMAIN socket, SocketCloses(k) PROVE SocketInv'
  <2>0. socket[k] = "closing" /\ k \in 1..len /\ "closed" \in ReadyStates
    BY <1>7, <1>c DEF SocketCloses, ReadyStates
  <2>1. PICK s \in Seq(ReadyStates) :
          /\ s = [socket EXCEPT ![k] = "closed"] /\ Len(s) = len /\ DOMAIN s = 1..len
          /\ \A i \in 1..len : s[i] = IF i = k THEN "closed" ELSE socket[i]
    <3>1. socket \in Seq(ReadyStates) /\ k \in DOMAIN socket /\ "closed" \in ReadyStates
      BY <1>0, <2>0
    <3>2. /\ [socket EXCEPT ![k] = "closed"] \in Seq(ReadyStates)
          /\ Len([socket EXCEPT ![k] = "closed"]) = Len(socket)
          /\ DOMAIN [socket EXCEPT ![k] = "closed"] = DOMAIN socket
          /\ \A i \in DOMAIN socket :
               [socket EXCEPT ![k] = "closed"][i] = IF i = k THEN "closed" ELSE socket[i]
      BY ONLY <3>1, Changes
    <3> QED BY <1>c, <3>2
  <2>2. PICK again \in BOOLEAN : again = (~c.disposed /\ c.attempts < MaxAttempts)
    OBVIOUS
  <2>3. PICK attempts \in Nat : attempts = IF again THEN c.attempts + 1 ELSE c.attempts
    BY <1>a
  <2>4. PICK timers \in Nat : timers = IF again THEN c.timers + 1 ELSE c.timers
    BY <1>a
  <2>5. PICK d : d = [c EXCEPT !.state = "closed", !.attempts = attempts, !.timers = timers]
    OBVIOUS
  <2>6. /\ d \in ConnRecord /\ d.sent = c.sent /\ d.pending = c.pending /\ d.calls = c.calls
        /\ d.state = "closed" /\ d.ws = c.ws /\ d.attempts = attempts
        /\ d.timers = timers /\ d.disposed = c.disposed /\ d.stuck = c.stuck
        /\ d.dropped = c.dropped
    BY <2>5 DEF ConnRecord
  <2>7. conn' = d /\ socket' = s /\ UNCHANGED <<wire, lost>>
    <3>1. CASE again
      BY <1>0, <1>7, <2>1, <2>2, <2>3, <2>4, <2>5, <3>1 DEF SocketCloses
    <3>2. CASE ~again
      <4>1. conn' = [c EXCEPT !.state = "closed"]
        BY <1>0, <1>7, <2>2, <3>2 DEF SocketCloses
      <4>2. d = [c EXCEPT !.state = "closed"]
        BY <2>3, <2>4, <2>5, <3>2 DEF ConnRecord
      <4> QED BY <1>7, <2>1, <4>1, <4>2 DEF SocketCloses
    <3> QED BY <3>1, <3>2
  <2>8. ASSUME c.calls <= 1 PROVE OneSocket(d, s)
    <3>1. OneSocket(c, socket)
      BY <1>e, <2>8
    <3>2. k = len /\ c.timers = 0 /\ c.calls # 0
      BY <1>c, <2>0, <3>1 DEF OneSocket
    <3>3. timers <= 1
      BY <2>4, <3>2
    <3>4. \A i \in DOMAIN s : s[i] = "closed"
      BY <1>c, <2>1, <3>1, <3>2 DEF OneSocket
    <3> QED BY <1>c, <2>1, <2>6, <3>1, <3>2, <3>3, <3>4 DEF OneSocket
  <2>9. attempts <= MaxAttempts
    <3>1. c.attempts <= MaxAttempts
      BY <1>0 DEF ConnOk
    <3>2. again => c.attempts + 1 <= MaxAttempts
      <4>1. again => c.attempts < MaxAttempts
        BY <2>2
      <4> QED BY <1>a, <1>d, <4>1
    <3> QED BY <2>3, <3>1, <3>2
  <2>11. GoesOn(d, s)
    <3>1. again => timers > 0
      BY <1>a, <2>4
    <3>2. ~again => c.disposed \/ attempts = MaxAttempts
      <4>1. c.attempts <= MaxAttempts
        BY <1>0 DEF ConnOk
      <4>2. ~again => c.disposed \/ ~(c.attempts < MaxAttempts)
        BY <2>2, Zenon
      <4>3. ~(c.attempts < MaxAttempts) => c.attempts = MaxAttempts
        BY <1>a, <1>d, <4>1
      <4> QED BY <2>3, <4>2, <4>3
    <3> QED BY <2>6, <3>1, <3>2 DEF GoesOn
  <2>10. ConnOk(d, s)
    BY <1>0, <1>c, <2>1, <2>6, <2>8, <2>9, <2>11 DEF ConnOk
  <2> QED BY <1>b, <2>6, <2>7, <2>10 DEF SocketInv
<1>8. CASE UNCHANGED socketVars
  BY <1>8 DEF socketVars, SocketInv
<1> QED BY <1>1, <1>2, <1>3, <1>4, <1>5, <1>6, <1>7, <1>8 DEF SocketNext

LEMMA SocketMeaning ==
    SocketInv => /\ SocketHolds /\ conn.state \in {"closed", "connecting", "open"}
                 /\ conn.ws \in 0..Len(socket) /\ socket \in Seq(ReadyStates)
<1> SUFFICES ASSUME SocketInv
             PROVE  /\ SocketHolds /\ conn.state \in {"closed", "connecting", "open"}
                    /\ conn.ws \in 0..Len(socket) /\ socket \in Seq(ReadyStates)
  OBVIOUS
<1>0. PICK c \in ConnRecord : c = conn /\ ConnOk(c, socket) /\ socket \in Seq(ReadyStates)
  BY DEF SocketInv, ConnOk
<1>1. InOnePlace(wire, c.pending, lost, c.sent)
  BY <1>0 DEF SocketInv
<1>2. ASSUME c.calls <= 1
      PROVE  /\ Cardinality({k \in DOMAIN socket : Alive(k)}) <= 1
             /\ c.state = "open" => socket[c.ws] \in {"open", "closing"}
             /\ ~c.stuck /\ ~c.dropped
             /\ c.state = "open" => c.pending = <<>>
             /\ c.disposed => \A k \in DOMAIN socket : socket[k] \in {"closing", "closed"}
  <2>1. OneSocket(c, socket)
    BY <1>0, <1>2 DEF ConnOk
  <2>2. {k \in DOMAIN socket : Alive(k)} \in SUBSET {Len(socket)}
    BY <2>1 DEF OneSocket, Alive
  <2>3. Cardinality({k \in DOMAIN socket : Alive(k)}) <= 1
    <3>1. IsFiniteSet({Len(socket)}) /\ Cardinality({Len(socket)}) = 1
      BY FS_Singleton
    <3> QED BY <2>2, <3>1, FS_Subset
  <2> QED BY <2>1, <2>3 DEF OneSocket
<1>3. PICK onWire : onWire = [i \in DOMAIN wire |-> wire[i][1]]
  OBVIOUS
<1>4. /\ DOMAIN onWire = DOMAIN wire /\ \A i \in DOMAIN wire : onWire[i] = wire[i][1]
      /\ Range(onWire) = {wire[i][1] : i \in DOMAIN wire}
  BY <1>3 DEF Range
<1>5. Range(c.pending) = {c.pending[i] : i \in DOMAIN c.pending}
  BY DEF Range
<1>6. Range(onWire) \union Range(c.pending) \union lost = 1..c.sent
  <2>1. \A m : m \in 1..c.sent <=> \/ \E i \in DOMAIN wire : wire[i][1] = m
                                   \/ \E i \in DOMAIN c.pending : c.pending[i] = m
                                   \/ m \in lost
    BY <1>1 DEF InOnePlace
  <2> QED BY <1>4, <1>5, <2>1
<1>7. Range(onWire) \intersect lost = {}
  BY <1>1, <1>4 DEF InOnePlace
<1>8. \A i, j \in DOMAIN onWire : i < j => onWire[i] < onWire[j]
  BY <1>1, <1>4 DEF InOnePlace
<1>9. \A i \in DOMAIN c.pending : c.pending[i] \notin Range(onWire) \union lost
  <2> SUFFICES ASSUME NEW i \in DOMAIN c.pending PROVE c.pending[i] \notin Range(onWire) \union lost
    OBVIOUS
  <2>1. c.pending[i] \notin lost /\ c.pending[i] \in Nat
    BY <1>1 DEF InOnePlace
  <2>2. \A j \in DOMAIN wire : wire[j][1] < c.pending[i]
    BY <1>1 DEF InOnePlace
  <2>3. \A j \in DOMAIN wire : wire[j][1] # c.pending[i]
    BY <2>1, <2>2
  <2> QED BY <1>4, <2>1, <2>3
<1>10. /\ c.state \in {"closed", "connecting", "open"} /\ c.ws \in 0..Len(socket)
       /\ c.attempts <= MaxAttempts
  BY <1>0 DEF ConnOk, ConnRecord
<1>11. NeverIdle
  BY <1>0 DEF ConnOk, GoesOn, NeverIdle
<1>12. conn.calls <= 1 => OneConnection
  BY <1>0, <1>2 DEF OneConnection
<1> QED BY <1>0, <1>3, <1>6, <1>7, <1>8, <1>9, <1>10, <1>11, <1>12 DEF SocketHolds

-----------------------------------------------------------------------------
(* The review queue                                                        *)

Actions == {"approve", "reject", "escalate"}
ReviewStatuses == {"draft", "published", "rejected", "escalated"}
ItemMaps == UNION {[ids -> {"flagged", "under_review"}] : ids \in SUBSET ReviewIds}
ReviewSets == SUBSET ReviewIds
ReviewRequest == [id : ReviewIds, action : Actions, n : Nat, visit : Nat,
                  state : {"sent", "answered"}]
RequestSets == SUBSET ReviewRequest
ReviewRecord == [items : ItemMaps, selected : ReviewIds \union {Removed}, flying : RequestSets,
                 decided : ReviewSets, failed : ReviewSets, clicks : Nat, visit : Nat]

\* An answer of this visit that did not fail stands for a decision of the server.
AnswersTrue(flying, failed, visit, s) ==
    \A q \in flying :
        /\ q.visit <= visit
        /\ q.state = "answered" /\ q.visit = visit /\ q.id \notin failed => s[q.id] # "draft"
ListTrue(items, decided, failed, s) ==
    /\ ReviewIds \ DOMAIN items = decided
    /\ \A id \in decided \ failed : s[id] # "draft"
    /\ \A id \in DOMAIN items :
         items[id] = "under_review" /\ id \notin failed => s[id] # "draft"
ReviewOk(r, s) ==
    /\ r \in ReviewRecord /\ s \in [ReviewIds -> ReviewStatuses]
    /\ AnswersTrue(r.flying, r.failed, r.visit, s)
    /\ ListTrue(r.items, r.decided, r.failed, s)
ReviewInv == ReviewOk(review, reviewed)

LEMMA IsItemMap ==
    ASSUME NEW ids \in SUBSET ReviewIds, NEW f \in [ids -> {"flagged", "under_review"}]
    PROVE  f \in ItemMaps
BY DEF ItemMaps

LEMMA ReviewStart == ReviewInit => ReviewInv
<1> SUFFICES ASSUME ReviewInit PROVE ReviewInv
  OBVIOUS
<1>1. PICK items : items = [id \in ReviewIds |-> "flagged"]
  OBVIOUS
<1>2. items \in ItemMaps
  <2>1. ReviewIds \in SUBSET ReviewIds /\ items \in [ReviewIds -> {"flagged", "under_review"}]
    BY <1>1
  <2> QED BY <2>1, IsItemMap
<1>3. {} \in RequestSets /\ {} \in ReviewSets
  BY DEF RequestSets, ReviewSets
<1>4. /\ review = [items |-> items, selected |-> Removed, flying |-> {}, decided |-> {},
                   failed |-> {}, clicks |-> 0, visit |-> 0]
      /\ reviewed = [id \in ReviewIds |-> "draft"]
  BY <1>1 DEF ReviewInit
<1>5. review \in ReviewRecord
  BY <1>2, <1>3, <1>4 DEF ReviewRecord
<1> QED BY <1>1, <1>4, <1>5 DEF ReviewInv, ReviewOk, ReviewStatuses, AnswersTrue, ListTrue

\* The server takes back no decision.
LEMMA DecisionsStay ==
    ASSUME NEW r, NEW s, ReviewOk(r, s), NEW t \in [ReviewIds -> ReviewStatuses],
           \A id \in ReviewIds : s[id] # "draft" => t[id] # "draft"
    PROVE  ReviewOk(r, t)
<1>1. r.flying \subseteq ReviewRequest /\ r.decided \subseteq ReviewIds
  BY DEF ReviewOk, ReviewRecord, RequestSets, ReviewSets
<1>2. DOMAIN r.items \subseteq ReviewIds
  BY DEF ReviewOk, ReviewRecord, ItemMaps
<1>3. AnswersTrue(r.flying, r.failed, r.visit, t)
  BY <1>1 DEF ReviewOk, AnswersTrue, ReviewRequest
<1>4. ListTrue(r.items, r.decided, r.failed, t)
  BY <1>1, <1>2 DEF ReviewOk, ListTrue
<1> QED BY <1>3, <1>4 DEF ReviewOk

LEMMA ReviewMoves == ReviewInv /\ [ReviewNext]_reviewVars => ReviewInv'
<1> SUFFICES ASSUME ReviewInv, [ReviewNext]_reviewVars PROVE ReviewInv'
  OBVIOUS
<1>0. PICK r \in ReviewRecord : r = review /\ ReviewOk(r, reviewed)
  BY DEF ReviewInv, ReviewOk
<1>a. /\ r.items \in ItemMaps /\ r.flying \in RequestSets /\ r.decided \in ReviewSets
      /\ r.failed \in ReviewSets /\ r.clicks \in Nat /\ r.visit \in Nat
  BY DEF ReviewRecord
<1>b. /\ AnswersTrue(r.flying, r.failed, r.visit, reviewed)
      /\ ListTrue(r.items, r.decided, r.failed, reviewed)
      /\ reviewed \in [ReviewIds -> ReviewStatuses]
  BY <1>0 DEF ReviewOk
<1>c. PICK ids \in SUBSET ReviewIds : r.items \in [ids -> {"flagged", "under_review"}]
  BY <1>a DEF ItemMaps
<1>d. DOMAIN r.items = ids
  BY <1>c
<1>1. CASE VisitReview
  <2>1. PICK items \in ItemMaps : items = [id \in ReviewIds |-> "flagged"]
    <3>1. [id \in ReviewIds |-> "flagged"] \in [ReviewIds -> {"flagged", "under_review"}]
      OBVIOUS
    <3> QED BY <3>1, IsItemMap
  <2>2. {} \in ReviewSets /\ r.clicks + 1 \in Nat /\ r.visit + 1 \in Nat
    BY <1>a DEF ReviewSets
  <2>3. PICK q : q = [r EXCEPT !.items = items, !.selected = Removed, !.decided = {},
                               !.failed = {}, !.clicks = @ + 1, !.visit = @ + 1]
    OBVIOUS
  <2>4. /\ q \in ReviewRecord /\ q.items = items /\ q.flying = r.flying /\ q.decided = {}
        /\ q.failed = {} /\ q.visit = r.visit + 1
    BY <2>2, <2>3 DEF ReviewRecord
  <2>5. \A p \in r.flying : p.visit \in Nat /\ p.visit <= r.visit
    BY <1>a, <1>b DEF AnswersTrue, RequestSets, ReviewRequest
  <2>6. AnswersTrue(q.flying, q.failed, q.visit, reviewed)
    BY <1>a, <2>4, <2>5 DEF AnswersTrue
  <2>7. ListTrue(q.items, q.decided, q.failed, reviewed)
    BY <2>1, <2>4 DEF ListTrue
  <2>8. review' = q /\ reviewed' = reviewed
    BY <1>0, <1>1, <2>1, <2>3 DEF VisitReview
  <2> QED BY <1>b, <2>4, <2>6, <2>7, <2>8 DEF ReviewInv, ReviewOk
<1>2. ASSUME NEW id \in ReviewIds, SelectItem(id) PROVE ReviewInv'
  <2>1. PICK q : q = [r EXCEPT !.selected = id]
    OBVIOUS
  <2>2. /\ q \in ReviewRecord /\ q.items = r.items /\ q.flying = r.flying
        /\ q.decided = r.decided /\ q.failed = r.failed /\ q.visit = r.visit
    BY <2>1 DEF ReviewRecord
  <2>3. review' = q /\ reviewed' = reviewed
    BY <1>0, <1>2, <2>1 DEF SelectItem
  <2> QED BY <1>b, <2>2, <2>3 DEF ReviewInv, ReviewOk
<1>3. ASSUME NEW action \in Actions, HandleAction(action) PROVE ReviewInv'
  <2>1. r.selected \in ReviewIds
    BY <1>0, <1>3, <1>d DEF HandleAction
  <2>2. PICK new \in ReviewRequest :
          new = [id |-> r.selected, action |-> action, n |-> r.clicks, visit |-> r.visit,
                 state |-> "sent"]
    BY <1>a, <2>1 DEF ReviewRequest
  <2>3. PICK flying \in RequestSets : flying = r.flying \union {new}
    BY <1>a DEF RequestSets
  <2>4. PICK q : q = [r EXCEPT !.clicks = @ + 1, !.flying = flying]
    OBVIOUS
  <2>5. /\ q \in ReviewRecord /\ q.items = r.items /\ q.flying = flying
        /\ q.decided = r.decided /\ q.failed = r.failed /\ q.visit = r.visit
    <3>1. r.clicks + 1 \in Nat
      BY <1>a
    <3> QED BY <2>4, <3>1 DEF ReviewRecord
  <2>6. new.visit = r.visit /\ new.state = "sent"
    BY <2>2
  <2>7. AnswersTrue(flying, r.failed, r.visit, reviewed)
    BY <1>a, <1>b, <2>3, <2>6 DEF AnswersTrue
  <2>8. review' = q /\ reviewed' = reviewed
    BY <1>0, <1>3, <2>2, <2>3, <2>4 DEF HandleAction
  <2> QED BY <1>b, <2>5, <2>7, <2>8 DEF ReviewInv, ReviewOk
<1>4. ASSUME NEW q \in review.flying, NEW fails \in BOOLEAN, ReviewAnswered(q, fails)
      PROVE  ReviewInv'
  <2>1. q \in r.flying /\ q \in ReviewRequest
    BY <1>0, <1>4, <1>a DEF RequestSets
  <2>2. PICK status \in ReviewStatuses : status = NewStatus(q.action) /\ status # "draft"
    BY <2>1 DEF ReviewRequest, Actions, NewStatus, ReviewStatuses
  <2>3. PICK s \in [ReviewIds -> ReviewStatuses] :
          /\ s = IF fails THEN reviewed ELSE [reviewed EXCEPT ![q.id] = status]
          /\ \A id \in ReviewIds : reviewed[id] # "draft" => s[id] # "draft"
          /\ ~fails => s[q.id] # "draft"
    <3>1. q.id \in ReviewIds
      BY <2>1 DEF ReviewRequest
    <3>2. PICK t : t = [reviewed EXCEPT ![q.id] = status]
      OBVIOUS
    <3>3. /\ t \in [ReviewIds -> ReviewStatuses] /\ t[q.id] = status
          /\ \A id \in ReviewIds : t[id] = status \/ t[id] = reviewed[id]
      BY <1>b, <3>1, <3>2
    <3>4. CASE fails
      BY <1>b, <3>4
    <3>5. CASE ~fails
      BY <2>2, <3>2, <3>3, <3>5
    <3> QED BY <3>4, <3>5
  <2>4. ReviewOk(r, s)
    BY <1>0, <2>3, DecisionsStay
  <2>5. PICK over \in ReviewRequest : over = [q EXCEPT !.state = "answered"]
    BY <2>1 DEF ReviewRequest
  <2>6. over.id = q.id /\ over.visit = q.visit /\ over.state = "answered"
    BY <2>1, <2>5 DEF ReviewRequest
  <2>7. PICK flying \in RequestSets : flying = (r.flying \ {q}) \union {over}
    BY <1>a DEF RequestSets
  <2>8. PICK failed \in ReviewSets :
          failed = IF fails /\ q.visit = r.visit THEN r.failed \union {q.id} ELSE r.failed
    <3>1. q.id \in ReviewIds
      BY <2>1 DEF ReviewRequest
    <3> QED BY <1>a, <3>1 DEF ReviewSets
  <2>9. PICK p : p = [r EXCEPT !.flying = flying, !.failed = failed]
    OBVIOUS
  <2>10. /\ p \in ReviewRecord /\ p.items = r.items /\ p.flying = flying
         /\ p.decided = r.decided /\ p.failed = failed /\ p.visit = r.visit
    BY <2>9 DEF ReviewRecord
  <2>11. r.failed \subseteq failed
    BY <2>8
  <2>12. q.visit <= r.visit
    BY <1>b, <2>1 DEF AnswersTrue
  <2>13. AnswersTrue(flying, failed, r.visit, s)
    <3>1. AnswersTrue(r.flying, r.failed, r.visit, s)
      BY <2>4 DEF ReviewOk
    <3>2. over.visit = r.visit /\ over.id \notin failed => s[over.id] # "draft"
      BY <2>3, <2>6, <2>8
    <3> QED BY <2>6, <2>7, <2>11, <2>12, <3>1, <3>2 DEF AnswersTrue
  <2>14. ListTrue(r.items, r.decided, failed, s)
    BY <2>4, <2>11 DEF ReviewOk, ListTrue
  <2>15. review' = p /\ reviewed' = s
    BY <1>0, <1>4, <2>2, <2>3, <2>5, <2>7, <2>8, <2>9 DEF ReviewAnswered
  <2> QED BY <2>10, <2>13, <2>14, <2>15 DEF ReviewInv, ReviewOk
<1>5. ASSUME NEW q \in review.flying, ActionArrives(q) PROVE ReviewInv'
  <2>1. q \in r.flying /\ q \in ReviewRequest /\ q.state = "answered" /\ reviewed' = reviewed
    BY <1>0, <1>5, <1>a DEF RequestSets, ActionArrives
  <2>2. PICK flying \in RequestSets : flying = r.flying \ {q}
    BY <1>a DEF RequestSets
  <2>3. AnswersTrue(flying, r.failed, r.visit, reviewed)
    BY <1>b, <2>2 DEF AnswersTrue
  <2>4. q.visit = r.visit /\ q.id \notin r.failed => reviewed[q.id] # "draft"
    BY <1>b, <2>1 DEF AnswersTrue
  <2>5. q.id \in ReviewIds
    BY <2>1 DEF ReviewRequest
  <2>6. CASE q.visit # r.visit
    <3>1. PICK p : p = [r EXCEPT !.flying = flying]
      OBVIOUS
    <3>2. /\ p \in ReviewRecord /\ p.items = r.items /\ p.flying = flying
          /\ p.decided = r.decided /\ p.failed = r.failed /\ p.visit = r.visit
      BY <3>1 DEF ReviewRecord
    <3>3. review' = p
      BY <1>0, <1>5, <2>2, <2>6, <3>1 DEF ActionArrives
    <3> QED BY <1>b, <2>1, <2>3, <3>2, <3>3 DEF ReviewInv, ReviewOk
  <2>7. CASE q.visit = r.visit /\ q.action = "escalate"
    <3>1. PICK items : items = [id \in DOMAIN r.items |->
                                  IF id = q.id THEN "under_review" ELSE r.items[id]]
      OBVIOUS
    <3>2. items \in ItemMaps /\ DOMAIN items = ids
      <4>1. items \in [ids -> {"flagged", "under_review"}]
        BY <1>c, <1>d, <3>1
      <4> QED BY <4>1, IsItemMap
    <3>3. ListTrue(items, r.decided, r.failed, reviewed)
      BY <1>b, <1>d, <2>4, <2>7, <3>1, <3>2 DEF ListTrue
    <3>4. PICK p : p = [r EXCEPT !.flying = flying, !.items = items]
      OBVIOUS
    <3>5. /\ p \in ReviewRecord /\ p.items = items /\ p.flying = flying
          /\ p.decided = r.decided /\ p.failed = r.failed /\ p.visit = r.visit
      BY <3>2, <3>4 DEF ReviewRecord
    <3>6. review' = p
      BY <1>0, <1>5, <2>2, <2>7, <3>1, <3>4 DEF ActionArrives
    <3> QED BY <1>b, <2>1, <2>3, <3>3, <3>5, <3>6 DEF ReviewInv, ReviewOk
  <2>8. CASE q.visit = r.visit /\ q.action # "escalate"
    <3>1. PICK items : items = [id \in DOMAIN r.items \ {q.id} |-> r.items[id]]
      OBVIOUS
    <3>2. items \in ItemMaps /\ DOMAIN items = ids \ {q.id}
      <4>1. items \in [ids \ {q.id} -> {"flagged", "under_review"}]
        BY <1>c, <1>d, <3>1
      <4> QED BY <4>1, IsItemMap
    <3>3. PICK decided \in ReviewSets : decided = r.decided \union {q.id}
      BY <1>a, <2>5 DEF ReviewSets
    <3>4. ListTrue(items, decided, r.failed, reviewed)
      BY <1>b, <1>d, <2>4, <2>5, <2>8, <3>1, <3>2, <3>3 DEF ListTrue
    <3>5. PICK p : p = [r EXCEPT !.flying = flying, !.decided = decided, !.items = items,
                                 !.selected = Removed]
      OBVIOUS
    <3>6. /\ p \in ReviewRecord /\ p.items = items /\ p.flying = flying
          /\ p.decided = decided /\ p.failed = r.failed /\ p.visit = r.visit
      BY <3>2, <3>5 DEF ReviewRecord
    <3>7. review' = p
      BY <1>0, <1>5, <2>2, <2>8, <3>1, <3>3, <3>5 DEF ActionArrives
    <3> QED BY <1>b, <2>1, <2>3, <3>4, <3>6, <3>7 DEF ReviewInv, ReviewOk
  <2> QED BY <2>6, <2>7, <2>8
<1>6. CASE UNCHANGED reviewVars
  BY <1>6 DEF reviewVars, ReviewInv
<1> QED BY <1>1, <1>2, <1>3, <1>4, <1>5, <1>6 DEF ReviewNext, Actions

LEMMA ReviewMeaning ==
    ReviewInv => /\ QueueTracked /\ review.selected \in ReviewIds \union {Removed}
                 /\ \A id \in ReviewIds : reviewed[id] \in ReviewStatuses
BY DEF ReviewInv, ReviewOk, ReviewRecord, ListTrue, QueueTracked

-----------------------------------------------------------------------------
(* The organisations                                                       *)

GoodNames == OrgNames \union {"old", ""}
AllNames == GoodNames \union {"none", Removed}
NameSets == SUBSET AllNames
OrgSets == SUBSET OrgIds
MaybeOrg == OrgIds \union {NoOne}
RowMaps == UNION {[ids -> GoodNames] : ids \in SUBSET OrgIds}
OrgRequest == [kind : {"create", "update", "delete"}, id : MaybeOrg, name : GoodNames, n : Nat,
               typedFor : MaybeOrg, state : {"sent", "done", "failed"}]
OrgRequests == SUBSET OrgRequest
OrgRecord == [rows : RowMaps, form : BOOLEAN, editing : MaybeOrg, name : GoodNames,
              typedFor : MaybeOrg, flying : OrgRequests, sent : Nat, deleted : OrgSets,
              failed : BOOLEAN]
Companies == [OrgIds -> [name : AllNames, had : NameSets]]

Created(flying, id) == \E q \in flying : q.kind = "create" /\ q.state = "done" /\ q.id = id
Deleting(flying, id) == \E q \in flying : q.kind = "delete" /\ q.state = "done" /\ q.id = id
OrgKnown(o) == DOMAIN o.rows \union o.deleted

\* What the page asks for is what it knows; what was created and has not arrived
\* is new, and belongs to one request.
RequestOk(q, known, c) ==
    /\ q.kind = "update" => q.typedFor = q.id
    /\ q.kind # "create" => q.id \in known
    /\ q.kind = "create" /\ q.state = "done" =>
         q.id \in OrgIds \ known /\ c[q.id].name # "none"
    /\ q.kind # "delete" /\ q.state = "done" => q.id \in OrgIds /\ q.name \in c[q.id].had
RequestsOk(flying, known, c) ==
    /\ \A q \in flying : RequestOk(q, known, c)
    /\ \A p, q \in flying :
         p.kind = "create" /\ p.state = "done" /\ q.kind = "create" /\ q.state = "done" =>
           (p.id = q.id => p = q)
FormOk(o) ==
    /\ o.editing \in OrgKnown(o) \union {NoOne}
    /\ o.editing # NoOne /\ o.name # "" => o.typedFor = o.editing
RowsOk(rows, deleted, c) ==
    /\ deleted \intersect DOMAIN rows = {}
    /\ \A id \in DOMAIN rows \union deleted : c[id].name # "none"
    /\ \A id \in DOMAIN rows : rows[id] \in c[id].had
\* The server has what is listed, but for what was just deleted, and what was
\* just created.
Balanced(ids, flying, c) ==
    \A id \in OrgIds : c[id].name \notin {"none", Removed} <=>
                         (id \in ids /\ ~Deleting(flying, id)) \/ Created(flying, id)
OrgsOk(o, c) ==
    /\ o \in OrgRecord /\ c \in Companies
    /\ FormOk(o) /\ RequestsOk(o.flying, OrgKnown(o), c) /\ RowsOk(o.rows, o.deleted, c)
    /\ ~o.failed => Balanced(DOMAIN o.rows, o.flying, c)
OrgsInv == OrgsOk(orgs, companies)

LEMMA IsRowMap ==
    ASSUME NEW ids \in SUBSET OrgIds, NEW f \in [ids -> GoodNames]
    PROVE  f \in RowMaps
BY DEF RowMaps

LEMMA OrgsStart == AdminAssumption /\ OrgsInit => OrgsInv
<1> SUFFICES ASSUME AdminAssumption, OrgsInit PROVE OrgsInv
  OBVIOUS
<1>0. /\ {1, 2} \subseteq OrgIds /\ OrgIds \subseteq Nat /\ NoOne \notin OrgIds /\ NoOne = 0
  BY DEF AdminAssumption, NoOne
<1>1. PICK rows : rows = [id \in {1, 2} |-> "old"]
  OBVIOUS
<1>2. rows \in RowMaps /\ DOMAIN rows = {1, 2}
  <2>1. rows \in [{1, 2} -> GoodNames]
    BY <1>1 DEF GoodNames
  <2> QED BY <1>0, <1>1, <2>1, IsRowMap
<1>3. {} \in OrgRequests /\ {} \in OrgSets /\ {} \in NameSets /\ {"old"} \in NameSets
  BY DEF OrgRequests, OrgSets, NameSets, AllNames, GoodNames
<1>4. /\ orgs = [rows |-> rows, form |-> FALSE, editing |-> NoOne, name |-> "",
                 typedFor |-> NoOne, flying |-> {}, sent |-> 0, deleted |-> {},
                 failed |-> FALSE]
      /\ companies = [id \in OrgIds |-> IF id <= 2 THEN [name |-> "old", had |-> {"old"}]
                                        ELSE [name |-> "none", had |-> {}]]
  BY <1>1 DEF OrgsInit
<1>5. orgs \in OrgRecord
  BY <1>2, <1>3, <1>4 DEF OrgRecord, MaybeOrg, GoodNames
<1>6. ASSUME NEW id \in OrgIds
      PROVE  /\ companies[id] \in [name : AllNames, had : NameSets]
             /\ id \in {1, 2} => companies[id].name = "old" /\ companies[id].had = {"old"}
             /\ id \notin {1, 2} => companies[id].name = "none"
  <2>1. id <= 2 <=> id \in {1, 2}
    BY <1>0
  <2>2. CASE id <= 2
    BY <1>3, <1>4, <2>1, <2>2 DEF AllNames, GoodNames
  <2>3. CASE ~(id <= 2)
    BY <1>3, <1>4, <2>1, <2>3 DEF AllNames, GoodNames
  <2> QED BY <2>2, <2>3
<1>7. companies \in Companies
  BY <1>4, <1>6 DEF Companies
<1>8. FormOk(orgs) /\ RequestsOk(orgs.flying, OrgKnown(orgs), companies)
  BY <1>4 DEF FormOk, RequestsOk
<1>9. RowsOk(orgs.rows, orgs.deleted, companies)
  BY <1>0, <1>1, <1>2, <1>4, <1>6 DEF RowsOk
<1>10. Balanced(DOMAIN orgs.rows, orgs.flying, companies)
  BY <1>2, <1>4, <1>6 DEF Balanced, Created, Deleting, Removed
<1> QED BY <1>5, <1>7, <1>8, <1>9, <1>10 DEF OrgsInv, OrgsOk

\* A step of the form alone.
LEMMA FormChanges ==
    ASSUME OrgsInv, NEW o \in OrgRecord, orgs' = o, UNCHANGED companies, FormOk(o),
           o.rows = orgs.rows, o.deleted = orgs.deleted, o.flying = orgs.flying,
           o.failed = orgs.failed
    PROVE  OrgsInv'
BY DEF OrgsInv, OrgsOk, OrgKnown

\* A request that is sent.
LEMMA OrgSent ==
    ASSUME OrgsInv, NEW kind \in {"create", "update", "delete"}, NEW id \in MaybeOrg,
           NEW name \in GoodNames, SendOrg(kind, id, name),
           kind = "update" => orgs.typedFor = id,
           kind # "create" => id \in OrgKnown(orgs)
    PROVE  OrgsInv'
<1>0. PICK o \in OrgRecord : o = orgs /\ OrgsOk(o, companies)
  BY DEF OrgsInv, OrgsOk
<1>1. o.flying \in OrgRequests /\ o.sent \in Nat /\ o.sent + 1 \in Nat /\ o.typedFor \in MaybeOrg
  BY DEF OrgRecord
<1>2. PICK q \in OrgRequest : q = [kind |-> kind, id |-> id, name |-> name, n |-> o.sent,
                                   typedFor |-> o.typedFor, state |-> "sent"]
  BY <1>1 DEF OrgRequest
<1>3. PICK flying \in OrgRequests : flying = o.flying \union {q}
  BY <1>1 DEF OrgRequests
<1>4. PICK p : p = [o EXCEPT !.sent = @ + 1, !.flying = flying]
  OBVIOUS
<1>5. /\ p \in OrgRecord /\ p.rows = o.rows /\ p.deleted = o.deleted /\ p.flying = flying
      /\ p.failed = o.failed /\ p.editing = o.editing /\ p.name = o.name
      /\ p.typedFor = o.typedFor
  BY <1>1, <1>4 DEF OrgRecord
<1>6. orgs' = p /\ companies' = companies
  BY <1>0, <1>2, <1>3, <1>4 DEF SendOrg
<1>7. /\ q.kind = kind /\ q.id = id /\ q.typedFor = o.typedFor /\ q.state = "sent"
      /\ OrgKnown(p) = OrgKnown(o)
  BY <1>2, <1>5 DEF OrgKnown
<1>8. RequestsOk(flying, OrgKnown(o), companies)
  <2>1. RequestOk(q, OrgKnown(o), companies)
    BY <1>0, <1>7 DEF RequestOk
  <2>2. RequestsOk(o.flying, OrgKnown(o), companies)
    BY <1>0 DEF OrgsOk
  <2>3. \A r \in flying : r \in o.flying \/ r = q
    BY <1>3
  <2>4. \A r \in flying : r.state = "done" => r \in o.flying
    BY <1>7, <2>3
  <2>5. \A r \in flying : RequestOk(r, OrgKnown(o), companies)
    BY <2>1, <2>2, <2>3 DEF RequestsOk
  <2>6. ASSUME NEW r \in flying, NEW s \in flying, r.kind = "create", r.state = "done",
               s.kind = "create", s.state = "done", r.id = s.id
        PROVE  r = s
    BY <2>2, <2>4, <2>6 DEF RequestsOk
  <2> QED BY ONLY <2>5, <2>6 DEF RequestsOk
<1>9. FormOk(p)
  BY <1>0, <1>5, <1>7 DEF OrgsOk, FormOk
<1>10. ~o.failed => Balanced(DOMAIN o.rows, flying, companies)
  <2>1. \A i \in OrgIds : /\ Created(flying, i) <=> Created(o.flying, i)
                          /\ Deleting(flying, i) <=> Deleting(o.flying, i)
    BY <1>3, <1>7 DEF Created, Deleting
  <2> QED BY <1>0, <2>1 DEF OrgsOk, Balanced
<1> QED BY <1>0, <1>5, <1>6, <1>7, <1>8, <1>9, <1>10 DEF OrgsInv, OrgsOk

\* The server learns or loses a name: nothing it had is forgotten, and a row that
\* was there is never again "none".
LEMMA OrgAnswers ==
    ASSUME AdminAssumption, OrgsInv, NEW q \in orgs.flying, NEW id \in OrgIds,
           NEW outcome \in {"done", "lost", "failed"}, OrgAnswered(q, id, outcome)
    PROVE  OrgsInv'
<1>0. PICK o \in OrgRecord : o = orgs /\ OrgsOk(o, companies)
  BY DEF OrgsInv, OrgsOk
<1>1. /\ o.flying \in OrgRequests /\ o.rows \in RowMaps /\ o.deleted \in OrgSets
      /\ o.failed \in BOOLEAN
  BY DEF OrgRecord
<1>2. q \in OrgRequest /\ q \in o.flying /\ q.state = "sent"
  BY <1>0, <1>1 DEF OrgRequests, OrgAnswered
<1>3. /\ q.kind \in {"create", "update", "delete"} /\ q.name \in GoodNames /\ q.id \in MaybeOrg
  BY <1>2 DEF OrgRequest
<1>4. RequestsOk(o.flying, OrgKnown(o), companies) /\ RowsOk(o.rows, o.deleted, companies)
  BY <1>0 DEF OrgsOk
<1>5. companies \in Companies /\ OrgKnown(o) \subseteq OrgIds
  BY <1>0, <1>1 DEF OrgsOk, OrgKnown, RowMaps, OrgSets
<1>6. /\ q.kind = "create" => companies[id].name = "none"
      /\ q.kind # "create" => id = q.id /\ id \in OrgKnown(o)
      /\ q.kind # "create" /\ outcome # "failed" => companies[id].name \notin {"none", Removed}
  <2>1. q.kind # "create" => q.id \in OrgKnown(o)
    BY <1>2, <1>4 DEF RequestsOk, RequestOk
  <2> QED BY <2>1 DEF OrgAnswered, HasOrg
<1>7. GoodNames \intersect {"none", Removed} = {}
  BY DEF AdminAssumption, GoodNames, Removed
<1>8. PICK name \in AllNames : /\ name = IF q.kind = "delete" THEN Removed ELSE q.name
                               /\ name # "none"
                               /\ q.kind # "delete" => name \notin {"none", Removed}
  BY <1>3, <1>7 DEF AllNames, Removed
<1>9. PICK old \in [name : AllNames, had : NameSets] : old = companies[id]
  BY <1>5 DEF Companies
<1>10. PICK had \in NameSets : had = old.had \union {name}
  BY <1>8 DEF NameSets
<1>11. PICK c \in Companies :
         /\ c = IF outcome = "failed" THEN companies
                ELSE [companies EXCEPT ![id] = [name |-> name, had |-> had]]
         /\ \A i \in OrgIds : i # id \/ outcome = "failed" => c[i] = companies[i]
         /\ outcome # "failed" => c[id].name = name /\ c[id].had = had
  <2>1. PICK new \in [name : AllNames, had : NameSets] : new = [name |-> name, had |-> had]
    OBVIOUS
  <2>2. new.name = name /\ new.had = had
    BY <2>1
  <2>3. PICK c : c = [companies EXCEPT ![id] = new]
    OBVIOUS
  <2>4. c \in Companies /\ c[id] = new /\ \A i \in OrgIds : i # id => c[i] = companies[i]
    BY <1>5, <2>3 DEF Companies
  <2>5. CASE outcome = "failed"
    BY <1>5, <2>5
  <2>6. CASE outcome # "failed"
    BY <2>1, <2>2, <2>3, <2>4, <2>6
  <2> QED BY <2>5, <2>6
<1>12. /\ \A i \in OrgIds : companies[i].name # "none" => c[i].name # "none"
       /\ \A i \in OrgIds : companies[i].had \subseteq c[i].had
  <2> SUFFICES ASSUME NEW i \in OrgIds
               PROVE  /\ companies[i].name # "none" => c[i].name # "none"
                      /\ companies[i].had \subseteq c[i].had
    OBVIOUS
  <2>1. CASE i # id \/ outcome = "failed"
    BY <1>11, <2>1
  <2>2. CASE i = id /\ outcome # "failed"
    BY <1>8, <1>9, <1>10, <1>11, <2>2
  <2> QED BY <2>1, <2>2
<1>13. PICK state \in {"done", "failed"} : state = IF outcome = "done" THEN "done" ELSE "failed"
  OBVIOUS
<1>14. PICK p \in OrgRequest : p = [q EXCEPT !.id = id, !.state = state]
  BY <1>2 DEF OrgRequest, MaybeOrg
<1>15. /\ p.id = id /\ p.state = state /\ p.kind = q.kind /\ p.name = q.name
       /\ p.typedFor = q.typedFor
  BY <1>2, <1>14 DEF OrgRequest
<1>16. PICK flying \in OrgRequests : flying = (o.flying \ {q}) \union {p}
  BY <1>1 DEF OrgRequests
<1>17. PICK failed \in BOOLEAN : failed = (o.failed \/ outcome # "done")
  OBVIOUS
<1>18. PICK n : n = [o EXCEPT !.flying = flying, !.failed = failed]
  OBVIOUS
<1>19. /\ n \in OrgRecord /\ n.rows = o.rows /\ n.deleted = o.deleted /\ n.flying = flying
       /\ n.failed = failed /\ n.editing = o.editing /\ n.name = o.name
       /\ n.typedFor = o.typedFor
  BY <1>18 DEF OrgRecord
<1>20. orgs' = n /\ companies' = c
  <2>1. orgs' = n
    BY <1>0, <1>13, <1>14, <1>16, <1>17, <1>18 DEF OrgAnswered
  <2>2. companies' = IF outcome = "failed" THEN companies
                     ELSE [companies EXCEPT ![id] = [name |-> name, had |-> companies[id].had \union {name}]]
    BY <1>8 DEF OrgAnswered
  <2> QED BY <1>9, <1>10, <1>11, <2>1, <2>2
<1>21. OrgKnown(n) = OrgKnown(o)
  BY <1>19 DEF OrgKnown
<1>22. FormOk(n)
  BY <1>0, <1>19, <1>21 DEF OrgsOk, FormOk
<1>23. RowsOk(o.rows, o.deleted, c)
  <2>1. DOMAIN o.rows \subseteq OrgIds /\ o.deleted \subseteq OrgIds
    BY <1>5 DEF OrgKnown
  <2> QED BY <1>4, <1>12, <2>1 DEF RowsOk
<1>24. RequestOk(p, OrgKnown(o), c)
  <2>1. q.kind = "update" => q.typedFor = q.id
    BY <1>2, <1>4 DEF RequestsOk, RequestOk
  <2>2. q.kind = "create" => id \notin OrgKnown(o)
    BY <1>4, <1>6 DEF RowsOk, OrgKnown
  <2>3. state = "done" => outcome = "done"
    BY <1>13
  <2>4. q.kind # "delete" /\ outcome = "done" => q.name \in c[id].had
    BY <1>8, <1>10, <1>11
  <2>5. outcome = "done" => c[id].name # "none"
    BY <1>8, <1>11
  <2> QED BY <1>6, <1>15, <2>1, <2>2, <2>3, <2>4, <2>5 DEF RequestOk
<1>25. \A r \in o.flying : RequestOk(r, OrgKnown(o), c)
  <2> SUFFICES ASSUME NEW r \in o.flying PROVE RequestOk(r, OrgKnown(o), c)
    OBVIOUS
  <2>1. RequestOk(r, OrgKnown(o), companies)
    BY <1>4 DEF RequestsOk
  <2> QED BY <1>12, <2>1 DEF RequestOk
<1>26. \A r \in o.flying : r.kind = "create" /\ r.state = "done" =>
         companies[r.id].name # "none" /\ r.id \in OrgIds
  BY <1>4 DEF RequestsOk, RequestOk
<1>27. RequestsOk(flying, OrgKnown(o), c)
  <2>1. \A r \in flying : r = p \/ r \in o.flying
    BY <1>16
  <2>2. \A r \in o.flying : r.kind = "create" /\ r.state = "done" /\ p.kind = "create" => r.id # p.id
    BY <1>6, <1>15, <1>26
  <2>3. \A r, s \in o.flying :
          r.kind = "create" /\ r.state = "done" /\ s.kind = "create" /\ s.state = "done" =>
            (r.id = s.id => r = s)
    BY <1>4 DEF RequestsOk
  <2>4. \A r \in flying : RequestOk(r, OrgKnown(o), c)
    BY <1>24, <1>25, <2>1
  <2>5. ASSUME NEW r \in flying, NEW s \in flying, r.kind = "create", r.state = "done",
               s.kind = "create", s.state = "done", r.id = s.id
        PROVE  r = s
    BY <2>1, <2>2, <2>3, <2>5
  <2> QED BY ONLY <2>4, <2>5 DEF RequestsOk
<1>28. ASSUME ~failed PROVE Balanced(DOMAIN o.rows, flying, c)
  <2>1. outcome = "done" /\ state = "done" /\ Balanced(DOMAIN o.rows, o.flying, companies)
    BY <1>0, <1>13, <1>17, <1>28 DEF OrgsOk
  <2> SUFFICES ASSUME NEW i \in OrgIds
               PROVE  c[i].name \notin {"none", Removed} <=>
                        (i \in DOMAIN o.rows /\ ~Deleting(flying, i)) \/ Created(flying, i)
    BY DEF Balanced
  <2>2. /\ Created(flying, i) <=> Created(o.flying, i) \/ (p.kind = "create" /\ i = id)
        /\ Deleting(flying, i) <=> Deleting(o.flying, i) \/ (p.kind = "delete" /\ i = id)
    <3>1. \A r \in flying : r = p \/ r \in o.flying
      BY <1>16
    <3>2. \A r \in o.flying : r.state = "done" => r \in flying
      BY <1>2, <1>16
    <3>3. p \in flying /\ p.state = "done" /\ p.id = id
      BY <1>15, <1>16, <2>1
    <3> QED BY <3>1, <3>2, <3>3 DEF Created, Deleting
  <2>3. companies[i].name \notin {"none", Removed} <=>
          (i \in DOMAIN o.rows /\ ~Deleting(o.flying, i)) \/ Created(o.flying, i)
    BY <2>1 DEF Balanced
  <2>4. CASE i # id
    BY <1>11, <2>2, <2>3, <2>4
  <2>5. CASE i = id /\ q.kind = "create"
    BY <1>8, <1>11, <1>15, <2>1, <2>2, <2>5
  <2>6. CASE i = id /\ q.kind = "update"
    BY <1>6, <1>8, <1>11, <1>15, <2>1, <2>2, <2>3, <2>6
  <2>7. CASE i = id /\ q.kind = "delete"
    <3>1. ~Created(o.flying, i)
      BY <1>4, <1>6, <2>7 DEF Created, RequestsOk, RequestOk
    <3>2. c[i].name = Removed
      BY <1>8, <1>11, <2>1, <2>7
    <3> QED BY <1>15, <2>2, <2>7, <3>1, <3>2
  <2> QED BY <1>3, <2>4, <2>5, <2>6, <2>7
<1> QED BY <1>19, <1>20, <1>21, <1>22, <1>23, <1>27, <1>28 DEF OrgsInv, OrgsOk

LEMMA OrgArrivals ==
    ASSUME AdminAssumption, OrgsInv, NEW q \in orgs.flying, OrgArrives(q)
    PROVE  OrgsInv'
<1>0. PICK o \in OrgRecord : o = orgs /\ OrgsOk(o, companies)
  BY DEF OrgsInv, OrgsOk
<1>1. /\ o.flying \in OrgRequests /\ o.rows \in RowMaps /\ o.deleted \in OrgSets
      /\ o.failed \in BOOLEAN /\ o.editing \in MaybeOrg
  BY DEF OrgRecord
<1>2. q \in OrgRequest /\ q \in o.flying /\ q.state # "sent" /\ companies' = companies
  BY <1>0, <1>1 DEF OrgRequests, OrgArrives
<1>3. /\ q.kind \in {"create", "update", "delete"} /\ q.name \in GoodNames
      /\ q.state \in {"done", "failed"}
  BY <1>2 DEF OrgRequest
<1>4. /\ RequestsOk(o.flying, OrgKnown(o), companies)
      /\ RowsOk(o.rows, o.deleted, companies) /\ FormOk(o)
  BY <1>0 DEF OrgsOk
<1>5. RequestOk(q, OrgKnown(o), companies)
  BY <1>2, <1>4 DEF RequestsOk
<1>6. PICK flying \in OrgRequests : flying = o.flying \ {q}
  BY <1>1 DEF OrgRequests
<1>7. PICK ids \in SUBSET OrgIds : o.rows \in [ids -> GoodNames] /\ DOMAIN o.rows = ids
  BY <1>1 DEF RowMaps
<1>8. "" \in GoodNames /\ NoOne \in MaybeOrg /\ o.deleted \subseteq OrgIds
  BY <1>1 DEF GoodNames, MaybeOrg, OrgSets
<1>9. PICK rest : rest = [o EXCEPT !.flying = flying]
  OBVIOUS
<1>10. /\ rest \in OrgRecord /\ rest.rows = o.rows /\ rest.deleted = o.deleted
       /\ rest.flying = flying /\ rest.failed = o.failed /\ rest.editing = o.editing
       /\ rest.name = o.name /\ rest.typedFor = o.typedFor /\ OrgKnown(rest) = OrgKnown(o)
  BY <1>9 DEF OrgRecord, OrgKnown
<1>11. rest = [orgs EXCEPT !.flying = @ \ {q}]
  BY <1>0, <1>6, <1>9
<1>12. RequestsOk(flying, OrgKnown(o), companies)
  BY <1>4, <1>6 DEF RequestsOk
<1>13. PICK cleared : cleared = [rest EXCEPT !.name = "", !.typedFor = NoOne]
  OBVIOUS
<1>14. /\ cleared \in OrgRecord /\ cleared.rows = o.rows /\ cleared.deleted = o.deleted
       /\ cleared.flying = flying /\ cleared.failed = o.failed
       /\ cleared.editing = o.editing /\ cleared.name = ""
  BY <1>8, <1>10, <1>13 DEF OrgRecord
<1>15. \A i : /\ Created(o.flying, i) <=> \/ Created(flying, i)
                                          \/ q.kind = "create" /\ q.state = "done" /\ q.id = i
              /\ Deleting(o.flying, i) <=> \/ Deleting(flying, i)
                                           \/ q.kind = "delete" /\ q.state = "done" /\ q.id = i
  BY <1>2, <1>6 DEF Created, Deleting
<1>16. companies \in Companies
  BY <1>0 DEF OrgsOk
<1>17. CASE q.state = "failed"
  <2>1. orgs' = rest
    BY <1>11, <1>17 DEF OrgArrives
  <2>2. ~o.failed => Balanced(ids, flying, companies)
    BY <1>0, <1>7, <1>15, <1>17 DEF OrgsOk, Balanced
  <2>3. FormOk(rest)
    BY <1>4, <1>10 DEF FormOk
  <2> QED BY <1>2, <1>4, <1>7, <1>10, <1>12, <1>16, <2>1, <2>2, <2>3 DEF OrgsInv, OrgsOk
<1>18. CASE q.state = "done" /\ q.kind = "create"
  <2>0. q.id \in OrgIds /\ q.id \notin OrgKnown(o) /\ companies[q.id].name # "none"
        /\ q.name \in companies[q.id].had
    BY <1>5, <1>18 DEF RequestOk
  <2>1. PICK rows : rows = WithRow(q.id, q.name)
    OBVIOUS
  <2>2. /\ DOMAIN rows = ids \union {q.id} /\ rows[q.id] = q.name
        /\ \A i \in ids : i # q.id => rows[i] = o.rows[i]
    BY <1>0, <1>7, <2>1 DEF WithRow
  <2>3. rows \in RowMaps
    <3>1. rows \in [{q.id} \union ids -> GoodNames]
      BY <1>0, <1>3, <1>7, <2>1 DEF WithRow
    <3>2. {q.id} \union ids \in SUBSET OrgIds
      BY <2>0
    <3> QED BY <3>1, <3>2, IsRowMap
  <2>4. PICK n : n = [cleared EXCEPT !.form = FALSE, !.rows = rows]
    OBVIOUS
  <2>5. /\ n \in OrgRecord /\ n.rows = rows /\ n.deleted = o.deleted /\ n.flying = flying
        /\ n.failed = o.failed /\ n.editing = o.editing /\ n.name = ""
    BY <1>14, <2>3, <2>4 DEF OrgRecord
  <2>6. orgs' = n
    BY <1>11, <1>13, <1>18, <2>1, <2>4 DEF OrgArrives
  <2>7. OrgKnown(n) = OrgKnown(o) \union {q.id}
    BY <1>7, <2>2, <2>5 DEF OrgKnown
  <2>8. FormOk(n)
    BY <1>4, <2>5, <2>7 DEF FormOk
  <2>9. RequestsOk(flying, OrgKnown(n), companies)
    <3>1. ASSUME NEW r \in flying PROVE RequestOk(r, OrgKnown(n), companies)
      <4>1. RequestOk(r, OrgKnown(o), companies) /\ r \in o.flying /\ r # q
        BY <1>6, <1>12 DEF RequestsOk
      <4>2. r.kind = "create" /\ r.state = "done" => r.id # q.id
        BY <1>2, <1>4, <1>18, <4>1 DEF RequestsOk
      <4> QED BY <2>7, <4>1, <4>2 DEF RequestOk
    <3> QED BY <1>12, <3>1 DEF RequestsOk
  <2>10. RowsOk(rows, o.deleted, companies)
    BY <1>4, <1>7, <2>0, <2>2 DEF RowsOk, OrgKnown
  <2>11. ASSUME ~o.failed PROVE Balanced(DOMAIN rows, flying, companies)
    <3>1. \A i \in OrgIds : companies[i].name \notin {"none", Removed} <=>
            (i \in ids /\ ~Deleting(o.flying, i)) \/ Created(o.flying, i)
      BY <1>0, <1>7, <2>11 DEF OrgsOk, Balanced
    <3>2. ~Deleting(flying, q.id)
      BY <1>12, <2>0 DEF Deleting, RequestsOk, RequestOk
    <3> QED BY <1>15, <1>18, <2>2, <3>1, <3>2 DEF Balanced
  <2> QED BY <1>2, <1>16, <2>5, <2>6, <2>8, <2>9, <2>10, <2>11 DEF OrgsInv, OrgsOk
<1>19. CASE q.state = "done" /\ q.kind = "update"
  <2>0. q.id \in OrgIds /\ q.name \in companies[q.id].had
    BY <1>5, <1>19 DEF RequestOk
  <2>1. PICK rows : rows = [i \in ids |-> IF i = q.id THEN q.name ELSE o.rows[i]]
    OBVIOUS
  <2>2. DOMAIN rows = ids /\ rows \in RowMaps
    <3>1. rows \in [ids -> GoodNames]
      BY <1>3, <1>7, <2>1
    <3> QED BY <3>1, IsRowMap
  <2>3. PICK n : n = [cleared EXCEPT !.editing = NoOne, !.rows = rows]
    OBVIOUS
  <2>4. /\ n \in OrgRecord /\ n.rows = rows /\ n.deleted = o.deleted /\ n.flying = flying
        /\ n.failed = o.failed /\ n.editing = NoOne
    BY <1>8, <1>14, <2>2, <2>3 DEF OrgRecord
  <2>5. orgs' = n
    BY <1>7, <1>11, <1>13, <1>14, <1>19, <2>1, <2>3 DEF OrgArrives
  <2>6. OrgKnown(n) = OrgKnown(o) /\ FormOk(n)
    BY <1>7, <2>2, <2>4 DEF OrgKnown, FormOk
  <2>7. RowsOk(rows, o.deleted, companies)
    BY <1>4, <1>7, <2>0, <2>1, <2>2 DEF RowsOk
  <2>8. ~o.failed => Balanced(ids, flying, companies)
    BY <1>0, <1>7, <1>15, <1>19 DEF OrgsOk, Balanced
  <2> QED BY <1>2, <1>12, <1>16, <2>2, <2>4, <2>5, <2>6, <2>7, <2>8 DEF OrgsInv, OrgsOk
<1>20. CASE q.state = "done" /\ q.kind = "delete"
  <2>0. q.id \in OrgKnown(o) /\ q.id \in OrgIds
    BY <1>5, <1>7, <1>8, <1>20 DEF RequestOk, OrgKnown
  <2>1. PICK rows : rows = [i \in ids \ {q.id} |-> o.rows[i]]
    OBVIOUS
  <2>2. DOMAIN rows = ids \ {q.id} /\ rows \in RowMaps
    <3>1. rows \in [ids \ {q.id} -> GoodNames]
      BY <1>7, <2>1
    <3> QED BY <3>1, IsRowMap
  <2>3. PICK deleted \in OrgSets : deleted = o.deleted \union {q.id}
    BY <1>8, <2>0 DEF OrgSets
  <2>4. PICK n : n = [rest EXCEPT !.deleted = deleted, !.rows = rows]
    OBVIOUS
  <2>5. /\ n \in OrgRecord /\ n.rows = rows /\ n.deleted = deleted /\ n.flying = flying
        /\ n.failed = o.failed /\ n.editing = o.editing /\ n.name = o.name
        /\ n.typedFor = o.typedFor
    BY <1>10, <2>2, <2>3, <2>4 DEF OrgRecord
  <2>6. orgs' = n
    BY <1>7, <1>10, <1>11, <1>20, <2>1, <2>3, <2>4 DEF OrgArrives
  <2>7. OrgKnown(n) = OrgKnown(o)
    BY <1>7, <2>0, <2>2, <2>3, <2>5 DEF OrgKnown
  <2>8. FormOk(n)
    BY <1>4, <2>5, <2>7 DEF FormOk
  <2>9. RowsOk(rows, deleted, companies)
    BY <1>4, <1>7, <2>0, <2>1, <2>2, <2>3 DEF RowsOk, OrgKnown
  <2>10. ASSUME ~o.failed PROVE Balanced(DOMAIN rows, flying, companies)
    <3>1. \A i \in OrgIds : companies[i].name \notin {"none", Removed} <=>
            (i \in ids /\ ~Deleting(o.flying, i)) \/ Created(o.flying, i)
      BY <1>0, <1>7, <2>10 DEF OrgsOk, Balanced
    <3> QED BY <1>15, <1>20, <2>2, <3>1 DEF Balanced
  <2> QED BY <1>2, <1>12, <1>16, <2>5, <2>6, <2>7, <2>8, <2>9, <2>10 DEF OrgsInv, OrgsOk
<1> QED BY <1>3, <1>17, <1>18, <1>19, <1>20

LEMMA OrgsMove ==
    ASSUME AdminAssumption, OrgsInv, [OrgsNext]_orgVars
    PROVE  OrgsInv'
<1>0. PICK o \in OrgRecord : o = orgs /\ OrgsOk(o, companies) /\ FormOk(o)
  BY DEF OrgsInv, OrgsOk
<1>1. /\ o.rows \in RowMaps /\ o.deleted \in OrgSets /\ o.editing \in MaybeOrg
      /\ o.name \in GoodNames
  BY DEF OrgRecord
<1>2. PICK ids \in SUBSET OrgIds : o.rows \in [ids -> GoodNames] /\ DOMAIN o.rows = ids
  BY <1>1 DEF RowMaps
<1>3. NoOne \in MaybeOrg /\ "" \in GoodNames /\ ids \subseteq MaybeOrg
  BY <1>2 DEF MaybeOrg, GoodNames
<1>4. CASE OpenCreate
  <2>1. PICK n : n = [o EXCEPT !.form = TRUE, !.editing = NoOne, !.name = "", !.typedFor = NoOne]
    OBVIOUS
  <2>2. /\ n \in OrgRecord /\ n.rows = o.rows /\ n.deleted = o.deleted
        /\ n.flying = o.flying /\ n.failed = o.failed /\ n.editing = NoOne
    BY <1>3, <2>1 DEF OrgRecord
  <2>3. FormOk(n)
    BY <2>2 DEF FormOk
  <2> QED BY <1>0, <1>4, <2>1, <2>2, <2>3, FormChanges DEF OpenCreate
<1>5. ASSUME NEW id \in OrgIds, Edit(id) PROVE OrgsInv'
  <2>0. id \in ids /\ o.rows[id] \in GoodNames /\ id \in MaybeOrg
    BY <1>0, <1>2, <1>3, <1>5 DEF Edit
  <2>1. PICK n : n = [o EXCEPT !.form = FALSE, !.editing = id, !.name = o.rows[id],
                               !.typedFor = id]
    OBVIOUS
  <2>2. /\ n \in OrgRecord /\ n.rows = o.rows /\ n.deleted = o.deleted
        /\ n.flying = o.flying /\ n.failed = o.failed /\ n.editing = id /\ n.typedFor = id
    BY <2>0, <2>1 DEF OrgRecord
  <2>3. FormOk(n)
    BY <1>2, <2>0, <2>2 DEF FormOk, OrgKnown
  <2> QED BY <1>0, <1>5, <2>1, <2>2, <2>3, FormChanges DEF Edit
<1>6. ASSUME NEW name \in OrgNames, TypeName(name) PROVE OrgsInv'
  <2>0. name \in GoodNames
    BY DEF GoodNames
  <2>1. PICK n : n = [o EXCEPT !.name = name, !.typedFor = o.editing]
    OBVIOUS
  <2>2. /\ n \in OrgRecord /\ n.rows = o.rows /\ n.deleted = o.deleted
        /\ n.flying = o.flying /\ n.failed = o.failed /\ n.editing = o.editing
        /\ n.typedFor = o.editing
    BY <1>1, <2>0, <2>1 DEF OrgRecord
  <2>3. FormOk(n)
    BY <1>0, <2>2 DEF FormOk, OrgKnown
  <2> QED BY <1>0, <1>6, <2>1, <2>2, <2>3, FormChanges DEF TypeName
<1>7. CASE CancelForm
  <2>1. PICK n : n = [o EXCEPT !.form = FALSE, !.editing = NoOne]
    OBVIOUS
  <2>2. /\ n \in OrgRecord /\ n.rows = o.rows /\ n.deleted = o.deleted
        /\ n.flying = o.flying /\ n.failed = o.failed /\ n.editing = NoOne
    BY <1>3, <2>1 DEF OrgRecord
  <2>3. FormOk(n)
    BY <2>2 DEF FormOk
  <2> QED BY <1>0, <1>7, <2>1, <2>2, <2>3, FormChanges DEF CancelForm
<1>8. CASE SaveOrg
  <2>1. o.name # "" /\ (o.editing # NoOne => o.editing \in OrgKnown(o) /\ o.typedFor = o.editing)
    BY <1>0, <1>8 DEF SaveOrg, FormOk
  <2>2. CASE o.editing # NoOne
    <3>1. SendOrg("update", o.editing, o.name)
      BY <1>0, <1>8, <2>2 DEF SaveOrg
    <3> QED BY <1>0, <1>1, <2>1, <2>2, <3>1, OrgSent
  <2>3. CASE o.editing = NoOne
    <3>1. SendOrg("create", o.editing, o.name)
      BY <1>0, <1>8, <2>3 DEF SaveOrg
    <3> QED BY <1>0, <1>1, <3>1, OrgSent
  <2> QED BY <2>2, <2>3
<1>9. ASSUME NEW id \in OrgIds, DeleteOrg(id) PROVE OrgsInv'
  <2>1. id \in MaybeOrg /\ id \in OrgKnown(o) /\ SendOrg("delete", id, "")
    BY <1>0, <1>2, <1>3, <1>9 DEF DeleteOrg, OrgKnown
  <2> QED BY <1>0, <1>3, <2>1, OrgSent
<1>10. CASE UNCHANGED orgVars
  BY <1>10 DEF orgVars, OrgsInv
<1> QED BY <1>4, <1>5, <1>6, <1>7, <1>8, <1>9, <1>10, OrgAnswers, OrgArrivals DEF OrgsNext

LEMMA OrgsMeaning ==
    AdminAssumption /\ OrgsInv =>
        /\ OrgsAsSaved /\ DOMAIN orgs.rows \subseteq OrgIds
        /\ orgs.editing \in OrgIds \union {NoOne}
<1> SUFFICES ASSUME AdminAssumption, OrgsInv
             PROVE  /\ OrgsAsSaved /\ DOMAIN orgs.rows \subseteq OrgIds
                    /\ orgs.editing \in OrgIds \union {NoOne}
  OBVIOUS
<1>0. PICK o \in OrgRecord : o = orgs /\ OrgsOk(o, companies)
  BY DEF OrgsInv, OrgsOk
<1>1. DOMAIN o.rows \subseteq OrgIds /\ o.editing \in OrgIds \union {NoOne}
  BY DEF OrgRecord, RowMaps, MaybeOrg
<1>2. /\ \A q \in o.flying : q.kind = "update" => q.typedFor = q.id
      /\ \A id \in DOMAIN o.rows : o.rows[id] \in companies[id].had
      /\ o.deleted \intersect DOMAIN o.rows = {}
  BY <1>0 DEF OrgsOk, RequestsOk, RequestOk, RowsOk
<1>3. ASSUME o.flying = {}, ~o.failed PROVE DOMAIN o.rows = {id \in OrgIds : HasOrg(id)}
  <2>1. \A id \in OrgIds : companies[id].name \notin {"none", Removed} <=> id \in DOMAIN o.rows
    BY <1>0, <1>3 DEF OrgsOk, Balanced, Created, Deleting
  <2> QED BY <1>1, <2>1 DEF HasOrg
<1> QED BY <1>0, <1>1, <1>2, <1>3 DEF OrgsAsSaved

-----------------------------------------------------------------------------
(* The knowledge editor                                                    *)

EditIds == Range(EntryIds)
EditSets == SUBSET EditIds
EditLists == Seq(EditIds)
EntryStatuses == {"none", "draft", "published", "archived", Removed}
StatusSets == SUBSET EntryStatuses
StatusMaps == [EditIds -> EntryStatuses]
EntryRecord == [status : EntryStatuses, had : StatusSets]
EntryMaps == [EditIds -> EntryRecord]
Labels == {"Publish", "Archive", "Delete"}
BulkStates == {"waiting", "fulfilled", "rejected"}
BulkRecord == [label : Labels, ids : EditSets, open : EditSets, state : BulkStates]
Bulks == Seq(BulkRecord)
EditorRecord ==
    [rows : EditLists, shown : StatusMaps, was : StatusMaps, list : EditLists,
     listing : {"asked", "answered", "shown"}, page : Nat, searched : BOOLEAN,
     selected : EditSets, seen : EditSets, bulk : Bulks, late : BOOLEAN,
     lost : EditSets, overlapped : BOOLEAN, turns : Nat]

Stands(id, c) == c[id].status \notin {"none", Removed}
EntriesOk(c) == \A id \in EditIds : /\ c[id].status \in c[id].had \union {"none"}
                                    /\ "draft" \in c[id].had
\* A list has an entry once, and no entry before it is made.
ListOk(list, c) == IsInjective(list) /\ \A id \in Range(list) : c[id].status # "none"
\* A request that was answered took effect, and nothing comes back from removal.
BulkOk(b, seen, c) ==
    /\ b.open \subseteq b.ids /\ b.ids \subseteq seen
    /\ b.state = "fulfilled" => b.open = {}
    /\ b.state # "rejected" =>
         \A id \in b.ids \ b.open : /\ c[id].status # "none"
                                    /\ StatusAfter(b.label) \in c[id].had
                                    /\ b.label = "Delete" => c[id].status = Removed
BulksOk(bulk, seen, c) == \A i \in DOMAIN bulk : BulkOk(bulk[i], seen, c)
\* The list on its way, while nothing was made meanwhile.
ComingOk(e, c) ==
    /\ e.listing = "answered" => \A id \in Range(e.list) : e.was[id] \in c[id].had
    /\ ~e.late /\ e.listing # "shown" => e.rows = <<>> /\ e.bulk = <<>> /\ e.selected = {}
    /\ ~e.late /\ e.listing = "answered" =>
         \A id \in EditIds : /\ id \in Range(e.list) => e.was[id] = c[id].status
                             /\ Stands(id, c) => id \in Range(e.list) \union e.lost
ShowingOk(e, c) ==
    /\ \A id \in Range(e.rows) : e.shown[id] \in c[id].had
    /\ ~e.late /\ e.listing = "shown" =>
         \A id \in EditIds : Stands(id, c) => id \in Range(e.rows) \union e.lost
\* While bulk actions follow each other and none failed, only what the last one
\* changed already is ahead of what is shown.
Smooth(e) == /\ e.listing = "shown" /\ ~e.late /\ ~e.overlapped
             /\ \A i \in DOMAIN e.bulk : e.bulk[i].state # "rejected"
Ahead(bulk, id) == /\ bulk # <<>> /\ bulk[Len(bulk)].state = "waiting"
                   /\ id \in bulk[Len(bulk)].ids \ bulk[Len(bulk)].open
UpToDate(e, c) ==
    Smooth(e) =>
      /\ \A i \in DOMAIN e.bulk : i # Len(e.bulk) => e.bulk[i].state = "fulfilled"
      /\ \A id \in Range(e.rows) :
           c[id].status = IF Ahead(e.bulk, id) THEN StatusAfter(e.bulk[Len(e.bulk)].label)
                          ELSE e.shown[id]
EditorOk(e, c) ==
    /\ e \in EditorRecord /\ c \in EntryMaps
    /\ EntriesOk(c) /\ ListOk(e.rows, c) /\ ListOk(e.list, c)
    /\ e.selected \subseteq e.seen /\ BulksOk(e.bulk, e.seen, c)
    /\ ComingOk(e, c) /\ ShowingOk(e, c) /\ UpToDate(e, c)
EditorInv == EditorOk(editor, entries)

\* What is kept of a list is what of it is in the set.
LEMMA KeptListsAll ==
    ASSUME NEW T, NEW list \in Seq(T), NEW ids
    PROVE  /\ Kept(list, ids) \in Seq(T)
           /\ Range(Kept(list, ids)) = Range(list) \intersect ids
           /\ IsInjective(list) => IsInjective(Kept(list, ids))
<1>1. PICK S \in SUBSET DOMAIN list : S = {i \in DOMAIN list : list[i] \in ids}
  OBVIOUS
<1>2. Kept(list, ids) = Chosen(list, S)
  BY <1>1, Zenon DEF Kept
<1>3. /\ Chosen(list, S) \in Seq(T) /\ Range(Chosen(list, S)) = {list[i] : i \in S}
      /\ IsInjective(list) => IsInjective(Chosen(list, S))
  BY ChosenListsAll
<1>4. {list[i] : i \in S} = Range(list) \intersect ids
  BY <1>1 DEF Range
<1> QED BY <1>2, <1>3, <1>4

LEMMA EditorStart == AdminAssumption /\ EditorInit => EditorInv
<1> SUFFICES ASSUME AdminAssumption, EditorInit PROVE EditorInv
  OBVIOUS
<1>1. PICK shown \in StatusMaps : shown = [id \in EditIds |-> "draft"]
  BY DEF StatusMaps, EntryStatuses
<1>2. <<>> \in EditLists /\ <<>> \in Bulks /\ {} \in EditSets /\ {"draft"} \in StatusSets
  BY DEF EditLists, Bulks, EditSets, StatusSets, EntryStatuses
<1>3. editor = [rows |-> <<>>, shown |-> shown, was |-> shown, list |-> <<>>,
                listing |-> "asked", page |-> 0, searched |-> FALSE, selected |-> {},
                seen |-> {}, bulk |-> <<>>, late |-> FALSE, lost |-> {},
                overlapped |-> FALSE, turns |-> 0]
  BY <1>1 DEF EditorInit, EditIds
<1>4. editor \in EditorRecord
  BY <1>2, <1>3 DEF EditorRecord
<1>5. ASSUME NEW id \in EditIds
      PROVE  entries[id] \in EntryRecord /\ entries[id].status \in {"draft", "none"}
             /\ entries[id].had = {"draft"}
  <2>1. PICK status \in {"draft", "none"} :
          entries[id] = [status |-> status, had |-> {"draft"}]
    BY DEF EditorInit, EditIds
  <2> QED BY <1>2, <2>1 DEF EntryRecord, EntryStatuses
<1>6. entries \in EntryMaps
  BY <1>5 DEF EditorInit, EditIds, EntryMaps
<1>7. EntriesOk(entries)
  BY <1>5 DEF EntriesOk
<1>8. \A id : id \notin Range(<<>>)
  BY DEF Range
<1>9. ListOk(<<>>, entries) /\ BulksOk(<<>>, {}, entries)
  BY <1>8 DEF ListOk, IsInjective, BulksOk
<1>10. ComingOk(editor, entries) /\ ShowingOk(editor, entries) /\ UpToDate(editor, entries)
  BY <1>3, <1>8 DEF ComingOk, ShowingOk, UpToDate, Smooth
<1> QED BY <1>3, <1>4, <1>6, <1>7, <1>9, <1>10 DEF EditorInv, EditorOk

\* What the server's entries may become.
Later(c, d) ==
    \A id \in EditIds : /\ c[id].had \subseteq d[id].had
                        /\ c[id].status # "none" => d[id].status # "none"
                        /\ c[id].status = Removed => d[id].status = Removed

LEMMA BulksLater ==
    ASSUME NEW c, NEW d, Later(c, d), NEW seen, NEW more, seen \subseteq more,
           NEW bulk \in Bulks, BulksOk(bulk, seen, c)
    PROVE  BulksOk(bulk, more, d)
<1> SUFFICES ASSUME NEW i \in DOMAIN bulk PROVE BulkOk(bulk[i], more, d)
  BY DEF BulksOk
<1>1. PICK b \in BulkRecord : b = bulk[i]
  BY DEF Bulks
<1>2. BulkOk(b, seen, c) /\ \A id \in b.ids \ b.open : id \in EditIds
  BY <1>1 DEF BulksOk, BulkRecord, EditSets
<1> QED BY <1>1, <1>2 DEF BulkOk, Later

LEMMA ListLater ==
    ASSUME NEW c, NEW d, Later(c, d), NEW list \in EditLists, ListOk(list, c)
    PROVE  ListOk(list, d)
<1>1. Range(list) \subseteq EditIds
  BY DEF EditLists, Range
<1> QED BY <1>1 DEF ListOk, Later

LEMMA ListInIds == ASSUME NEW list \in EditLists PROVE Range(list) \subseteq EditIds
BY DEF EditLists, Range

LEMMA ListArrives == AdminAssumption /\ EditorInv /\ ListAnswered => EditorInv'
<1> SUFFICES ASSUME AdminAssumption, EditorInv, ListAnswered PROVE EditorInv'
  OBVIOUS
<1>0. PICK e \in EditorRecord : e = editor /\ EditorOk(e, entries)
  BY DEF EditorInv, EditorOk
<1>1. PICK c \in EntryMaps : c = entries /\ EntriesOk(c)
  BY <1>0 DEF EditorOk
<1>2. PICK ids : ids = {id \in EditIds : Stands(id, c)}
  OBVIOUS
<1>3. EntryIds \in Seq(EditIds) /\ IsInjective(EntryIds)
  BY DEF AdminAssumption, EditIds
<1>4. PICK list \in EditLists : /\ list = Kept(EntryIds, ids)
                                /\ Range(list) = ids /\ IsInjective(list)
  <2>1. Range(EntryIds) \intersect ids = ids
    BY <1>2 DEF EditIds
  <2> QED BY <1>3, <2>1, KeptListsAll DEF EditLists
<1>5. PICK was \in StatusMaps : was = [id \in EditIds |-> c[id].status]
  BY DEF StatusMaps, EntryMaps, EntryRecord
<1>6. PICK p : p = [e EXCEPT !.listing = "answered", !.list = list, !.was = was]
  OBVIOUS
<1>7. /\ p \in EditorRecord /\ p.listing = "answered" /\ p.list = list /\ p.was = was
      /\ p.rows = e.rows /\ p.shown = e.shown /\ p.selected = e.selected /\ p.seen = e.seen
      /\ p.bulk = e.bulk /\ p.late = e.late /\ p.lost = e.lost
  BY <1>6 DEF EditorRecord
<1>8. editor' = p /\ entries' = c /\ e.listing = "asked"
  <2>1. DOMAIN e.was = EditIds /\ DOMAIN c = EditIds
    BY DEF EditorRecord, StatusMaps, EntryMaps
  <2>2. ids = {id \in DOMAIN entries : Exists(id)}
    BY <1>1, <1>2, <2>1 DEF Exists, Stands
  <2>3. was = [id \in DOMAIN editor.was |-> entries[id].status]
    BY <1>0, <1>1, <1>5, <2>1
  <2> QED BY <1>0, <1>1, <1>4, <1>6, <2>2, <2>3 DEF ListAnswered
<1>9. \A id \in ids : id \in EditIds /\ c[id].status # "none" /\ c[id].status \in c[id].had
                      /\ was[id] = c[id].status
  BY <1>1, <1>2, <1>5 DEF Stands, EntriesOk
<1>10. ListOk(list, c)
  BY <1>4, <1>9 DEF ListOk
<1>11. ComingOk(p, c)
  <2>1. \A id \in EditIds : Stands(id, c) => id \in ids
    BY <1>2
  <2> QED BY <1>0, <1>1, <1>4, <1>7, <1>8, <1>9, <2>1 DEF EditorOk, ComingOk
<1>12. ShowingOk(p, c) /\ UpToDate(p, c)
  BY <1>0, <1>1, <1>7 DEF EditorOk, ShowingOk, UpToDate, Smooth
<1> QED BY <1>0, <1>1, <1>7, <1>8, <1>10, <1>11, <1>12 DEF EditorInv, EditorOk

LEMMA ListShows == EditorInv /\ LoadEntries => EditorInv'
<1> SUFFICES ASSUME EditorInv, LoadEntries PROVE EditorInv'
  OBVIOUS
<1>0. PICK e \in EditorRecord : e = editor /\ EditorOk(e, entries)
  BY DEF EditorInv, EditorOk
<1>1. PICK p : p = [e EXCEPT !.rows = e.list, !.listing = "shown", !.shown = e.was]
  OBVIOUS
<1>2. /\ p \in EditorRecord /\ p.listing = "shown" /\ p.rows = e.list /\ p.shown = e.was
      /\ p.list = e.list /\ p.selected = e.selected /\ p.seen = e.seen
      /\ p.bulk = e.bulk /\ p.late = e.late /\ p.lost = e.lost
  BY <1>1 DEF EditorRecord
<1>3. editor' = p /\ entries' = entries /\ e.listing = "answered"
  BY <1>0, <1>1 DEF LoadEntries
<1>4. ComingOk(e, entries) /\ Range(e.list) \subseteq EditIds
  BY <1>0, ListInIds DEF EditorOk, EditorRecord
<1>5. ComingOk(p, entries) /\ ShowingOk(p, entries)
  BY <1>2, <1>3, <1>4 DEF ComingOk, ShowingOk
<1>6. UpToDate(p, entries)
  <2> SUFFICES ASSUME Smooth(p)
               PROVE  /\ p.bulk = <<>>
                      /\ \A id \in Range(p.rows) : entries[id].status = p.shown[id]
    BY DEF UpToDate, Ahead
  <2>1. ~e.late
    BY <1>2 DEF Smooth
  <2> QED BY <1>2, <1>3, <1>4, <2>1 DEF ComingOk
<1> QED BY <1>0, <1>2, <1>3, <1>5, <1>6 DEF EditorInv, EditorOk

\* What a click may change.
LEMMA Clicked ==
    ASSUME EditorInv, NEW searched \in BOOLEAN, NEW page \in Nat,
           NEW selected \in EditSets, NEW seen \in EditSets,
           selected \subseteq seen, editor.seen \subseteq seen,
           ~editor.late /\ editor.listing # "shown" => selected = {},
           Click([editor EXCEPT !.searched = searched, !.page = page, !.selected = selected,
                                !.seen = seen])
    PROVE  EditorInv'
<1>0. PICK e \in EditorRecord : e = editor /\ EditorOk(e, entries)
  BY DEF EditorInv, EditorOk
<1>a. PICK turns \in Nat : turns = e.turns + 1
  BY DEF EditorRecord
<1>1. PICK p : p = [e EXCEPT !.searched = searched, !.page = page, !.selected = selected,
                             !.seen = seen, !.turns = turns]
  OBVIOUS
<1>2. /\ p \in EditorRecord /\ p.listing = e.listing /\ p.rows = e.rows /\ p.shown = e.shown
      /\ p.list = e.list /\ p.was = e.was /\ p.selected = selected /\ p.seen = seen
      /\ p.bulk = e.bulk /\ p.late = e.late /\ p.lost = e.lost
      /\ p.overlapped = e.overlapped
  BY <1>1 DEF EditorRecord
<1>3. editor' = p /\ entries' = entries
  BY <1>0, <1>a, <1>1 DEF Click, EditorRecord
<1>4. BulksOk(e.bulk, seen, entries)
  <2>1. BulksOk(e.bulk, e.seen, entries) /\ e.bulk \in Bulks /\ Later(entries, entries)
    BY <1>0 DEF EditorOk, EditorRecord, Later
  <2> QED BY <1>0, <2>1, BulksLater
<1>5. ComingOk(p, entries) /\ ShowingOk(p, entries)
  BY <1>0, <1>2 DEF EditorOk, ComingOk, ShowingOk
<1>6. UpToDate(p, entries)
  <2>1. Smooth(p) <=> Smooth(e)
    BY <1>2 DEF Smooth
  <2> QED BY <1>0, <1>2, <2>1 DEF EditorOk, UpToDate
<1> QED BY <1>0, <1>2, <1>3, <1>4, <1>5, <1>6 DEF EditorInv, EditorOk

LEMMA PageIsShown == EditorInv => PageData \subseteq Range(editor.rows)
<1> SUFFICES ASSUME EditorInv PROVE PageData \subseteq Range(editor.rows)
  OBVIOUS
<1>1. editor.rows \in Seq(EditIds)
  BY DEF EditorInv, EditorOk, EditorRecord, EditLists
<1>2. Range(Kept(editor.rows, Matching)) \subseteq Range(editor.rows)
  BY <1>1, KeptListsAll
<1>3. Range(Filtered) \subseteq Range(editor.rows)
  BY <1>2 DEF Filtered
<1> QED BY <1>3 DEF PageData, Range

\* What may be clicked.
Clicks == \/ \E id \in Range(EntryIds) : ToggleSelect(id)
          \/ \E on \in BOOLEAN : Search(on)
          \/ NextPage \/ PrevPage \/ ToggleSelectAll

LEMMA EditorClicks == EditorInv /\ Clicks => EditorInv'
<1> SUFFICES ASSUME EditorInv, Clicks PROVE EditorInv'
  OBVIOUS
<1>0. PICK e \in EditorRecord : e = editor /\ EditorOk(e, entries)
  BY DEF EditorInv, EditorOk
<1>1. /\ e.searched \in BOOLEAN /\ e.page \in Nat /\ e.selected \in EditSets
      /\ e.seen \in EditSets /\ e.selected \subseteq e.seen /\ Range(e.rows) \subseteq EditIds
  BY <1>0, ListInIds DEF EditorOk, EditorRecord
<1>2. ~e.late /\ e.listing # "shown" => e.selected = {} /\ Range(e.rows) = {}
  <2>1. ~e.late /\ e.listing # "shown" => e.selected = {} /\ e.rows = <<>>
    BY <1>0 DEF EditorOk, ComingOk
  <2> QED BY <2>1 DEF Range
<1>3. PageData \subseteq Range(e.rows)
  BY <1>0, PageIsShown
<1>4. ASSUME NEW searched \in BOOLEAN, NEW page \in Nat,
             Click([e EXCEPT !.searched = searched, !.page = page])
      PROVE  EditorInv'
  <2>1. [e EXCEPT !.searched = searched, !.page = page] =
        [e EXCEPT !.searched = searched, !.page = page, !.selected = e.selected,
                  !.seen = e.seen]
    BY DEF EditorRecord
  <2>2. Click([e EXCEPT !.searched = searched, !.page = page, !.selected = e.selected,
                  !.seen = e.seen])
    BY <1>4, <2>1
  <2> QED BY <1>0, <1>1, <1>2, <2>2, Clicked
<1>5. ASSUME NEW ids \in EditSets, Click(Select(ids)),
             ~e.late /\ e.listing # "shown" => ids = {}
      PROVE  EditorInv'
  <2>1. PICK seen \in EditSets : seen = e.seen \union (ids \ e.selected)
    BY <1>1 DEF EditSets
  <2>2. ids \subseteq seen /\ e.seen \subseteq seen
    BY <1>1, <2>1
  <2>3. Select(ids) = [e EXCEPT !.searched = e.searched, !.page = e.page, !.selected = ids,
                                !.seen = seen]
    BY <1>0, <2>1 DEF Select, EditorRecord
  <2>4. Click([e EXCEPT !.searched = e.searched, !.page = e.page, !.selected = ids,
                                !.seen = seen])
    BY <1>5, <2>3
  <2>5. Click([editor EXCEPT !.searched = e.searched, !.page = e.page, !.selected = ids,
                                !.seen = seen])
    BY <1>0, <2>4
  <2>6. /\ editor.seen \subseteq seen
        /\ ~editor.late /\ editor.listing # "shown" => ids = {}
    BY <1>0, <1>5, <2>2
  <2>7. e.searched \in BOOLEAN /\ e.page \in Nat
    BY <1>1
  <2> QED BY ONLY EditorInv, ids \in EditSets, seen \in EditSets, <2>2, <2>5, <2>6, <2>7, Clicked
<1>6. CASE \E id \in Range(EntryIds) : ToggleSelect(id)
  <2>1. PICK id : ToggleSelect(id)
    BY <1>6
  <2>2. id \in Range(e.rows) /\ id \in EditIds
    BY <1>1, <1>3, <2>1 DEF ToggleSelect
  <2>3. PICK ids \in EditSets : ids = IF id \in e.selected THEN e.selected \ {id}
                                      ELSE e.selected \union {id}
    BY <1>1, <2>2 DEF EditSets
  <2>4. Click(Select(ids))
    BY <1>0, <2>1, <2>3 DEF ToggleSelect
  <2>5. ~(~e.late /\ e.listing # "shown")
    BY <1>2, <2>2
  <2> QED BY <1>5, <2>4, <2>5
<1>7. CASE \E on \in BOOLEAN : Search(on)
  <2>1. PICK on \in BOOLEAN : Search(on)
    BY <1>7
  <2>2. Click([e EXCEPT !.searched = on, !.page = 0])
    BY <1>0, <2>1 DEF Search
  <2> QED BY <1>4, <2>2
<1>8. CASE NextPage
  <2>1. [e EXCEPT !.page = @ + 1] = [e EXCEPT !.searched = e.searched, !.page = e.page + 1]
    BY DEF EditorRecord
  <2>2. Click([e EXCEPT !.page = @ + 1])
    BY <1>0, <1>8 DEF NextPage
  <2>3. Click([e EXCEPT !.searched = e.searched, !.page = e.page + 1]) /\ e.page + 1 \in Nat
    BY <1>1, <2>1, <2>2
  <2> QED BY <1>1, <1>4, <2>3
<1>9. CASE PrevPage
  <2>1. [e EXCEPT !.page = @ - 1] = [e EXCEPT !.searched = e.searched, !.page = e.page - 1]
    BY DEF EditorRecord
  <2>2. Click([e EXCEPT !.page = @ - 1]) /\ e.page > 0
    BY <1>0, <1>9 DEF PrevPage
  <2>3. Click([e EXCEPT !.searched = e.searched, !.page = e.page - 1])
    BY <2>1, <2>2
  <2>4. e.page - 1 \in Nat
    BY <1>1, <2>2
  <2> QED BY <1>1, <1>4, <2>3, <2>4
<1>10. CASE ToggleSelectAll
  <2>1. PICK ids \in EditSets :
          ids = IF Cardinality(editor.selected) = Cardinality(PageData) THEN {} ELSE PageData
    BY <1>1, <1>3 DEF EditSets
  <2>2. Click(Select(ids))
    BY <1>10, <2>1 DEF ToggleSelectAll
  <2>3. ids \subseteq Range(e.rows)
    BY <1>3, <2>1
  <2> QED BY <1>2, <1>5, <2>2, <2>3
<1> QED BY <1>6, <1>7, <1>8, <1>9, <1>10 DEF Clicks

\* A list with one entry before it.
LEMMA ListGrows ==
    ASSUME NEW T, NEW list \in Seq(T), NEW t \in T
    PROVE  /\ <<t>> \o list \in Seq(T)
           /\ Range(<<t>> \o list) = Range(list) \union {t}
           /\ IsInjective(list) /\ t \notin Range(list) => IsInjective(<<t>> \o list)
<1>1. PICK more : more = <<t>> \o list
  OBVIOUS
<1>2. /\ more \in Seq(T) /\ Len(list) \in Nat /\ Len(more) = Len(list) + 1
      /\ DOMAIN list = 1..Len(list) /\ DOMAIN more = 1..Len(more)
      /\ more[1] = t /\ \A i \in 1..Len(more) : i # 1 => more[i] = list[i - 1]
  BY <1>1
<1>3. \A i \in DOMAIN more : i = 1 \/ (i - 1 \in DOMAIN list /\ more[i] = list[i - 1])
  BY <1>2
<1>4. Range(more) \subseteq Range(list) \union {t}
  BY <1>2, <1>3 DEF Range
<1>5. \A i \in DOMAIN list : i + 1 \in DOMAIN more /\ more[i + 1] = list[i]
  BY <1>2
<1>6. 1 \in DOMAIN more
  BY <1>2
<1>7. Range(list) \union {t} \subseteq Range(more)
  BY <1>2, <1>5, <1>6 DEF Range
<1>8. ASSUME IsInjective(list), t \notin Range(list) PROVE IsInjective(more)
  <2> SUFFICES ASSUME NEW i \in DOMAIN more, NEW j \in DOMAIN more, more[i] = more[j]
               PROVE  i = j
    BY DEF IsInjective
  <2>1. \A k \in DOMAIN list : list[k] # t
    BY <1>8 DEF Range
  <2>2. i \in Int /\ j \in Int
    BY <1>2
  <2>3. CASE i = 1 \/ j = 1
    BY <1>2, <1>3, <2>1, <2>3
  <2>4. CASE i # 1 /\ j # 1
    <3>1. i - 1 = j - 1
      BY <1>3, <1>8, <2>4 DEF IsInjective
    <3> QED BY <2>2, <3>1
  <2> QED BY <2>3, <2>4
<1> QED BY <1>1, <1>2, <1>4, <1>7, <1>8

LEMMA EntryCreated ==
    ASSUME EditorInv, NEW id \in EditIds, NEW answered \in BOOLEAN, CreateEntry(id, answered)
    PROVE  EditorInv'
<1>0. PICK e \in EditorRecord : e = editor /\ EditorOk(e, entries)
  BY DEF EditorInv, EditorOk
<1>1. PICK c \in EntryMaps : c = entries /\ EntriesOk(c)
  BY <1>0 DEF EditorOk
<1>2. c[id].status = "none" /\ c[id] \in EntryRecord /\ "draft" \in c[id].had
  BY <1>1 DEF CreateEntry, EntryMaps, EntriesOk
<1>a. PICK old \in EntryRecord : old = c[id]
  BY <1>2
<1>b. PICK new : new = [old EXCEPT !.status = "draft"]
  OBVIOUS
<1>3. /\ new \in EntryRecord /\ new = [c[id] EXCEPT !.status = "draft"] /\ new.status = "draft"
      /\ new.had = c[id].had
  BY <1>a, <1>b DEF EntryRecord, EntryStatuses
<1>4. PICK d : d = [c EXCEPT ![id] = new]
  OBVIOUS
<1>5. d \in EntryMaps /\ d[id] = new /\ \A i \in EditIds : i # id => d[i] = c[i]
  BY <1>3, <1>4 DEF EntryMaps
<1>6. entries' = d
  BY <1>1, <1>3, <1>4 DEF CreateEntry
<1>7. Later(c, d) /\ EntriesOk(d)
  <2>1. ASSUME NEW i \in EditIds
        PROVE  /\ c[i].had \subseteq d[i].had
               /\ c[i].status # "none" => d[i].status # "none"
               /\ c[i].status = Removed => d[i].status = Removed
               /\ d[i].status \in d[i].had \union {"none"} /\ "draft" \in d[i].had
    <3>1. CASE i = id
      BY <1>2, <1>3, <1>5, <3>1 DEF Removed
    <3>2. CASE i # id
      BY <1>1, <1>5, <3>2 DEF EntriesOk
    <3> QED BY <3>1, <3>2
  <2> QED BY <2>1 DEF Later, EntriesOk
<1>8. \A i \in EditIds : i # id /\ Stands(i, d) => Stands(i, c)
  BY <1>5 DEF Stands
<1>9. /\ e.rows \in EditLists /\ e.list \in EditLists /\ e.bulk \in Bulks
      /\ Range(e.rows) \subseteq EditIds /\ Range(e.list) \subseteq EditIds
  BY ListInIds DEF EditorRecord
<1>10. id \notin Range(e.rows) /\ id \notin Range(e.list)
  BY <1>0, <1>1, <1>2 DEF EditorOk, ListOk
<1>11. ListOk(e.rows, d) /\ ListOk(e.list, d) /\ BulksOk(e.bulk, e.seen, d)
  BY <1>0, <1>1, <1>7, <1>9, ListLater, BulksLater DEF EditorOk
<1>12. Smooth(e) => ~Ahead(e.bulk, id)
  <2> SUFFICES ASSUME Smooth(e), Ahead(e.bulk, id) PROVE FALSE
    OBVIOUS
  <2>1. Len(e.bulk) \in DOMAIN e.bulk
    BY <1>9 DEF Ahead, Bulks
  <2>2. BulkOk(e.bulk[Len(e.bulk)], e.seen, c)
    BY <1>0, <1>1, <2>1 DEF EditorOk, BulksOk
  <2> QED BY <1>2, <2>1, <2>2 DEF Ahead, BulkOk
<1>13. CASE ~answered
  <2>1. PICK gone \in EditSets : gone = e.lost \union {id}
    BY DEF EditorRecord, EditSets
  <2>2. PICK p : p = [e EXCEPT !.lost = gone]
    OBVIOUS
  <2>3. /\ p \in EditorRecord /\ p.listing = e.listing /\ p.rows = e.rows /\ p.shown = e.shown
        /\ p.list = e.list /\ p.was = e.was /\ p.selected = e.selected /\ p.seen = e.seen
        /\ p.bulk = e.bulk /\ p.late = e.late /\ p.lost = gone
        /\ p.overlapped = e.overlapped
    BY <2>2 DEF EditorRecord
  <2>4. editor' = p
    BY <1>0, <1>13, <2>1, <2>2 DEF CreateEntry
  <2>5. ComingOk(p, d)
    <3>1. ComingOk(e, c)
      BY <1>0, <1>1 DEF EditorOk
    <3>2. \A i \in Range(e.list) : d[i] = c[i]
      BY <1>5, <1>9, <1>10
    <3> QED BY <1>8, <1>10, <2>1, <2>3, <3>1, <3>2 DEF ComingOk
  <2>6. ShowingOk(p, d)
    <3>1. ShowingOk(e, c)
      BY <1>0, <1>1 DEF EditorOk
    <3>2. \A i \in Range(e.rows) : d[i] = c[i]
      BY <1>5, <1>9, <1>10
    <3> QED BY <1>8, <2>1, <2>3, <3>1, <3>2 DEF ShowingOk
  <2>7. UpToDate(p, d)
    <3>1. (Smooth(p) <=> Smooth(e)) /\ UpToDate(e, c)
      BY <1>0, <1>1, <2>3 DEF Smooth, EditorOk
    <3>2. \A i \in Range(e.rows) : d[i] = c[i]
      BY <1>5, <1>9, <1>10
    <3> QED BY <2>3, <3>1, <3>2 DEF UpToDate
  <2> QED BY <1>0, <1>5, <1>6, <1>7, <1>11, <2>3, <2>4, <2>5, <2>6, <2>7
          DEF EditorInv, EditorOk
<1>14. CASE answered
  <2>1. PICK rows \in EditLists : /\ rows = <<id>> \o e.rows
                                  /\ Range(rows) = Range(e.rows) \union {id}
                                  /\ IsInjective(e.rows) => IsInjective(rows)
    BY <1>9, <1>10, ListGrows DEF EditLists
  <2>a. e.shown \in StatusMaps /\ "draft" \in EntryStatuses
    BY DEF EditorRecord, EntryStatuses
  <2>b. PICK shown : shown = [e.shown EXCEPT ![id] = "draft"]
    OBVIOUS
  <2>2. /\ shown \in StatusMaps /\ shown = [e.shown EXCEPT ![id] = "draft"]
        /\ shown[id] = "draft" /\ \A i \in EditIds : i # id => shown[i] = e.shown[i]
    BY <2>a, <2>b DEF StatusMaps
  <2>3. PICK late \in BOOLEAN : late = (e.late \/ e.listing # "shown")
    OBVIOUS
  <2>4. PICK p : p = [e EXCEPT !.rows = rows, !.shown = shown, !.late = late]
    OBVIOUS
  <2>5. /\ p \in EditorRecord /\ p.listing = e.listing /\ p.rows = rows /\ p.shown = shown
        /\ p.list = e.list /\ p.was = e.was /\ p.selected = e.selected /\ p.seen = e.seen
        /\ p.bulk = e.bulk /\ p.late = late /\ p.lost = e.lost
        /\ p.overlapped = e.overlapped
    BY <2>2, <2>4 DEF EditorRecord
  <2>6. editor' = p
    BY <1>0, <1>14, <2>1, <2>2, <2>3, <2>4 DEF CreateEntry, EditorRecord
  <2>7. ListOk(rows, d)
    BY <1>3, <1>5, <1>11, <2>1 DEF ListOk
  <2>8. \A i \in Range(e.list) : d[i] = c[i]
    BY <1>5, <1>9, <1>10
  <2>9. ComingOk(p, d)
    BY <1>0, <1>1, <2>3, <2>5, <2>8 DEF EditorOk, ComingOk
  <2>10. \A i \in Range(e.rows) : i # id /\ i \in EditIds /\ d[i] = c[i] /\ shown[i] = e.shown[i]
    BY <1>5, <1>9, <1>10, <2>2
  <2>11. ShowingOk(p, d)
    <3>1. ShowingOk(e, c)
      BY <1>0, <1>1 DEF EditorOk
    <3>2. \A i \in Range(p.rows) : p.shown[i] \in d[i].had
      <4>1. d[id].had = c[id].had /\ "draft" \in d[id].had
        BY <1>2, <1>3, <1>5
      <4>2. \A i \in Range(e.rows) : shown[i] \in d[i].had
        BY <2>10, <3>1 DEF ShowingOk
      <4> QED BY <2>1, <2>2, <2>5, <4>1, <4>2
    <3>3. ASSUME ~p.late, p.listing = "shown", NEW i \in EditIds, Stands(i, d)
          PROVE  i \in Range(p.rows) \union p.lost
      BY <1>8, <2>1, <2>3, <2>5, <3>1, <3>3 DEF ShowingOk
    <3> QED BY <3>2, <3>3 DEF ShowingOk
  <2>12. UpToDate(p, d)
    <3> SUFFICES ASSUME Smooth(p) PROVE UpToDate(p, d)
      BY DEF UpToDate
    <3>1. Smooth(e)
      BY <2>3, <2>5 DEF Smooth
    <3>2. UpToDate(e, c)
      BY <1>0, <1>1 DEF EditorOk
    <3>3. ~Ahead(p.bulk, id) /\ d[id].status = p.shown[id]
      BY <1>3, <1>5, <1>12, <2>2, <2>5, <3>1
    <3> QED BY <2>1, <2>5, <2>10, <3>1, <3>2, <3>3 DEF UpToDate
  <2> QED BY <1>0, <1>5, <1>6, <1>7, <1>11, <2>5, <2>6, <2>7, <2>9, <2>11, <2>12
          DEF EditorInv, EditorOk
<1> QED BY <1>13, <1>14

LEMMA AfterStatus ==
    ASSUME NEW label \in Labels
    PROVE  /\ StatusAfter(label) \in EntryStatuses \ {"none"}
           /\ StatusAfter(label) = Removed <=> label = "Delete"
BY DEF Labels, StatusAfter, EntryStatuses, Removed

LEMMA BulkSent ==
    ASSUME EditorInv, NEW label \in Labels, BulkAction(label)
    PROVE  EditorInv'
<1>0. PICK e \in EditorRecord : e = editor /\ EditorOk(e, entries)
  BY DEF EditorInv, EditorOk
<1>1. e.selected \in EditSets /\ e.selected \subseteq e.seen /\ e.selected # {}
  BY <1>0 DEF EditorOk, EditorRecord, BulkAction
<1>2. PICK b \in BulkRecord : b = [label |-> label, ids |-> e.selected, open |-> e.selected,
                                   state |-> "waiting"]
  BY <1>1 DEF BulkRecord, BulkStates
<1>3. b.label = label /\ b.ids = e.selected /\ b.open = e.selected /\ b.state = "waiting"
  BY <1>2
<1>4. PICK bulk : bulk = Append(e.bulk, b)
  OBVIOUS
<1>5. /\ bulk \in Bulks /\ Len(e.bulk) \in Nat /\ Len(bulk) = Len(e.bulk) + 1
      /\ DOMAIN e.bulk = 1..Len(e.bulk) /\ DOMAIN bulk = 1..Len(bulk)
      /\ bulk[Len(bulk)] = b /\ \A i \in 1..Len(e.bulk) : bulk[i] = e.bulk[i]
      /\ \A i \in DOMAIN e.bulk : e.bulk[i] \in BulkRecord
  BY <1>4 DEF EditorRecord, Bulks
<1>6. \A i \in DOMAIN bulk : i = Len(bulk) \/ (i \in DOMAIN e.bulk /\ bulk[i] = e.bulk[i])
  BY <1>5
<1>7. PICK overlapped \in BOOLEAN :
        overlapped = (e.overlapped \/ \E f \in Range(e.bulk) : f.open # {} \/ ~Settled(f))
  OBVIOUS
<1>8. PICK p : p = [e EXCEPT !.bulk = bulk, !.overlapped = overlapped]
  OBVIOUS
<1>9. /\ p \in EditorRecord /\ p.listing = e.listing /\ p.rows = e.rows /\ p.shown = e.shown
      /\ p.list = e.list /\ p.was = e.was /\ p.selected = e.selected /\ p.seen = e.seen
      /\ p.bulk = bulk /\ p.late = e.late /\ p.lost = e.lost
      /\ p.overlapped = overlapped
  BY <1>5, <1>7, <1>8 DEF EditorRecord
<1>10. editor' = p /\ entries' = entries
  BY <1>0, <1>2, <1>4, <1>7, <1>8 DEF BulkAction, EditorRecord
<1>11. BulksOk(bulk, e.seen, entries)
  <2>1. BulkOk(b, e.seen, entries)
    BY <1>1, <1>3 DEF BulkOk
  <2>2. BulksOk(e.bulk, e.seen, entries)
    BY <1>0 DEF EditorOk
  <2> QED BY <1>5, <1>6, <2>1, <2>2 DEF BulksOk
<1>12. ComingOk(p, entries) /\ ShowingOk(p, entries)
  BY <1>0, <1>1, <1>9 DEF EditorOk, ComingOk, ShowingOk
<1>13. UpToDate(p, entries)
  <2> SUFFICES ASSUME Smooth(p) PROVE UpToDate(p, entries)
    BY DEF UpToDate
  <2>1. \A i \in DOMAIN e.bulk : e.bulk[i] \in Range(e.bulk)
    BY DEF Range
  <2>2. \A i \in DOMAIN e.bulk : Settled(e.bulk[i])
    BY <1>7, <1>9, <2>1 DEF Smooth
  <2>3. \A i \in DOMAIN e.bulk : i \in DOMAIN bulk /\ bulk[i] = e.bulk[i]
    BY <1>5
  <2>4. \A i \in DOMAIN e.bulk : e.bulk[i].state # "rejected"
    BY <1>9, <2>3 DEF Smooth
  <2>5. \A i \in DOMAIN e.bulk : e.bulk[i].state = "fulfilled"
    BY <1>5, <2>2, <2>4 DEF Settled, BulkRecord, BulkStates
  <2>6. Smooth(e)
    BY <1>7, <1>9, <2>4 DEF Smooth
  <2>7. UpToDate(e, entries)
    BY <1>0 DEF EditorOk
  <2>8. \A id : ~Ahead(e.bulk, id)
    <3>1. e.bulk # <<>> => Len(e.bulk) \in DOMAIN e.bulk
      BY <1>5
    <3> QED BY <2>5, <3>1 DEF Ahead
  <2>9. \A id : ~Ahead(bulk, id)
    BY <1>3, <1>5 DEF Ahead
  <2>10. \A id \in Range(p.rows) : entries[id].status = p.shown[id]
    BY <1>9, <2>6, <2>7, <2>8 DEF UpToDate
  <2>11. \A i \in DOMAIN bulk : i # Len(bulk) => bulk[i].state = "fulfilled"
    BY <1>6, <2>5
  <2> QED BY <1>9, <2>9, <2>10, <2>11 DEF UpToDate
<1> QED BY <1>0, <1>9, <1>10, <1>11, <1>12, <1>13 DEF EditorInv, EditorOk

LEMMA BulkAnswered ==
    ASSUME EditorInv, NEW i, NEW id, NEW outcome \in {"done", "lost", "failed"},
           BulkRequest(i, id, outcome)
    PROVE  EditorInv'
<1>0. PICK e \in EditorRecord : e = editor /\ EditorOk(e, entries)
  BY DEF EditorInv, EditorOk
<1>1. PICK c \in EntryMaps : c = entries /\ EntriesOk(c)
  BY <1>0 DEF EditorOk
<1>2. /\ e.bulk \in Bulks /\ Len(e.bulk) \in Nat /\ DOMAIN e.bulk = 1..Len(e.bulk)
      /\ \A j \in DOMAIN e.bulk : e.bulk[j] \in BulkRecord
  BY DEF EditorRecord, Bulks
<1>3. i \in DOMAIN e.bulk /\ id \in e.bulk[i].open
  BY <1>0 DEF BulkRequest
<1>4. PICK b \in BulkRecord : b = e.bulk[i]
  BY <1>2, <1>3
<1>5. /\ b.label \in Labels /\ b.ids \in EditSets /\ b.open \in EditSets
      /\ b.state \in BulkStates
  BY DEF BulkRecord
<1>6. BulkOk(b, e.seen, c) /\ BulksOk(e.bulk, e.seen, c)
  BY <1>0, <1>1, <1>3, <1>4 DEF EditorOk, BulksOk
<1>7. id \in b.open /\ id \in b.ids /\ id \in EditIds /\ b.state # "fulfilled"
  BY <1>3, <1>4, <1>5, <1>6 DEF BulkOk, EditSets
<1>8. PICK status \in EntryStatuses : /\ status = StatusAfter(b.label) /\ status # "none"
                                      /\ b.label = "Delete" => status = Removed
  BY <1>5, AfterStatus
<1>9. outcome # "failed" => Stands(id, c)
  BY <1>1 DEF BulkRequest, Exists, Stands
<1>10. PICK old \in EntryRecord : old = c[id]
  BY <1>7 DEF EntryMaps
<1>11. PICK had \in StatusSets : had = old.had \union {status}
  BY DEF EntryRecord, StatusSets
<1>12. PICK new : new = [status |-> status, had |-> had]
  OBVIOUS
<1>13. new \in EntryRecord /\ new.status = status /\ new.had = had
  BY <1>12 DEF EntryRecord
<1>14. PICK d : d = IF outcome = "failed" THEN c ELSE [c EXCEPT ![id] = new]
  OBVIOUS
<1>15. /\ d \in EntryMaps
       /\ outcome # "failed" => d[id] = new
       /\ outcome = "failed" => d = c
       /\ \A x \in EditIds : x # id => d[x] = c[x]
  BY <1>7, <1>13, <1>14 DEF EntryMaps
<1>16. Later(c, d) /\ EntriesOk(d) /\ \A x \in EditIds : Stands(x, d) => Stands(x, c)
  <2>1. ASSUME NEW x \in EditIds
        PROVE  /\ c[x].had \subseteq d[x].had
               /\ c[x].status # "none" => d[x].status # "none"
               /\ c[x].status = Removed => d[x].status = Removed
               /\ d[x].status \in d[x].had \union {"none"} /\ "draft" \in d[x].had
               /\ Stands(x, d) => Stands(x, c)
    <3>1. CASE x = id /\ outcome # "failed"
      BY <1>1, <1>7, <1>8, <1>9, <1>10, <1>11, <1>13, <1>15, <3>1 DEF Stands, EntriesOk
    <3>2. CASE x # id \/ outcome = "failed"
      <4>1. d[x] = c[x]
        BY <1>15, <3>2
      <4> QED BY <1>1, <4>1 DEF EntriesOk, Stands
    <3> QED BY <3>1, <3>2
  <2> QED BY <2>1 DEF Later, EntriesOk
<1>17. PICK open \in EditSets : open = b.open \ {id}
  BY <1>5 DEF EditSets
<1>18. PICK state \in BulkStates : state = IF outcome = "done" THEN b.state ELSE "rejected"
  BY <1>5 DEF BulkStates
<1>19. PICK a : a = [b EXCEPT !.open = open, !.state = state]
  OBVIOUS
<1>20. /\ a \in BulkRecord /\ a.label = b.label /\ a.ids = b.ids /\ a.open = open
       /\ a.state = state
  BY <1>19 DEF BulkRecord
<1>21. PICK bulk : bulk = [e.bulk EXCEPT ![i] = a]
  OBVIOUS
<1>22. /\ bulk \in Bulks /\ Len(bulk) = Len(e.bulk) /\ DOMAIN bulk = DOMAIN e.bulk
       /\ bulk[i] = a /\ \A j \in DOMAIN e.bulk : j # i => bulk[j] = e.bulk[j]
  BY <1>2, <1>3, <1>20, <1>21 DEF Bulks
<1>23. PICK p : p = [e EXCEPT !.bulk = bulk]
  OBVIOUS
<1>24. /\ p \in EditorRecord /\ p.listing = e.listing /\ p.rows = e.rows /\ p.shown = e.shown
       /\ p.list = e.list /\ p.was = e.was /\ p.selected = e.selected /\ p.seen = e.seen
       /\ p.bulk = bulk /\ p.late = e.late /\ p.lost = e.lost
       /\ p.overlapped = e.overlapped
  BY <1>22, <1>23 DEF EditorRecord
<1>25. editor' = p /\ entries' = d
  <2>1. entries' = d
    BY <1>0, <1>1, <1>4, <1>8, <1>10, <1>11, <1>12, <1>14 DEF BulkRequest
  <2>2. a = [editor.bulk[i] EXCEPT !.open = @ \ {id},
                                   !.state = IF outcome = "done" THEN @ ELSE "rejected"]
    BY <1>0, <1>4, <1>17, <1>18, <1>19
  <2>3. editor' = [editor EXCEPT !.bulk[i] = a]
    BY <2>2 DEF BulkRequest
  <2> QED BY <1>0, <1>21, <1>23, <2>1, <2>3
<1>26. /\ e.rows \in EditLists /\ e.list \in EditLists
       /\ Range(e.rows) \subseteq EditIds /\ Range(e.list) \subseteq EditIds
  BY ListInIds DEF EditorRecord
<1>27. ListOk(e.rows, d) /\ ListOk(e.list, d)
  BY <1>0, <1>1, <1>16, <1>26, ListLater DEF EditorOk
<1>28. BulksOk(bulk, e.seen, d)
  <2>1. BulksOk(e.bulk, e.seen, d)
    BY <1>2, <1>6, <1>16, BulksLater
  <2>2. BulkOk(a, e.seen, d)
    <3>1. a.open \subseteq a.ids /\ a.ids \subseteq e.seen
      BY <1>6, <1>17, <1>20 DEF BulkOk
    <3>2. a.state # "fulfilled"
      BY <1>7, <1>18, <1>20
    <3>3. ASSUME a.state # "rejected", NEW x \in a.ids \ a.open
          PROVE  /\ d[x].status # "none" /\ StatusAfter(a.label) \in d[x].had
                 /\ a.label = "Delete" => d[x].status = Removed
      <4>1. outcome = "done" /\ b.state # "rejected"
        BY <1>18, <1>20, <3>3
      <4>2. CASE x = id
        BY <1>8, <1>11, <1>13, <1>15, <1>20, <4>1, <4>2
      <4>3. CASE x # id
        <5>1. x \in b.ids \ b.open /\ x \in EditIds
          BY <1>5, <1>17, <1>20, <3>3, <4>3 DEF EditSets
        <5> QED BY <1>6, <1>15, <1>20, <4>1, <4>3, <5>1 DEF BulkOk
      <4> QED BY <4>2, <4>3
    <3> QED BY <3>1, <3>2, <3>3 DEF BulkOk
  <2> QED BY <1>22, <2>1, <2>2 DEF BulksOk
<1>29. ComingOk(p, d)
  <2>1. e.bulk # <<>>
    BY <1>2, <1>3
  <2>2. ComingOk(e, c)
    BY <1>0, <1>1 DEF EditorOk
  <2> QED BY <1>16, <1>24, <1>26, <2>1, <2>2 DEF ComingOk, Later
<1>30. ShowingOk(p, d)
  <2>1. ShowingOk(e, c)
    BY <1>0, <1>1 DEF EditorOk
  <2> QED BY <1>16, <1>24, <1>26, <2>1 DEF ShowingOk, Later
<1>31. UpToDate(p, d)
  <2> SUFFICES ASSUME Smooth(p) PROVE UpToDate(p, d)
    BY DEF UpToDate
  <2>1. outcome = "done" /\ state = b.state /\ b.state = "waiting"
    BY <1>3, <1>5, <1>7, <1>18, <1>20, <1>22, <1>24 DEF Smooth, BulkStates
  <2>2. \A j \in DOMAIN e.bulk : e.bulk[j].state # "rejected"
    BY <1>4, <1>22, <1>24, <2>1 DEF Smooth
  <2>3. Smooth(e) /\ UpToDate(e, c)
    BY <1>0, <1>1, <1>24, <2>2 DEF EditorOk, Smooth
  <2>4. i = Len(e.bulk)
    BY <1>3, <1>4, <1>7, <2>3 DEF UpToDate
  <2>5. \A j \in DOMAIN bulk : j # Len(bulk) => bulk[j].state = "fulfilled"
    BY <1>22, <2>3, <2>4 DEF UpToDate
  <2>6. bulk # <<>> /\ e.bulk # <<>> /\ bulk[Len(bulk)] = a /\ e.bulk[Len(e.bulk)] = b
    BY <1>2, <1>3, <1>4, <1>22, <2>4
  <2>7. /\ Ahead(bulk, id)
        /\ \A x : x # id => (Ahead(bulk, x) <=> Ahead(e.bulk, x))
    BY <1>7, <1>17, <1>20, <2>1, <2>6 DEF Ahead
  <2>8. ASSUME NEW x \in Range(e.rows)
        PROVE  d[x].status = IF Ahead(bulk, x) THEN StatusAfter(a.label) ELSE e.shown[x]
    <3>1. CASE x = id
      BY <1>8, <1>13, <1>15, <1>20, <2>1, <2>7, <3>1
    <3>2. CASE x # id
      <4>1. d[x] = c[x]
        BY <1>15, <1>26, <3>2
      <4> QED BY <1>20, <2>3, <2>6, <2>7, <3>2, <4>1 DEF UpToDate
    <3> QED BY <3>1, <3>2
  <2> QED BY <1>24, <2>5, <2>6, <2>8 DEF UpToDate
<1> QED BY <1>0, <1>15, <1>16, <1>24, <1>25, <1>27, <1>28, <1>29, <1>30, <1>31
        DEF EditorInv, EditorOk

LEMMA BulkShown ==
    ASSUME EditorInv, NEW i, BulkDone(i)
    PROVE  EditorInv'
<1>0. PICK e \in EditorRecord : e = editor /\ EditorOk(e, entries)
  BY DEF EditorInv, EditorOk
<1>1. PICK c \in EntryMaps : c = entries /\ EntriesOk(c)
  BY <1>0 DEF EditorOk
<1>2. /\ e.bulk \in Bulks /\ Len(e.bulk) \in Nat /\ DOMAIN e.bulk = 1..Len(e.bulk)
      /\ \A j \in DOMAIN e.bulk : e.bulk[j] \in BulkRecord
  BY DEF EditorRecord, Bulks
<1>3. i \in DOMAIN e.bulk
  BY <1>0 DEF BulkDone
<1>4. PICK b \in BulkRecord : b = e.bulk[i]
  BY <1>2, <1>3
<1>5. /\ b.label \in Labels /\ b.ids \in EditSets /\ b.open = {} /\ b.state = "waiting"
  <2>1. b.open = {} /\ ~Settled(b)
    BY <1>0, <1>4 DEF BulkDone
  <2> QED BY <2>1 DEF BulkRecord, Settled
<1>6. BulkOk(b, e.seen, c) /\ BulksOk(e.bulk, e.seen, c)
  BY <1>0, <1>1, <1>3, <1>4 DEF EditorOk, BulksOk
<1>7. PICK status \in EntryStatuses : /\ status = StatusAfter(b.label)
                                      /\ status = Removed <=> b.label = "Delete"
  BY <1>5, AfterStatus
<1>8. \A id \in b.ids : status \in c[id].had /\ (status = Removed => c[id].status = Removed)
  BY <1>5, <1>6, <1>7 DEF BulkOk
<1>9. PICK a : a = [b EXCEPT !.state = "fulfilled"]
  OBVIOUS
<1>10. /\ a \in BulkRecord /\ a.label = b.label /\ a.ids = b.ids /\ a.open = {}
       /\ a.state = "fulfilled"
  BY <1>5, <1>9 DEF BulkRecord, BulkStates
<1>11. PICK bulk : bulk = [e.bulk EXCEPT ![i] = a]
  OBVIOUS
<1>12. /\ bulk \in Bulks /\ Len(bulk) = Len(e.bulk) /\ DOMAIN bulk = DOMAIN e.bulk
       /\ bulk[i] = a /\ \A j \in DOMAIN e.bulk : j # i => bulk[j] = e.bulk[j]
  BY <1>2, <1>3, <1>10, <1>11 DEF Bulks
<1>13. /\ e.rows \in EditLists /\ e.list \in EditLists /\ e.shown \in StatusMaps
       /\ Range(e.rows) \subseteq EditIds /\ Range(e.list) \subseteq EditIds
  BY ListInIds DEF EditorRecord
<1>14. PICK rows \in EditLists :
         /\ rows = IF status = Removed THEN Kept(e.rows, Range(e.rows) \ b.ids) ELSE e.rows
         /\ Range(rows) = IF status = Removed THEN Range(e.rows) \ b.ids ELSE Range(e.rows)
         /\ IsInjective(e.rows) => IsInjective(rows)
  <2>1. PICK left : left = Range(e.rows) \ b.ids
    OBVIOUS
  <2>2. /\ Kept(e.rows, left) \in EditLists
        /\ Range(Kept(e.rows, left)) = Range(e.rows) \intersect left
        /\ IsInjective(e.rows) => IsInjective(Kept(e.rows, left))
    BY <1>13, KeptListsAll DEF EditLists
  <2> QED BY <1>13, <2>1, <2>2
<1>15. PICK shown : shown = [id \in EditIds |->
                               IF id \in b.ids /\ status # Removed /\ id \in Range(e.rows)
                               THEN status ELSE e.shown[id]]
  OBVIOUS
<1>16. shown \in StatusMaps
  BY <1>13, <1>15 DEF StatusMaps
<1>17. PICK p : p = [e EXCEPT !.bulk = bulk, !.rows = rows, !.shown = shown]
  OBVIOUS
<1>18. /\ p \in EditorRecord /\ p.listing = e.listing /\ p.rows = rows /\ p.shown = shown
       /\ p.list = e.list /\ p.was = e.was /\ p.selected = e.selected /\ p.seen = e.seen
       /\ p.bulk = bulk /\ p.late = e.late /\ p.lost = e.lost
       /\ p.overlapped = e.overlapped
  BY <1>12, <1>16, <1>17 DEF EditorRecord
<1>19. editor' = p /\ entries' = c
  <2>1. DOMAIN e.shown = EditIds
    BY <1>13 DEF StatusMaps
  <2>2. editor' = [editor EXCEPT
               !.bulk[i].state = "fulfilled",
               !.rows = IF status = Removed THEN Kept(@, Range(@) \ b.ids) ELSE @,
               !.shown = [id \in DOMAIN @ |->
                            IF id \in b.ids /\ status # Removed /\ id \in Range(editor.rows)
                            THEN status ELSE @[id]]]
    BY <1>0, <1>4, <1>7 DEF BulkDone
  <2>3. rows = IF status = Removed THEN Kept(editor.rows, Range(editor.rows) \ b.ids)
               ELSE editor.rows
    BY <1>0, <1>14
  <2>4. shown = [id \in DOMAIN editor.shown |->
                   IF id \in b.ids /\ status # Removed /\ id \in Range(editor.rows)
                   THEN status ELSE editor.shown[id]]
    BY <1>0, <1>15, <2>1
  <2>5. bulk = [editor.bulk EXCEPT ![i].state = "fulfilled"]
    BY <1>0, <1>4, <1>9, <1>11
  <2>6. editor' = [editor EXCEPT !.bulk = bulk, !.rows = rows, !.shown = shown]
    BY <1>0, <2>2, <2>3, <2>4, <2>5 DEF EditorRecord
  <2> QED BY <1>0, <1>1, <1>17, <2>6 DEF BulkDone
<1>20. ListOk(rows, c) /\ ListOk(e.list, c)
  <2>1. Range(rows) \subseteq Range(e.rows)
    BY <1>14
  <2> QED BY <1>0, <1>1, <1>14, <2>1 DEF EditorOk, ListOk
<1>21. BulksOk(bulk, e.seen, c)
  <2>1. BulkOk(a, e.seen, c)
    BY <1>5, <1>6, <1>10 DEF BulkOk
  <2> QED BY <1>6, <1>12, <2>1 DEF BulksOk
<1>22. ComingOk(p, c)
  <2>1. e.bulk # <<>>
    BY <1>2, <1>3
  <2>2. ComingOk(e, c)
    BY <1>0, <1>1 DEF EditorOk
  <2> QED BY <1>18, <2>1, <2>2 DEF ComingOk
<1>23. ShowingOk(p, c)
  <2>1. ShowingOk(e, c)
    BY <1>0, <1>1 DEF EditorOk
  <2>2. ASSUME NEW x \in Range(rows) PROVE shown[x] \in c[x].had
    <3>1. x \in Range(e.rows) /\ x \in EditIds
      BY <1>13, <1>14
    <3> QED BY <1>8, <1>15, <2>1, <3>1 DEF ShowingOk
  <2>3. ASSUME ~e.late, e.listing = "shown", NEW x \in EditIds, Stands(x, c)
        PROVE  x \in Range(rows) \union e.lost
    <3>1. x \in Range(e.rows) \union e.lost
      BY <2>1, <2>3 DEF ShowingOk
    <3>2. status = Removed => x \notin b.ids
      BY <1>8, <2>3 DEF Stands
    <3> QED BY <1>14, <3>1, <3>2
  <2> QED BY <1>18, <2>2, <2>3 DEF ShowingOk
<1>24. UpToDate(p, c)
  <2> SUFFICES ASSUME Smooth(p) PROVE UpToDate(p, c)
    BY DEF UpToDate
  <2>1. \A j \in DOMAIN e.bulk : e.bulk[j].state # "rejected"
    BY <1>4, <1>5, <1>12, <1>18 DEF Smooth
  <2>2. Smooth(e) /\ UpToDate(e, c)
    BY <1>0, <1>1, <1>18, <2>1 DEF EditorOk, Smooth
  <2>3. i = Len(e.bulk)
    BY <1>3, <1>4, <1>5, <2>2 DEF UpToDate
  <2>4. \A j \in DOMAIN bulk : bulk[j].state = "fulfilled"
    BY <1>10, <1>12, <2>2, <2>3 DEF UpToDate
  <2>5. e.bulk # <<>> /\ bulk # <<>> /\ bulk[Len(bulk)] = a /\ e.bulk[Len(e.bulk)] = b
    BY <1>2, <1>3, <1>4, <1>12, <2>3
  <2>6. \A x : ~Ahead(bulk, x) /\ (Ahead(e.bulk, x) <=> x \in b.ids)
    BY <1>5, <1>10, <2>5 DEF Ahead
  <2>7. ASSUME NEW x \in Range(rows) PROVE c[x].status = shown[x]
    <3>1. x \in Range(e.rows) /\ x \in EditIds /\ (status = Removed => x \notin b.ids)
      BY <1>13, <1>14
    <3>2. CASE x \in b.ids
      BY <1>7, <1>15, <2>2, <2>5, <2>6, <3>1, <3>2 DEF UpToDate
    <3>3. CASE x \notin b.ids
      BY <1>15, <2>2, <2>6, <3>1, <3>3 DEF UpToDate
    <3> QED BY <3>2, <3>3
  <2> QED BY <1>18, <2>4, <2>6, <2>7 DEF UpToDate
<1> QED BY <1>0, <1>1, <1>18, <1>19, <1>20, <1>21, <1>22, <1>23, <1>24 DEF EditorInv, EditorOk

LEMMA EditorMoves ==
    ASSUME AdminAssumption, EditorInv, [EditorNext]_editorVars
    PROVE  EditorInv'
<1>1. CASE UNCHANGED editorVars
  BY <1>1 DEF editorVars, EditorInv
<1>2. CASE EditorNext
  <2>1. CASE ListAnswered
    BY <2>1, ListArrives
  <2>2. CASE LoadEntries
    BY <2>2, ListShows
  <2>3. CASE \E id \in Range(EntryIds), answered \in BOOLEAN : CreateEntry(id, answered)
    BY <2>3, EntryCreated DEF EditIds
  <2>4. CASE Clicks
    BY <2>4, EditorClicks
  <2>5. CASE \E label \in {"Publish", "Archive", "Delete"} : BulkAction(label)
    BY <2>5, BulkSent DEF Labels
  <2>6. CASE \E i \in 1..MaxBulk : BulkDone(i)
    BY <2>6, BulkShown
  <2>7. CASE \E i \in 1..MaxBulk, id \in Range(EntryIds), outcome \in {"done", "lost", "failed"} :
               BulkRequest(i, id, outcome)
    BY <2>7, BulkAnswered
  <2> QED BY <1>2, <2>1, <2>2, <2>3, <2>4, <2>5, <2>6, <2>7 DEF EditorNext, Clicks
<1> QED BY <1>1, <1>2

LEMMA EditorMeaning ==
    EditorInv => /\ EditorTruthful
                 /\ Range(editor.rows) \subseteq Range(EntryIds) /\ editor.page \in Nat
                 /\ editor.selected \subseteq Range(EntryIds)
<1> SUFFICES ASSUME EditorInv
             PROVE  /\ EditorTruthful
                    /\ Range(editor.rows) \subseteq Range(EntryIds) /\ editor.page \in Nat
                    /\ editor.selected \subseteq Range(EntryIds)
  OBVIOUS
<1>0. EditorOk(editor, entries) /\ editor \in EditorRecord
  BY DEF EditorInv, EditorOk
<1>1. /\ editor.rows \in EditLists /\ editor.bulk \in Bulks /\ editor.page \in Nat
      /\ editor.selected \in EditSets /\ Range(editor.rows) \subseteq EditIds
  BY <1>0, ListInIds DEF EditorRecord
<1>2. ASSUME NEW b \in Range(editor.bulk) PROVE b.ids \subseteq editor.seen
  <2>1. PICK i \in DOMAIN editor.bulk : b = editor.bulk[i]
    BY DEF Range
  <2> QED BY <1>0, <2>1 DEF EditorOk, BulksOk, BulkOk
<1>3. ASSUME editor.listing = "shown", ~editor.late, NEW id \in EditIds, Exists(id)
      PROVE  id \in Range(editor.rows) \union editor.lost
  BY <1>0, <1>3 DEF EditorOk, ShowingOk, Exists, Stands
<1>4. ASSUME editor.listing = "shown", ~editor.late, ~editor.overlapped,
             \A b \in Range(editor.bulk) : b.state = "fulfilled", NEW id \in Range(editor.rows)
      PROVE  entries[id].status = editor.shown[id]
  <2>1. \A i \in DOMAIN editor.bulk : editor.bulk[i].state = "fulfilled"
    BY <1>4 DEF Range
  <2>2. Smooth(editor) /\ UpToDate(editor, entries)
    BY <1>0, <1>4, <2>1 DEF Smooth, EditorOk
  <2>3. ~Ahead(editor.bulk, id)
    <3>1. editor.bulk # <<>> => Len(editor.bulk) \in DOMAIN editor.bulk
      BY <1>1 DEF Bulks
    <3> QED BY <2>1, <3>1 DEF Ahead
  <2> QED BY <1>4, <2>2, <2>3 DEF UpToDate
<1>5. /\ editor.selected \subseteq editor.seen /\ IsInjective(editor.rows)
      /\ \A id \in Range(editor.rows) : editor.shown[id] \in entries[id].had
  BY <1>0 DEF EditorOk, ListOk, ShowingOk
<1>6. EditorTruthful
  BY <1>2, <1>3, <1>4, <1>5 DEF EditorTruthful, EditIds
<1> QED BY <1>1, <1>6 DEF EditIds, EditSets

-----------------------------------------------------------------------------
(* All pages                                                               *)

PagesInv == /\ SocketInv /\ ChatInv /\ BrowseInv
            /\ EditorInv /\ ReviewInv /\ OrgsInv
            /\ MatrixInv /\ FlashInv /\ FilesInv /\ LoginInv

LEMMA TypesMeaning ==
    ASSUME PagesInv
    PROVE  ClientTypeOK /\ AdminTypeOK
<1>1. ClientTypeOK
  BY SocketMeaning, ChatMeaning, BrowseMeaning DEF PagesInv, ClientTypeOK, ReadyStates
<1>2. matrix.saving \in BOOLEAN /\ flash.writing \in Nat /\ demands \subseteq Admins
  BY DEF PagesInv, MatrixInv, MatrixOk, FlashInv, LoginInv
<1>3. login.admin \in Admins \union {NoAdmin}
  BY DEF PagesInv, LoginInv, LoginOk, LoginRecord, AdminNames
<1>4. ASSUME NEW f \in Range(files) PROVE f.status \in {"uploading", "done", "error"}
  <2>1. PICK i \in DOMAIN files : f = files[i]
    BY DEF Range
  <2> QED BY <2>1 DEF PagesInv, FilesInv, FileOk, FileRecord
<1>5. /\ Range(editor.rows) \subseteq Range(EntryIds) /\ editor.page \in Nat
      /\ editor.selected \subseteq Range(EntryIds)
  BY EditorMeaning DEF PagesInv
<1>6. /\ \A id \in ReviewIds : reviewed[id] \in {"draft", "published", "rejected", "escalated"}
      /\ review.selected \in ReviewIds \union {Removed}
  BY ReviewMeaning DEF PagesInv, ReviewStatuses
<1>7. DOMAIN orgs.rows \subseteq OrgIds /\ orgs.editing \in OrgIds \union {NoOne}
  BY AdminAssumption, OrgsMeaning DEF PagesInv
<1> QED BY <1>1, <1>2, <1>3, <1>4, <1>5, <1>6, <1>7 DEF AdminTypeOK

\* Whatever order clicks, timers, socket events and answers come in, on every
\* page of the user and of the administrator: a connection asked for once has one
\* socket at a time and loses no message it queued, and asked for again it still
\* waits for a socket or a timer (WSConnection); an answer is shown with its
\* question, under its conversation until another is selected over it, and the
\* 401 of an old session meets a new token only before the new document is
\* loaded; a list shows what is selected; the editor, the review
\* queue and the organisations show what the server has, or had when an answer
\* failed; a message passes; a file is done only when it was stored; and a login
\* keeps the account that was asked for.
THEOREM ClientKeeps == PagesSpec => []ClientHolds
<1>1. PagesInit => PagesInv
  BY ClientAssumption, AdminAssumption, SocketStart, ChatStart, BrowseStart, EditorStart,
     ReviewStart, OrgsStart, MatrixStart, FlashStart, FilesStart, LoginStart
     DEF PagesInit, PagesInv
<1>2. PagesInv /\ [PagesNext]_<<Questions, clientVars, adminVars, part>> => PagesInv'
  <2> SUFFICES ASSUME PagesInv, [PagesNext]_<<Questions, clientVars, adminVars, part>>
               PROVE  PagesInv'
    OBVIOUS
  <2>1. SocketInv' /\ ChatInv' /\ BrowseInv'
    BY ClientAssumption, PagesMove, SocketMoves, ChatMoves, BrowseMoves DEF PagesInv
  <2>2. EditorInv' /\ ReviewInv' /\ OrgsInv'
    BY AdminAssumption, PagesMove, EditorMoves, ReviewMoves, OrgsMove DEF PagesInv
  <2>3. MatrixInv' /\ FlashInv' /\ FilesInv' /\ LoginInv'
    BY PagesMove, MatrixMoves, FlashMoves, FilesMove, LoginMoves DEF PagesInv
  <2> QED BY <2>1, <2>2, <2>3 DEF PagesInv
<1>3. PagesInv => ClientHolds
  <2> SUFFICES ASSUME PagesInv PROVE ClientHolds
    OBVIOUS
  <2>1. SocketHolds /\ AnswersInPlace /\ SessionsApart /\ ShowsSelection
    BY SocketMeaning, ChatMeaning, BrowseMeaning DEF PagesInv
  <2>2. EditorTruthful /\ QueueTracked /\ OrgsAsSaved
    BY AdminAssumption, EditorMeaning, ReviewMeaning, OrgsMeaning DEF PagesInv
  <2>3. MatrixSaved /\ FlashPasses /\ FilesTruthful /\ LoginTruthful
    BY MatrixMeaning, FilesMeaning, LoginMeaning DEF PagesInv, FlashInv
  <2> QED BY TypesMeaning, <2>1, <2>2, <2>3 DEF ClientHolds
<1> QED BY <1>1, <1>2, <1>3, PTL DEF PagesSpec

-----------------------------------------------------------------------------
(* Whose voice a tier is spoken to in                                      *)

\* A custom persona speaks as formally as a persona can.
Voices(Terms) == [key : Terms, tone : Terms, formality : 1..5, style : Terms]
Ruled(Names) == [orgTier : Names, roleKey : Names, tone : Names]

(* A tier is spoken to by the first rule of the knowledge that names it, never by another's;
   a custom persona stands in only where the knowledge is silent; nobody is left without a
   persona (resolve_persona). *)
THEOREM EveryPersonaFits ==
    ASSUME NEW Names, NEW tier, NEW rules \in Seq(Ruled(Names)), NEW Tailored,
           NEW Terms, NEW custom \in [Tailored -> Voices(Terms)]
    PROVE  PersonaFits(tier, rules, custom, ResolvePersona(tier, rules, custom))
<1>1. PICK n \in Nat : DOMAIN rules = 1..n
  BY ListHas
<1>2. PICK known : known = {i \in DOMAIN rules : RuleTier(rules[i]) = tier}
  OBVIOUS
<1>3. PICK persona : persona = ResolvePersona(tier, rules, custom)
  OBVIOUS
<1>4. known \in SUBSET Nat
  BY <1>1, <1>2
<1>5. ASSUME tier # NoTier, known # {}
      PROVE  persona = RulePersona(tier, rules[CHOOSE i \in known : \A j \in known : i <= j])
  <2>1. Min(known) = CHOOSE i \in known : \A j \in known : i <= j
    BY DEF Min
  <2>2. persona = RulePersona(tier, rules[Min(known)])
    BY <1>2, <1>3, <1>5 DEF ResolvePersona
  <2> QED BY <2>1, <2>2
<1>6. ASSUME tier # NoTier, known = {}
      PROVE  persona = IF tier \in Tailored THEN custom[tier]
                       ELSE IF tier \in Tiers THEN DefaultPersonas[tier] ELSE FallbackPersona
  BY <1>2, <1>3, <1>6 DEF ResolvePersona
<1>7. tier = NoTier => persona = FallbackPersona
  BY <1>3 DEF ResolvePersona
<1>8. NoTier \notin Tiers
  BY DEF NoTier, Tiers, DefaultPersonas
<1>9. /\ FallbackPersona.key = "default" /\ FallbackPersona.formality = 3
      /\ \A rule : RulePersona(tier, rule).key = tier /\ RulePersona(tier, rule).formality = 3
      /\ tier \in Tiers => DefaultPersonas[tier].key = tier /\ DefaultPersonas[tier].formality \in 1..4
  BY DEF FallbackPersona, RulePersona, Persona, Tiers, DefaultPersonas
<1>10. \A t \in Tailored : custom[t].formality \in 1..5
  BY DEF Voices
<1>11. tier \in Tiers => persona.key \in {tier} \union {custom[t].key : t \in DOMAIN custom}
  <2>1. tier \in Tailored => custom[tier].key \in {custom[t].key : t \in DOMAIN custom}
    OBVIOUS
  <2> QED BY <1>5, <1>6, <1>8, <1>9, <2>1
<1>12. tier \notin Tiers \union DOMAIN custom /\ known = {} => persona.key = "default"
  BY <1>6, <1>7, <1>9
<1>13. persona.formality \in 1..5
  BY <1>5, <1>6, <1>7, <1>9, <1>10
<1> QED BY <1>2, <1>3, <1>5, <1>6, <1>11, <1>12, <1>13 DEF PersonaFits

-----------------------------------------------------------------------------
(* The outfits                                                             *)

\* "from" says at which rule each place of the result stands.
Selects(rules, F, maximum, m, c, from, chosen) ==
    /\ m \in 0..c /\ c = Cardinality(F) /\ m = Min({maximum, c})
    /\ Len(chosen) = m /\ DOMAIN chosen = 1..m
    /\ from \in Bijection(1..c, F)
    /\ \A i \in 1..m : chosen[i] = rules[from[i]]
    /\ \A i, j \in 1..c : i < j => rules[from[i]].score >= rules[from[j]].score

Outfit(Names) == [source : Names, score : Int, category : Names]

\* The combinations are those that fit, sorted and cut.
LEMMA CombinationsSelect ==
    ASSUME NEW Names, NEW rules \in Seq(Outfit(Names)), NEW F \in SUBSET DOMAIN rules, NEW maximum \in Nat
    PROVE  \E m, c \in Nat : \E from :
              Selects(rules, F, maximum, m, c, from,
                      First(maximum, Sorted(Chosen(rules, F), ByRuleScore(Chosen(rules, F)))))
<1>1. PICK R : R = Outfit(Names)
  OBVIOUS
<1>2. \A r \in R : r.score \in Int
  BY <1>1 DEF Outfit
<1>3. PICK c \in Nat : c = Cardinality(F)
  BY <1>1, ChosenListsAll
<1>4. PICK list : list = Chosen(rules, F)
  OBVIOUS
<1>5. /\ list \in Seq(R) /\ DOMAIN list = 1..c /\ F \in SUBSET Nat /\ IsFiniteSet(F)
      /\ \A k \in 1..c : list[k] = rules[Nth(F, k)]
  BY <1>1, <1>3, <1>4, ChosenListsAll
<1>6. list \in [1..c -> R]
  <2>1. \A k \in 1..c : list[k] \in R
    BY <1>5
  <2> QED BY <1>5, <2>1
<1>7. PICK greater : greater = ByRuleScore(list)
  OBVIOUS
<1>8. \A i, j \in 1..c : <<i, j>> \in greater <=> list[i].score > list[j].score
  BY <1>5, <1>7 DEF ByRuleScore, PlacePairs
<1>9. Keyed(greater, c)
  <2>1. PICK key : key = [i \in 1..c |-> list[i].score]
    OBVIOUS
  <2>2. key \in [1..c -> Int]
    BY <1>2, <1>6, <2>1
  <2>3. \A i, j \in 1..c : <<i, j>> \in greater <=> key[i] > key[j]
    BY <1>8, <2>1
  <2> QED BY <2>2, <2>3, NumbersKey
<1>10. PICK at \in Places(c) : SortedBy(list, greater, at)
  BY <1>6, <1>9, SortedIs
<1>11. PICK sorted : sorted = Sorted(list, greater)
  OBVIOUS
<1>12. /\ sorted \in Seq(R) /\ Len(sorted) = c
       /\ \A i \in 1..c : at[i] \in 1..c
       /\ \A i \in 1..c : \E j \in 1..c : at[j] = i
       /\ \A i, j \in 1..c : at[i] = at[j] => i = j
       /\ \A i \in 1..c : sorted[i] = list[at[i]]
  <2>1. /\ Sorted(list, greater) \in Seq(R)
        /\ Len(Sorted(list, greater)) = c /\ DOMAIN Sorted(list, greater) = 1..c
        /\ \A m \in 1..c : at[m] \in 1..c
        /\ \A m \in 1..c : Sorted(list, greater)[m] = list[at[m]]
        /\ \A i \in 1..c : \E m \in 1..c : at[m] = i
        /\ \A l, m \in 1..c : at[l] = at[m] => l = m
        /\ Range(Sorted(list, greater)) = Range(list)
        /\ IsInjective(list) => IsInjective(Sorted(list, greater))
    BY <1>6, <1>10, SortedHas, Zenon
  <2> QED BY <1>11, <2>1
<1>13. PICK chosen : chosen = First(maximum, sorted)
  OBVIOUS
<1>14. PICK m \in 0..c : /\ m = Min({maximum, c}) /\ Len(chosen) = m /\ DOMAIN chosen = 1..m
                         /\ \A i \in 1..m : chosen[i] = sorted[i]
  <2>1. sorted \in Seq(R) /\ Len(sorted) = c
    BY <1>12
  <2>2. PICK l \in 0..Len(sorted) :
          /\ l = Min({maximum, Len(sorted)}) /\ l = IF maximum <= Len(sorted) THEN maximum ELSE Len(sorted)
          /\ First(maximum, sorted) \in Seq(R) /\ Len(First(maximum, sorted)) = l
          /\ DOMAIN First(maximum, sorted) = 1..l
          /\ \A i \in 1..l : First(maximum, sorted)[i] = sorted[i]
          /\ IsInjective(sorted) => IsInjective(First(maximum, sorted))
    BY <2>1, FirstOf, Zenon
  <2> QED BY <1>13, <2>1, <2>2
<1>15. PICK from : from = [i \in 1..c |-> Nth(F, at[i])]
  OBVIOUS
<1>16. /\ \A k \in 1..c : Nth(F, k) \in F
       /\ \A e \in F : \E k \in 1..c : Nth(F, k) = e
       /\ \A j, k \in 1..c : j < k <=> Nth(F, j) < Nth(F, k)
  BY <1>3, <1>5, NthIsNth
<1>17. from \in Bijection(1..c, F)
  <2>1. \A i \in 1..c : from[i] \in F
    BY <1>12, <1>15, <1>16
  <2>2. ASSUME NEW e \in F PROVE \E i \in 1..c : from[i] = e
    <3>1. PICK k \in 1..c : Nth(F, k) = e
      BY <1>16
    <3>2. PICK i \in 1..c : at[i] = k
      BY <1>12
    <3> QED BY <1>15, <3>1, <3>2
  <2>3. ASSUME NEW i \in 1..c, NEW j \in 1..c, from[i] = from[j] PROVE i = j
    <3>1. at[i] \in 1..c /\ at[j] \in 1..c /\ Nth(F, at[i]) = Nth(F, at[j])
      BY <1>12, <1>15, <2>3
    <3>2. Nth(F, at[i]) \in Nat
      BY <1>5, <1>16, <3>1
    <3>3. ~(at[i] < at[j]) /\ ~(at[j] < at[i])
      BY <1>16, <3>1, <3>2, SMTT(30)
    <3>4. at[i] = at[j]
      BY <3>1, <3>3
    <3> QED BY <1>12, <3>4
  <2> QED BY <1>15, <2>1, <2>2, <2>3 DEF Bijection, Injection, Surjection, IsInjective
<1>18. \A i \in 1..m : chosen[i] = rules[from[i]]
  <2>1. ASSUME NEW i \in 1..m PROVE chosen[i] = rules[from[i]]
    <3>1. i \in 1..c /\ at[i] \in 1..c
      BY <1>12, <1>14
    <3>2. chosen[i] = list[at[i]]
      BY <1>12, <1>14, <3>1
    <3> QED BY <1>5, <1>15, <3>1, <3>2
  <2> QED BY <2>1
<1>19. ASSUME NEW i \in 1..c, NEW j \in 1..c, i < j
       PROVE  rules[from[i]].score >= rules[from[j]].score
  <2>1. Precedes(greater, at[i], at[j])
    BY <1>5, <1>10, <1>19 DEF SortedBy
  <2>2. PICK a \in 1..c, b \in 1..c : a = at[i] /\ b = at[j]
    BY <1>12
  <2>3. <<b, a>> \notin greater \/ <<a, b>> \in greater
    BY <2>1, <2>2 DEF Precedes
  <2>4. list[a].score \in Int /\ list[b].score \in Int
    BY <1>2, <1>6
  <2>5. list[a].score >= list[b].score
    BY <1>8, <2>3, <2>4
  <2> QED BY <1>5, <1>15, <2>2, <2>5
<1>20. Selects(rules, F, maximum, m, c, from, chosen)
  BY <1>3, <1>14, <1>17, <1>18, <1>19 DEF Selects
<1>21. chosen = First(maximum, Sorted(Chosen(rules, F), ByRuleScore(Chosen(rules, F))))
  BY <1>4, <1>7, <1>11, <1>13
<1>22. m \in Nat /\ c \in Nat
  BY <1>14
<1> QED BY <1>20, <1>21, <1>22, Zenon

(* Of the rules that fit, as many as asked for are chosen, the best first: none that was
   left out beats one that was taken, and none is taken twice (_generate_combinations). *)
THEOREM EverySelectionBest ==
    ASSUME NEW Names, NEW rules \in Seq(Outfit(Names)), NEW sku, NEW category, NEW minScore \in Int,
           NEW maximum \in Nat
    PROVE  SelectionBest(rules, sku, category, minScore, maximum,
                         GenerateCombinations(rules, sku, category, minScore, maximum))
<1>1. PICK F \in SUBSET DOMAIN rules :
         F = {i \in DOMAIN rules : Fitting(rules[i], sku, category, minScore)}
  OBVIOUS
<1>2. PICK chosen : chosen = First(maximum, Sorted(Chosen(rules, F), ByRuleScore(Chosen(rules, F))))
  OBVIOUS
<1>3. chosen = GenerateCombinations(rules, sku, category, minScore, maximum)
  BY <1>1, <1>2 DEF GenerateCombinations
<1>4. PICK m \in Nat, c \in Nat : \E at : Selects(rules, F, maximum, m, c, at, chosen)
  BY <1>2, CombinationsSelect
<1>12. PICK from : Selects(rules, F, maximum, m, c, from, chosen)
  BY <1>4
<1>5. /\ m \in 0..c /\ c = Cardinality(F) /\ DOMAIN chosen = 1..m
      /\ m = Min({maximum, c}) /\ Len(chosen) = m
      /\ \A i \in 1..m : chosen[i] = rules[from[i]]
      /\ \A i, j \in 1..c : i < j => rules[from[i]].score >= rules[from[j]].score
  BY <1>12 DEF Selects
<1>6. /\ \A i \in 1..c : from[i] \in F
      /\ \A e \in F : \E i \in 1..c : from[i] = e
      /\ \A i, j \in 1..c : from[i] = from[j] => i = j
  BY <1>12 DEF Selects, Bijection, Injection, Surjection, IsInjective
<1>7. IsFiniteSet(F)
  BY ChosenListsAll
<1>8. Len(chosen) = Min({maximum, Cardinality(F)})
  BY <1>5
<1>9. \A i, j \in 1..m : i < j => chosen[i].score >= chosen[j].score
  <2>1. ASSUME NEW i \in 1..m, NEW j \in 1..m, i < j PROVE chosen[i].score >= chosen[j].score
    <3>1. i \in 1..c /\ j \in 1..c
      BY <1>5
    <3>2. rules[from[i]].score >= rules[from[j]].score
      BY <1>5, <2>1, <3>1
    <3> QED BY <1>5, <3>2
  <2> QED BY <2>1
<1>10. ASSUME NEW r
       PROVE  /\ IsFiniteSet({i \in DOMAIN chosen : chosen[i] = r})
              /\ Cardinality({i \in DOMAIN chosen : chosen[i] = r}) <= Cardinality({k \in F : rules[k] = r})
  <2>1. PICK A, B : A = {i \in DOMAIN chosen : chosen[i] = r} /\ B = {k \in F : rules[k] = r}
    OBVIOUS
  <2>2. IsFiniteSet(B)
    BY <1>7, <2>1, FS_Subset
  <2>3. PICK f : f = [i \in A |-> from[i]]
    OBVIOUS
  <2>4. \A i \in A : i \in 1..m /\ i \in 1..c /\ chosen[i] = r
    BY <1>5, <2>1
  <2>5. \A i \in A : f[i] \in B
    BY <1>5, <1>6, <2>1, <2>3, <2>4
  <2>6. f \in Injection(A, B)
    BY <1>6, <2>3, <2>4, <2>5, SMTT(30) DEF Injection, IsInjective
  <2>7. IsFiniteSet(A) /\ Cardinality(A) <= Cardinality(B)
    BY <2>2, <2>6, FS_Injection
  <2> QED BY <2>1, <2>7
<1>11. ASSUME NEW k \in F, Cardinality({i \in DOMAIN chosen : chosen[i] = rules[k]}) = 0, NEW i \in 1..m
       PROVE  rules[k].score <= chosen[i].score
  <2>1. {j \in DOMAIN chosen : chosen[j] = rules[k]} = {}
    BY <1>10, <1>11, FS_EmptySet
  <2>2. PICK q \in 1..c : from[q] = k
    BY <1>6
  <2>3. ~(q <= m)
    <3>1. ASSUME q <= m PROVE FALSE
      <4>1. q \in 1..m
        BY <3>1
      <4>2. chosen[q] = rules[k]
        BY <1>5, <2>2, <4>1
      <4> QED BY <1>5, <2>1, <4>1, <4>2
    <3> QED BY <3>1
  <2>4. i < q /\ i \in 1..c
    BY <1>5, <2>3
  <2>5. rules[from[i]].score >= rules[from[q]].score
    BY <1>5, <2>4
  <2>6. rules[from[i]].score \in Int /\ rules[from[q]].score \in Int
    <3>1. PICK n \in Nat : DOMAIN rules = 1..n /\ \A e \in 1..n : rules[e] \in Outfit(Names)
      BY ListHas
    <3>2. \A e \in F : rules[e].score \in Int
      BY <3>1 DEF Outfit
    <3> QED BY <1>6, <2>4, <3>2
  <2> QED BY <1>5, <2>2, <2>5, <2>6
<1> QED BY <1>1, <1>3, <1>5, <1>8, <1>9, <1>10, <1>11 DEF SelectionBest

-----------------------------------------------------------------------------
(* What a model is given to read                                           *)

Called(Names) == [name : Names, provider : Names]

(* Every part of a message reaches the model, in order and as one block, and the model's
   name has one provider at most (LiteLLMGatewayAdapter.call, _build_messages). *)
THEOREM EveryMessageKept ==
    ASSUME NEW Names, NEW given \in Called(Names), NEW default \in Called(Names), NEW ownUrl \in BOOLEAN,
           NEW prompt \in BOOLEAN, NEW parts \in Seq({"image", "text", "image_without_media"})
    PROVE  MessageKept(given, default, ownUrl, prompt, parts,
                       RequestedModel(given, default, ownUrl), BuildMessages(prompt, parts))
<1>1. PICK asked : asked = IF given.name # "" THEN given ELSE default
  OBVIOUS
<1>2. asked \in Called(Names)
  BY <1>1
<1>3. PICK model : model = RequestedModel(given, default, ownUrl)
  OBVIOUS
<1>4. model.name = asked.name /\ model.provider = IF asked.provider = "" /\ ownUrl THEN "openai" ELSE asked.provider
  <2>1. model = [asked EXCEPT !.provider = IF ownUrl /\ asked.provider = "" THEN "openai" ELSE asked.provider]
    BY <1>1, <1>3 DEF RequestedModel
  <2> QED BY <1>2, <2>1 DEF Called
<1>5. PICK n \in Nat : n = Len(parts) /\ DOMAIN parts = 1..n
                       /\ \A i \in 1..n : parts[i] \in {"image", "text", "image_without_media"}
  BY ListHas
<1>6. PICK blocks : blocks = BuildMessages(prompt, parts)
  OBVIOUS
<1>7. PICK body : body = [i \in 1..n |-> BuildBlock(parts[i])]
  OBVIOUS
<1>8. PICK Sorts : Sorts = {"prompt", "image_url", "text", "text_fallback"}
  OBVIOUS
<1>9. /\ body \in Seq(Sorts) /\ Len(body) = n
      /\ \A i \in 1..n : body[i] = "image_url" <=> parts[i] = "image"
  <2>1. \A i \in 1..n : BuildBlock(parts[i]) \in Sorts /\ (BuildBlock(parts[i]) = "image_url" <=> parts[i] = "image")
    BY <1>5, <1>8 DEF BuildBlock
  <2>2. body \in [1..n -> Sorts] /\ \A i \in 1..n : body[i] = "image_url" <=> parts[i] = "image"
    BY <1>7, <2>1
  <2>3. body \in Seq(Sorts) /\ Len(body) = n
    BY <2>2
  <2> QED BY <2>2, <2>3
<1>10. <<"prompt">> \in Seq(Sorts) /\ Len(<<"prompt">>) = 1 /\ <<>> \in Seq(Sorts) /\ Len(<<>>) = 0
  BY <1>8
<1>11. parts = <<>> <=> n = 0
  BY <1>5
<1>12. PICK h : h = IF prompt THEN 1 ELSE 0
  OBVIOUS
<1>13. Len(blocks) = Max({1, n + h})
  <2>1. Max({1, n + h}) = IF 1 >= n + h THEN 1 ELSE n + h
    BY <1>12, MaxOfTwo
  <2>2. CASE n = 0
    <3>1. blocks = <<"prompt">>
      BY <1>6, <1>11, <2>2 DEF BuildMessages
    <3> QED BY <1>10, <1>12, <2>1, <2>2, <3>1
  <2>3. CASE n # 0
    <3>1. blocks = (IF prompt THEN <<"prompt">> ELSE <<>>) \o body
      BY <1>5, <1>6, <1>7, <1>11, <2>3 DEF BuildMessages
    <3>2. Len(blocks) = h + n
      BY <1>9, <1>10, <1>12, <3>1
    <3> QED BY <1>12, <2>1, <2>3, <3>2
  <2> QED BY <2>2, <2>3
<1>14. ASSUME NEW i \in 1..n PROVE parts[i] = "image" <=> blocks[Len(blocks) - n + i] = "image_url"
  <2>1. n # 0
    OBVIOUS
  <2>2. blocks = (IF prompt THEN <<"prompt">> ELSE <<>>) \o body
    BY <1>5, <1>6, <1>7, <1>11, <2>1 DEF BuildMessages
  <2>3. Len(blocks) = h + n /\ blocks[h + i] = body[i]
    <3>1. PICK lead : lead = IF prompt THEN <<"prompt">> ELSE <<>>
      OBVIOUS
    <3>2. lead \in Seq(Sorts) /\ Len(lead) = h
      BY <1>10, <1>12, <3>1
    <3>3. /\ lead \o body \in Seq(Sorts) /\ Len(lead \o body) = Len(lead) + Len(body)
          /\ \A j \in 1..Len(lead) : (lead \o body)[j] = lead[j]
          /\ \A j \in 1..Len(body) : (lead \o body)[Len(lead) + j] = body[j]
      <4>1. lead \in Seq(Sorts) /\ body \in Seq(Sorts)
        BY <1>9, <3>2
      <4> QED BY <4>1
    <3>4. blocks = lead \o body
      BY <2>2, <3>1
    <3> QED BY <1>9, <1>12, <3>2, <3>3, <3>4
  <2>4. Len(blocks) - n + i = h + i
    BY <1>12, <2>3
  <2> QED BY <1>9, <2>3, <2>4
<1> QED BY <1>1, <1>3, <1>4, <1>5, <1>6, <1>12, <1>13, <1>14 DEF MessageKept

\* What is searched for is the query and what the user said in the last three messages.
LEMMA RewrittenFrom ==
    ASSUME NEW M, NEW history \in Seq(M), NEW query, NEW x \in Range(RewriteQuery(query, history))
    PROVE  x = query \/ \E h \in DOMAIN history : /\ h > Len(history) - 3
                                                  /\ history[h].role = "user" /\ history[h].content = x
<1>1. PICK n \in Nat : n = Len(history) /\ DOMAIN history = 1..n
  BY ListHas
<1>2. PICK T \in SUBSET (DOMAIN history) :
         T = {i \in {j \in DOMAIN history : j > Len(history) - 3} :
                history[i].role = "user" /\ history[i].content # ""}
  OBVIOUS
<1>3. PICK top : top = Chosen(history, T)
  OBVIOUS
<1>4. PICK t \in Nat : t = Cardinality(T)
  BY ChosenListsAll
<1>5. top \in Seq(M) /\ DOMAIN top = 1..t /\ Range(top) = {history[i] : i \in T}
  BY <1>3, <1>4, ChosenListsAll
<1>6. Len(top) = t
  BY <1>5
<1>7. PICK last : last = SubSeq(top, Max({1, t - 1}), t)
  OBVIOUS
<1>8. /\ last \in Seq(M)
      /\ \A i \in 1..Len(last) : last[i] \in Range(top)
  <2>1. Max({1, t - 1}) = IF 1 >= t - 1 THEN 1 ELSE t - 1
    BY MaxOfTwo
  <2>2. PICK b \in Nat : b = Max({1, t - 1}) /\ b = IF t <= 2 THEN 1 ELSE t - 1
    BY <2>1
  <2>3. last = SubSeq(top, b, t)
    BY <1>7, <2>2
  <2>4. b \in 1..(t + 1)
    BY <2>2
  <2>5. last \in Seq(M) /\ Len(last) = IF b <= t THEN t - b + 1 ELSE 0
    BY <1>5, <1>6, <2>3, <2>4
  <2>6. \A i \in 1..t - b + 1 : last[i] = top[b + i - 1]
    BY <1>5, <1>6, <2>3, <2>4
  <2>7. ASSUME NEW i \in 1..Len(last) PROVE last[i] \in Range(top)
    <3>1. i \in 1..t - b + 1 /\ b + i - 1 \in 1..t
      BY <2>4, <2>5
    <3>2. top[b + i - 1] \in Range(top)
      BY <1>5, <3>1 DEF Range
    <3> QED BY <2>6, <3>1, <3>2
  <2> QED BY <2>5, <2>7
<1>9. PICK w : w = [i \in DOMAIN last |-> last[i].content]
  OBVIOUS
<1>10. RewriteQuery(query, history) = Append(w, query)
  <2>1. top = SaidBy(history, {i \in DOMAIN history : i > Len(history) - 3})
    BY <1>2, <1>3 DEF SaidBy
  <2>2. last = SubSeq(top, Max({1, Len(top) - 1}), Len(top))
    BY <1>6, <1>7
  <2> QED BY <1>9, <2>1, <2>2 DEF RewriteQuery
<1>11. PICK l \in Nat : l = Len(last) /\ DOMAIN last = 1..l
  BY <1>8
<1>12. PICK k \in DOMAIN RewriteQuery(query, history) : RewriteQuery(query, history)[k] = x
  BY DEF Range
<1>13. PICK A : A = {query} \union {last[i].content : i \in 1..l}
  OBVIOUS
<1>14. w \in Seq(A) /\ Len(w) = l
  <2>1. w \in [1..l -> A]
    BY <1>9, <1>11, <1>13
  <2> QED BY <2>1
<1>15. CASE k = l + 1
  <2>1. Append(w, query)[l + 1] = query
    BY <1>13, <1>14
  <2> QED BY <1>10, <1>12, <1>15, <2>1
<1>16. CASE k # l + 1
  <2>1. k \in 1..l
    <3>1. DOMAIN Append(w, query) = 1..(l + 1)
      BY <1>13, <1>14
    <3> QED BY <1>10, <1>12, <1>16, <3>1
  <2>2. Append(w, query)[k] = w[k]
    BY <1>13, <1>14, <2>1
  <2>3. x = last[k].content /\ last[k] \in Range(top)
    BY <1>8, <1>9, <1>10, <1>11, <1>12, <2>1, <2>2
  <2>4. PICK h \in T : last[k] = history[h]
    BY <1>5, <2>3
  <2> QED BY <1>2, <2>3, <2>4
<1> QED BY <1>15, <1>16

(* Of a long history the model reads an unbroken end, after the system prompt and before
   the message; and whatever was searched for is among what it reads (_build_llm_messages,
   _rewrite_query). *)
THEOREM EveryPromptHolds ==
    ASSUME NEW Roles, NEW Contents, NEW history \in Seq(Spoken(Roles, Contents)), NEW system \in Contents,
           {"user", "system"} \subseteq Roles, "query" \in Contents
    PROVE  PromptHolds(history, system, BuildPrompt(system, history, "query"))
<1>1. PICK M : M = Spoken(Roles, Contents)
  OBVIOUS
<1>2. PICK msg, sys : msg = [role |-> "user", content |-> "query"] /\ sys = [role |-> "system", content |-> system]
  OBVIOUS
<1>3. msg \in M /\ sys \in M /\ history \in Seq(M)
  BY <1>1, <1>2 DEF Spoken
<1>4. PICK n \in Nat : n = Len(history) /\ DOMAIN history = 1..n /\ \A i \in 1..n : history[i] \in M
  BY <1>3, ListHas
<1>5. PICK k \in 0..n : k = (IF n <= 10 THEN n ELSE 10)
  OBVIOUS
<1>6. PICK end : end = SubSeq(history, Max({1, n - 9}), n)
  OBVIOUS
<1>7. end \in Seq(M) /\ Len(end) = k /\ \A i \in 1..k : end[i] = history[n - k + i]
  <2>1. Max({1, n - 9}) = IF 1 >= n - 9 THEN 1 ELSE n - 9
    BY MaxOfTwo
  <2>2. PICK b \in Nat : b = Max({1, n - 9}) /\ b = IF n <= 10 THEN 1 ELSE n - 9
    BY <2>1
  <2>3. end = SubSeq(history, b, n)
    BY <1>6, <2>2
  <2>4. b \in 1..(n + 1) /\ n - b + 1 = k
    BY <1>5, <2>2
  <2>5. end \in Seq(M) /\ Len(end) = IF b <= n THEN n - b + 1 ELSE 0
    BY <1>3, <1>4, <2>3, <2>4
  <2>6. \A i \in 1..n - b + 1 : end[i] = history[b + i - 1]
    BY <1>3, <1>4, <2>3, <2>4
  <2>7. Len(end) = k
    BY <2>4, <2>5
  <2>8. \A i \in 1..k : b + i - 1 = n - k + i
    BY <2>4
  <2> QED BY <2>4, <2>5, <2>6, <2>7, <2>8
<1>8. PICK front : front = IF system = "" THEN <<>> ELSE <<sys>>
  OBVIOUS
<1>9. PICK s \in 0..1 : s = (IF system = "" THEN 0 ELSE 1)
  OBVIOUS
<1>10. front \in Seq(M) /\ Len(front) = s /\ (system # "" => front[1] = sys)
  <2>1. CASE system = ""
    <3>1. front = <<>> /\ s = 0
      BY <1>8, <1>9, <2>1
    <3>2. <<>> \in Seq(M) /\ Len(<<>>) = 0
      OBVIOUS
    <3>3. front \in Seq(M) /\ Len(front) = s
      BY <3>1, <3>2
    <3> QED BY <2>1, <3>3
  <2>2. CASE system # ""
    <3>1. front = <<sys>> /\ s = 1
      BY <1>8, <1>9, <2>2
    <3> QED BY <1>3, <3>1
  <2> QED BY <2>1, <2>2
<1>11. PICK prompt : prompt = front \o end \o <<msg>>
  OBVIOUS
<1>12. prompt = BuildPrompt(system, history, "query")
  <2>1. Len(history) - HistoryShown + 1 = n - 9
    BY <1>4 DEF HistoryShown
  <2> QED BY <1>2, <1>4, <1>6, <1>8, <1>11, <2>1 DEF BuildPrompt
<1>13. PICK both : both = front \o end
  OBVIOUS
<1>14. /\ both \in Seq(M) /\ Len(both) = s + k
       /\ \A i \in 1..s : both[i] = front[i]
       /\ \A i \in 1..k : both[s + i] = end[i]
  <2>1. /\ front \o end \in Seq(M) /\ Len(front \o end) = Len(front) + Len(end)
        /\ \A i \in 1..Len(front) : (front \o end)[i] = front[i]
        /\ \A i \in 1..Len(end) : (front \o end)[Len(front) + i] = end[i]
    <3>1. front \in Seq(M) /\ end \in Seq(M)
      BY <1>7, <1>10
    <3> QED BY <3>1
  <2> QED BY <1>7, <1>10, <1>13, <2>1
<1>15. /\ prompt \in Seq(M) /\ Len(prompt) = s + k + 1 /\ prompt[s + k + 1] = msg
       /\ \A i \in 1..s + k : prompt[i] = both[i]
  <2>1. prompt = both \o <<msg>> /\ <<msg>> \in Seq(M) /\ Len(<<msg>>) = 1 /\ <<msg>>[1] = msg
    BY <1>3, <1>11, <1>13
  <2>2. /\ both \o <<msg>> \in Seq(M) /\ Len(both \o <<msg>>) = Len(both) + Len(<<msg>>)
        /\ \A i \in 1..Len(both) : (both \o <<msg>>)[i] = both[i]
        /\ \A i \in 1..Len(<<msg>>) : (both \o <<msg>>)[Len(both) + i] = <<msg>>[i]
    <3>1. both \in Seq(M) /\ <<msg>> \in Seq(M)
      BY <1>14, <2>1
    <3> QED BY <3>1
  <2>3. (both \o <<msg>>)[Len(both) + 1] = msg
    BY <2>1, <2>2
  <2> QED BY <1>14, <2>1, <2>2, <2>3
<1>16. Last(prompt) = msg
  BY <1>15 DEF Last
<1>17. system # "" => Head(prompt).role = "system"
  <2>1. ASSUME system # "" PROVE Head(prompt).role = "system"
    <3>1. s = 1 /\ prompt[1] = sys
      <4>1. s = 1 /\ front[1] = sys
        BY <1>9, <1>10, <2>1
      <4>2. 1 \in 1..s /\ 1 \in 1..s + k
        BY <1>5, <4>1
      <4> QED BY <1>14, <1>15, <4>1, <4>2
    <3>2. Head(prompt) = prompt[1]
      BY <1>15
    <3> QED BY <1>2, <3>1, <3>2
  <2> QED BY <2>1
<1>18. PICK told : told = IF system = "" THEN prompt ELSE Tail(prompt)
  OBVIOUS
<1>19. told \in Seq(M) /\ Len(told) = k + 1 /\ \A i \in 1..k : told[i] = prompt[s + i]
  <2>1. CASE system = ""
    <3>1. s = 0 /\ told = prompt
      BY <1>9, <1>18, <2>1
    <3>2. told \in Seq(M) /\ Len(told) = k + 1
      BY <1>15, <3>1
    <3>3. \A i \in 1..k : s + i = i
      BY <3>1
    <3> QED BY <3>1, <3>2, <3>3
  <2>2. CASE system # ""
    <3>1. s = 1 /\ told = Tail(prompt) 
      BY <1>9, <1>18, <2>2
    <3>2. prompt \in Seq(M) /\ Len(prompt) = k + 2 /\ prompt # <<>>
      <4>1. prompt \in Seq(M) /\ Len(prompt) = k + 2
        BY <1>15, <3>1
      <4>2. Len(prompt) # 0
        BY <4>1
      <4> QED BY <4>1, <4>2
    <3>3. /\ Tail(prompt) \in Seq(M) /\ Len(Tail(prompt)) = Len(prompt) - 1
          /\ \A i \in 1..(Len(prompt) - 1) : Tail(prompt)[i] = prompt[i + 1]
      BY <3>2
    <3>4. told \in Seq(M) /\ Len(told) = k + 1 /\ \A i \in 1..k : told[i] = prompt[i + 1]
      BY <3>1, <3>2, <3>3
    <3>5. \A i \in 1..k : s + i = i + 1
      BY <3>1
    <3> QED BY <3>4, <3>5
  <2> QED BY <2>1, <2>2
<1>20. Len(told) = Min({n, HistoryShown}) + 1
  <2>1. Min({n, 10}) = IF n <= 10 THEN n ELSE 10
    BY MinOfTwo
  <2> QED BY <1>5, <1>19, <2>1 DEF HistoryShown
<1>21. \A i \in 1..k : told[i] = history[n - k + i]
  <2>1. ASSUME NEW i \in 1..k PROVE told[i] = history[n - k + i]
    <3>1. s + i \in 1..s + k
      OBVIOUS
    <3>2. told[i] = prompt[s + i] /\ prompt[s + i] = both[s + i]
      BY <1>15, <1>19, <3>1
    <3>3. both[s + i] = end[i] /\ end[i] = history[n - k + i]
      BY <1>7, <1>14
    <3> QED BY <3>2, <3>3
  <2> QED BY <2>1
<1>22. Len(Front(told)) = k /\ DOMAIN Front(told) = 1..k
  <2>1. Front(told) = SubSeq(told, 1, k)
    BY <1>19 DEF Front
  <2>2. SubSeq(told, 1, k) \in Seq(M) /\ Len(SubSeq(told, 1, k)) = k
    BY <1>19
  <2> QED BY <2>1, <2>2
<1>23. ASSUME NEW x \in Range(RewriteQuery("query", history))
       PROVE  \E e \in Range(prompt) : e.role = "user" /\ e.content = x
  <2>1. CASE x = "query"
    <3>1. msg \in Range(prompt)
      <4>1. s + k + 1 \in DOMAIN prompt
        BY <1>15
      <4> QED BY <1>15, <4>1 DEF Range
    <3> QED BY <1>2, <2>1, <3>1
  <2>2. CASE \E h \in DOMAIN history : /\ h > Len(history) - 3
                                       /\ history[h].role = "user" /\ history[h].content = x
    <3>1. PICK h \in 1..n : h > n - 3 /\ history[h].role = "user" /\ history[h].content = x
      BY <1>4, <2>2
    <3>2. PICK i \in 1..k : i = h - (n - k)
      BY <1>5, <3>1, SMTT(30)
    <3>3. n - k + i = h
      BY <3>2
    <3>4. s + i \in DOMAIN prompt /\ s + i \in 1..s + k
      BY <1>15
    <3>5. prompt[s + i] = history[h]
      <4>1. prompt[s + i] = both[s + i] /\ both[s + i] = end[i] /\ end[i] = history[n - k + i]
        BY <1>7, <1>14, <1>15, <3>4
      <4> QED BY <3>3, <4>1
    <3> QED BY <3>1, <3>4, <3>5 DEF Range
  <2> QED BY <1>3, <2>1, <2>2, RewrittenFrom
<1>24. Range(RewriteQuery("query", history)) \subseteq
         {m.content : m \in {e \in Range(prompt) : e.role = "user"}}
  BY <1>23
<1> QED BY <1>2, <1>4, <1>12, <1>16, <1>17, <1>18, <1>20, <1>21, <1>22, <1>24 DEF PromptHolds

-----------------------------------------------------------------------------
(* Markup                                                                  *)

Follows(f, A, B) == /\ f \in [A -> B]
                    /\ \A b \in B : \E a \in A : f[a] = b
                    /\ \A a, c \in A : a < c => f[a] < f[c]

\* Places that follow each other as others do are counted as they are.
LEMMA NthFollows ==
    ASSUME NEW A \in SUBSET Nat, NEW B \in SUBSET Nat, IsFiniteSet(A), NEW f, Follows(f, A, B)
    PROVE  /\ IsFiniteSet(B) /\ Cardinality(B) = Cardinality(A)
           /\ \A k \in 1..Cardinality(A) : Nth(B, k) = f[Nth(A, k)]
<1>1. /\ f \in [A -> B] /\ \A b \in B : \E a \in A : f[a] = b
      /\ \A a, c \in A : a < c => f[a] < f[c]
  BY DEF Follows
<1>2. ASSUME NEW a \in A, NEW c \in A PROVE (f[a] = f[c] => a = c) /\ (f[a] < f[c] => a < c)
  <2>1. a \in Nat /\ c \in Nat /\ f[a] \in Nat /\ f[c] \in Nat
    BY <1>1
  <2>2. a < c \/ c < a \/ a = c
    BY <2>1
  <2>3. (a < c => f[a] < f[c]) /\ (c < a => f[c] < f[a])
    BY <1>1
  <2> QED BY <2>1, <2>2, <2>3
<1>3. ASSUME NEW P \in SUBSET A, NEW Q \in SUBSET B, Q = {f[a] : a \in P}
      PROVE  IsFiniteSet(Q) /\ Cardinality(Q) = Cardinality(P)
  <2>1. PICK g : g = [a \in P |-> f[a]]
    OBVIOUS
  <2>2. g \in Bijection(P, Q)
    <3>1. \A a, c \in P : g[a] = g[c] => a = c
      BY <1>2, <2>1
    <3> QED BY <1>3, <2>1, <3>1 DEF Bijection, Injection, Surjection, IsInjective
  <2>3. IsFiniteSet(P)
    BY FS_Subset
  <2>4. ExistsBijection(P, Q)
    BY <2>2 DEF ExistsBijection
  <2> QED BY <2>3, <2>4, FS_Bijection
<1>4. B = {f[a] : a \in A}
  BY <1>1
<1>5. IsFiniteSet(B) /\ Cardinality(B) = Cardinality(A)
  BY <1>3, <1>4
<1>6. ASSUME NEW k \in 1..Cardinality(A) PROVE Nth(B, k) = f[Nth(A, k)]
  <2>1. PICK e \in A : e = Nth(A, k) /\ Cardinality(Below(A, e)) = k - 1
    BY NthIsNth
  <2>2. f[e] \in B
    BY <1>1
  <2>3. Below(B, f[e]) = {f[a] : a \in Below(A, e)}
    BY <1>1, <1>2, <1>4 DEF Below
  <2>4. Below(A, e) \in SUBSET A /\ Below(B, f[e]) \in SUBSET B
    BY DEF Below
  <2>5. Cardinality(Below(B, f[e])) = k - 1
    BY <1>3, <2>1, <2>3, <2>4
  <2>6. PICK j \in 1..Cardinality(B) : j = Cardinality(Below(B, f[e])) + 1 /\ Nth(B, j) = f[e]
    BY <1>5, <2>2, NthIsNth
  <2>7. j = k
    BY <2>5, <2>6
  <2> QED BY <2>1, <2>6, <2>7
<1> QED BY <1>5, <1>6

\* What is chosen at places that follow each other alike is the same.
LEMMA ChosenFollows ==
    ASSUME NEW list, NEW other, NEW A \in SUBSET Nat, NEW B \in SUBSET Nat, IsFiniteSet(A),
           NEW f, Follows(f, A, B), \A a \in A : list[a] = other[f[a]]
    PROVE  Chosen(list, A) = Chosen(other, B)
<1>1. /\ Cardinality(B) = Cardinality(A)
      /\ \A k \in 1..Cardinality(A) : Nth(B, k) = f[Nth(A, k)]
  BY NthFollows
<1>2. \A k \in 1..Cardinality(A) : Nth(A, k) \in A
  BY NthIsNth
<1>3. \A k \in 1..Cardinality(A) : list[Nth(A, k)] = other[Nth(B, k)]
  BY <1>1, <1>2
<1> QED BY <1>1, <1>3 DEF Chosen

\* All of a list is the list.
LEMMA ChosenAll ==
    ASSUME NEW T, NEW list \in Seq(T)
    PROVE  Chosen(list, DOMAIN list) = list
<1>1. PICK n \in Nat : n = Len(list) /\ DOMAIN list = 1..n
  BY ListHas
<1>2. IsFiniteSet(1..n) /\ Cardinality(1..n) = n /\ (1..n) \in SUBSET Nat
  BY FS_Interval
<1>3. ASSUME NEW k \in 1..n PROVE Nth(1..n, k) = k
  <2>1. PICK e \in 1..n : e = Nth(1..n, k) /\ Cardinality(Below(1..n, e)) = k - 1
    BY <1>2, NthIsNth
  <2>2. Below(1..n, e) = 1..(e - 1)
    BY DEF Below
  <2>3. Cardinality(1..(e - 1)) = e - 1
    <3>1. Cardinality(1..(e - 1)) = IF 1 > e - 1 THEN 0 ELSE (e - 1) - 1 + 1
      BY FS_Interval
    <3> QED BY <3>1
  <2>4. e = k
    BY <2>1, <2>2, <2>3
  <2> QED BY <2>1, <2>4
<1>4. Chosen(list, 1..n) = [k \in 1..n |-> list[k]]
  BY <1>2, <1>3 DEF Chosen
<1>5. list = [k \in 1..n |-> list[k]]
  BY <1>1
<1> QED BY <1>1, <1>4, <1>5

\* What is stripped has no tag left, and stripping twice changes nothing.
LEMMA StrippedClean ==
    ASSUME NEW T, NEW text \in Seq(T)
    PROVE  /\ \A i, j \in DOMAIN StripTags(text) :
                StripTags(text)[i] = "<" /\ StripTags(text)[j] = ">" => j < i
           /\ StripTags(StripTags(text)) = StripTags(text)
<1>1. PICK n \in Nat : n = Len(text) /\ DOMAIN text = 1..n
  BY ListHas
<1>2. PICK S \in SUBSET DOMAIN text : S = {i \in DOMAIN text : ~InTag(text, i)}
  OBVIOUS
<1>3. PICK out : out = Chosen(text, S)
  OBVIOUS
<1>4. PICK m \in Nat : m = Cardinality(S)
  BY ChosenListsAll
<1>5. /\ S \in SUBSET Nat /\ IsFiniteSet(S) /\ out \in Seq(T) /\ DOMAIN out = 1..m
      /\ \A k \in 1..m : out[k] = text[Nth(S, k)]
  BY <1>3, <1>4, ChosenListsAll
<1>6. /\ \A k \in 1..m : Nth(S, k) \in S
      /\ \A j, k \in 1..m : j < k <=> Nth(S, j) < Nth(S, k)
  BY <1>4, <1>5, NthIsNth
<1>7. ASSUME NEW i \in 1..m, NEW j \in 1..m, out[i] = "<", out[j] = ">", ~(j < i) PROVE FALSE
  <2>1. i # j
    <3>1. "<" # ">"
      OBVIOUS
    <3> QED BY <1>7, <3>1
  <2>2. PICK p \in S, q \in S : p = Nth(S, i) /\ q = Nth(S, j)
    BY <1>6
  <2>3. p < q /\ text[p] = "<" /\ text[q] = ">" /\ p \in 1..n /\ q \in 1..n
    BY <1>1, <1>5, <1>6, <1>7, <2>1, <2>2
  <2>4. PICK Ends : Ends = {e \in 1..n : p < e /\ text[e] = ">"}
    OBVIOUS
  <2>5. Ends \in SUBSET Nat /\ Ends # {}
    BY <2>3, <2>4
  <2>6. PICK e \in Ends : \A f \in Ends : e <= f
    BY <2>5, SmallestOf
  <2>7. e \in p..n /\ text[e] = ">" /\ \A f \in (p + 1)..(e - 1) : text[f] # ">"
    BY <2>3, <2>4, <2>6
  <2>8. InTag(text, p)
    BY <1>1, <2>3, <2>7 DEF InTag
  <2> QED BY <1>2, <2>2, <2>8
<1>8. out = StripTags(text)
  BY <1>2, <1>3 DEF StripTags
<1>9. ASSUME NEW i \in 1..m, InTag(out, i) PROVE FALSE
  <2>1. Len(out) = m
    BY <1>5
  <2>2. PICK from \in 1..i, to \in i..m : out[from] = "<" /\ out[to] = ">"
    BY <1>9, <2>1 DEF InTag
  <2> QED BY <1>7, <2>2
<1>10. {i \in DOMAIN out : ~InTag(out, i)} = DOMAIN out
  BY <1>5, <1>9
<1>11. StripTags(out) = out
  BY <1>5, <1>10, ChosenAll DEF StripTags
<1> QED BY <1>5, <1>7, <1>8, <1>11

\* How a text with one character replaced lies beside the text: "of" says which character
\* each of its characters comes from.
Lays(text, char, entity, out, N, of) ==
    LET l == Len(text) IN
    /\ Len(out) = N /\ DOMAIN out = 1..N /\ of \in [1..N -> 1..l]
    /\ \A n, m \in 1..N : n < m => of[n] <= of[m] /\ (of[n] = of[m] => out[n] = "&" /\ text[of[n]] = char)
    /\ \A n \in 1..N : text[of[n]] # char =>
         /\ out[n] = text[of[n]]
         /\ of[n] > 1 => /\ n > 1 /\ of[n - 1] = of[n] - 1
                         /\ out[n - 1] = IF text[of[n] - 1] = char THEN entity ELSE text[of[n] - 1]
         /\ n > 1 => of[n] > 1
    /\ \A n \in 1..N : text[of[n]] = char =>
         \/ out[n] = "&" /\ n < N /\ out[n + 1] = entity
         \/ out[n] = entity /\ n > 1 /\ out[n - 1] = "&"
    /\ \A i \in 1..l : \E n \in 1..N : of[n] = i /\ out[n] = IF text[i] = char THEN entity ELSE text[i]

\* The places of the characters and of the entities behind them.
LEMMA Doubled ==
    ASSUME NEW l \in Nat, NEW k \in 1..(2 * l)
    PROVE  \E i \in 1..l : \/ k = 2 * i - 1 /\ k % 2 # 0 /\ (k + 1) \div 2 = i
                           \/ k = 2 * i /\ k % 2 = 0 /\ k \div 2 = i
OBVIOUS

\* Whether a place is that of a character or of the entity behind it.
LEMMA Places2 ==
    ASSUME NEW l \in Nat, NEW i \in 1..l
    PROVE  /\ 2 * i - 1 \in 1..(2 * l) /\ (2 * i - 1) % 2 # 0 /\ ((2 * i - 1) + 1) \div 2 = i
           /\ 2 * i \in 1..(2 * l) /\ (2 * i) % 2 = 0 /\ (2 * i) \div 2 = i
OBVIOUS

\* The place before another among some places.
LEMMA NthBefore ==
    ASSUME NEW S \in SUBSET Nat, IsFiniteSet(S), NEW n \in 1..Cardinality(S), NEW e \in S,
           e < Nth(S, n), \A d \in S : ~(e < d /\ d < Nth(S, n))
    PROVE  n > 1 /\ n - 1 \in 1..Cardinality(S) /\ Nth(S, n - 1) = e
<1>1. PICK c \in Nat : c = Cardinality(S)
  BY FS_CardinalityType
<1>2. /\ \A k \in 1..c : Nth(S, k) \in S
      /\ \A d \in S : \E k \in 1..c : Nth(S, k) = d
      /\ \A j, k \in 1..c : j < k <=> Nth(S, j) < Nth(S, k)
  BY <1>1, NthIsNth
<1>3. PICK j \in 1..c : Nth(S, j) = e
  BY <1>2
<1>4. n \in 1..c /\ j < n
  BY <1>1, <1>2, <1>3
<1>5. n - 1 \in 1..c
  BY <1>4
<1>6. ~(j < n - 1)
  <2>1. n - 1 < n
    BY <1>4
  <2>2. Nth(S, n - 1) < Nth(S, n) /\ Nth(S, n - 1) \in S
    BY <1>2, <1>4, <1>5, <2>1
  <2>3. ~(e < Nth(S, n - 1))
    BY <2>2
  <2> QED BY <1>2, <1>3, <1>5, <2>3
<1>7. j = n - 1
  BY <1>4, <1>6
<1> QED BY <1>1, <1>3, <1>5, <1>7

\* A replacement lays out the text with the entities between, in order.
LEMMA ReplaceLays ==
    ASSUME NEW T, NEW text \in Seq(T), NEW char, NEW entity
    PROVE  /\ \E N \in Nat : \E of : Lays(text, char, entity, Replace(text, char, entity), N, of)
           /\ Replace(text, char, entity) \in Seq(T \union {"&", entity})
<1>1. PICK l \in Nat : l = Len(text) /\ DOMAIN text = 1..l /\ \A i \in 1..l : text[i] \in T
  BY ListHas
<1>2. PICK W : W = T \union {"&", entity}
  OBVIOUS
<1>3. PICK spaced : spaced = Spaced(text, char, entity)
  OBVIOUS
<1>4. PICK S : S = {k \in 1..(2 * l) : k % 2 = 0 => text[k \div 2] = char}
  OBVIOUS
<1>5. PICK L \in Nat : L = 2 * l
  OBVIOUS
<1>6. /\ DOMAIN spaced = 1..L
      /\ \A i \in 1..l : /\ spaced[2 * i - 1] = IF text[i] = char THEN "&" ELSE text[i]
                         /\ spaced[2 * i] = entity
                         /\ 2 * i - 1 \in S
                         /\ 2 * i \in S <=> text[i] = char
  <2>1. spaced = [k \in 1..(2 * l) |-> IF k % 2 = 0 THEN entity
                       ELSE IF text[(k + 1) \div 2] = char THEN "&" ELSE text[(k + 1) \div 2]]
    BY <1>1, <1>3 DEF Spaced
  <2>2. ASSUME NEW i \in 1..l
        PROVE  /\ spaced[2 * i - 1] = IF text[i] = char THEN "&" ELSE text[i]
               /\ spaced[2 * i] = entity
               /\ 2 * i - 1 \in S
               /\ 2 * i \in S <=> text[i] = char
    <3>1. PICK j, k \in 1..(2 * l) : /\ j = 2 * i - 1 /\ j % 2 # 0 /\ (j + 1) \div 2 = i
                                     /\ k = 2 * i /\ k % 2 = 0 /\ k \div 2 = i
      BY Places2
    <3>2. spaced[j] = IF text[i] = char THEN "&" ELSE text[i]
      BY <2>1, <3>1
    <3>3. spaced[k] = entity
      BY <2>1, <3>1
    <3>4. j \in S /\ (k \in S <=> text[i] = char)
      BY <1>4, <3>1
    <3> QED BY <3>1, <3>2, <3>3, <3>4
  <2> QED BY <1>5, <2>1, <2>2
<1>7. ASSUME NEW k \in S
      PROVE  \E i \in 1..l : k = 2 * i - 1 \/ (k = 2 * i /\ text[i] = char)
  <2>1. k \in 1..(2 * l)
    BY <1>4
  <2>2. PICK i \in 1..l : k = 2 * i - 1 \/ k = 2 * i
    BY <2>1, Doubled
  <2> QED BY <1>6, <2>2
<1>8. spaced \in Seq(W)
  <2>1. ASSUME NEW k \in 1..L PROVE spaced[k] \in W
    <3>1. PICK i \in 1..l : k = 2 * i - 1 \/ k = 2 * i
      BY <1>5, <2>1, Doubled
    <3> QED BY <1>1, <1>2, <1>6, <3>1
  <2>2. spaced \in [1..L -> W]
    <3>1. spaced = [k \in 1..L |-> spaced[k]]
      BY <1>3, <1>6 DEF Spaced
    <3> QED BY <2>1, <3>1
  <2> QED BY <2>2
<1>9. S \in SUBSET DOMAIN spaced
  BY <1>4, <1>5, <1>6
<1>10. PICK N \in Nat : N = Cardinality(S)
  BY <1>8, <1>9, ChosenListsAll
<1>11. PICK out : out = Chosen(spaced, S)
  OBVIOUS
<1>12. /\ S \in SUBSET Nat /\ IsFiniteSet(S) /\ out \in Seq(W) /\ DOMAIN out = 1..N
       /\ \A n \in 1..N : out[n] = spaced[Nth(S, n)]
  BY <1>8, <1>9, <1>10, <1>11, ChosenListsAll
<1>13. PICK at : at = [n \in 1..N |-> Nth(S, n)]
  OBVIOUS
<1>14. /\ \A n \in 1..N : at[n] \in S /\ at[n] \in Nat /\ out[n] = spaced[at[n]]
       /\ \A k \in S : \E n \in 1..N : at[n] = k
       /\ \A n, m \in 1..N : n < m <=> at[n] < at[m]
  <2>1. /\ \A n \in 1..N : Nth(S, n) \in S
        /\ \A k \in S : \E n \in 1..N : Nth(S, n) = k
        /\ \A n, m \in 1..N : n < m <=> Nth(S, n) < Nth(S, m)
    BY <1>10, <1>12, NthIsNth
  <2> QED BY <1>12, <1>13, <2>1
<1>15. ASSUME NEW n \in 1..N, NEW e \in S, e < at[n], \A d \in S : ~(e < d /\ d < at[n])
       PROVE  n > 1 /\ n - 1 \in 1..N /\ at[n - 1] = e
  <2>1. n > 1 /\ n - 1 \in 1..N /\ Nth(S, n - 1) = e
    <3>1. n \in 1..Cardinality(S) /\ e < Nth(S, n) /\ \A d \in S : ~(e < d /\ d < Nth(S, n))
      BY <1>10, <1>13, <1>15
    <3>2. n > 1 /\ n - 1 \in 1..Cardinality(S) /\ Nth(S, n - 1) = e
      BY <1>12, <3>1, NthBefore
    <3> QED BY <1>10, <3>2
  <2> QED BY <1>13, <2>1
<1>16. PICK of : of = [n \in 1..N |-> CHOOSE i \in 1..l : at[n] = 2 * i - 1 \/ (at[n] = 2 * i /\ text[i] = char)]
  OBVIOUS
<1>17. \A n \in 1..N : /\ of[n] \in 1..l
                       /\ at[n] = 2 * of[n] - 1 \/ (at[n] = 2 * of[n] /\ text[of[n]] = char)
  <2>1. ASSUME NEW n \in 1..N
        PROVE  /\ of[n] \in 1..l
               /\ at[n] = 2 * of[n] - 1 \/ (at[n] = 2 * of[n] /\ text[of[n]] = char)
    <3>1. \E i \in 1..l : at[n] = 2 * i - 1 \/ (at[n] = 2 * i /\ text[i] = char)
      BY <1>7, <1>14
    <3> QED BY <1>16, <3>1
  <2> QED BY <2>1
<1>18. ASSUME NEW n \in 1..N, NEW m \in 1..N, n < m
       PROVE  of[n] <= of[m] /\ (of[n] = of[m] => out[n] = "&" /\ text[of[n]] = char)
  <2>1. PICK i \in 1..l, j \in 1..l : i = of[n] /\ j = of[m]
    BY <1>17
  <2>2. at[n] < at[m]
    BY <1>14, <1>18
  <2>3. /\ at[n] = 2 * i - 1 \/ (at[n] = 2 * i /\ text[i] = char)
        /\ at[m] = 2 * j - 1 \/ (at[m] = 2 * j /\ text[j] = char)
    BY <1>17, <2>1
  <2>4. i <= j /\ (i = j => at[n] = 2 * i - 1 /\ at[m] = 2 * j /\ text[j] = char)
    BY <2>2, <2>3
  <2>5. i = j => out[n] = "&"
    BY <1>6, <1>14, <2>4, SMTT(30)
  <2> QED BY <2>1, <2>4, <2>5
<1>19. ASSUME NEW n \in 1..N, text[of[n]] # char
       PROVE  /\ out[n] = text[of[n]]
              /\ of[n] > 1 => /\ n > 1 /\ of[n - 1] = of[n] - 1
                              /\ out[n - 1] = IF text[of[n] - 1] = char THEN entity ELSE text[of[n] - 1]
              /\ n > 1 => of[n] > 1
  <2>1. PICK i \in 1..l : i = of[n] /\ at[n] = 2 * i - 1
    BY <1>17, <1>19
  <2>2. out[n] = text[i]
    BY <1>6, <1>14, <1>19, <2>1
  <2>3. ASSUME i > 1
        PROVE  /\ n > 1 /\ of[n - 1] = i - 1
               /\ out[n - 1] = IF text[i - 1] = char THEN entity ELSE text[i - 1]
    <3>1. PICK j \in 1..l : j = i - 1
      BY <2>3
    <3>2. PICK e \in S : e = IF text[j] = char THEN 2 * j ELSE 2 * j - 1
      BY <1>6
    <3>3. ASSUME NEW d \in S, e < d, d < at[n] PROVE FALSE
      <4>1. PICK h \in 1..l : d = 2 * h - 1 \/ (d = 2 * h /\ text[h] = char)
        BY <1>7
      <4>2. at[n] = 2 * j + 1 /\ 2 * j - 1 <= e
        <5>1. at[n] = 2 * i - 1 /\ j = i - 1
          BY <2>1, <3>1
        <5>2. 2 * j - 1 <= e
          BY <3>2
        <5>3. 2 * i - 1 = 2 * j + 1
          BY <5>1
        <5> QED BY <5>1, <5>2, <5>3
      <4>3. 2 * j - 1 < d /\ d < 2 * j + 1
        BY <1>12, <3>3, <4>2
      <4>4. d = 2 * j /\ h = j /\ text[j] = char
        BY <4>1, <4>3
      <4> QED BY <3>2, <3>3, <4>4
    <3>4. e < at[n]
      BY <2>1, <3>1, <3>2, SMTT(30)
    <3>5. n > 1 /\ n - 1 \in 1..N /\ at[n - 1] = e
      BY <1>15, <3>3, <3>4
    <3>6. PICK h \in 1..l : h = of[n - 1] /\ (e = 2 * h - 1 \/ e = 2 * h)
      BY <1>17, <3>5
    <3>7. h = j
      BY <3>2, <3>6
    <3>8. out[n - 1] = IF text[j] = char THEN entity ELSE text[j]
      <4>1. /\ spaced[2 * j - 1] = IF text[j] = char THEN "&" ELSE text[j]
            /\ spaced[2 * j] = entity
        BY <1>6
      <4>2. out[n - 1] = spaced[e]
        BY <1>14, <3>5
      <4> QED BY <3>2, <4>1, <4>2
    <3> QED BY <3>1, <3>5, <3>6, <3>7, <3>8
  <2>4. ASSUME n > 1 PROVE i > 1
    <3>1. n - 1 \in 1..N /\ n - 1 < n
      BY <2>4
    <3>2. at[n - 1] < at[n] /\ at[n - 1] \in S
      BY <1>14, <3>1
    <3>3. at[n - 1] \in 1..(2 * l)
      BY <1>4, <3>2
    <3> QED BY <2>1, <3>2, <3>3
  <2> QED BY <2>1, <2>2, <2>3, <2>4
<1>20. ASSUME NEW n \in 1..N, text[of[n]] = char
       PROVE  \/ out[n] = "&" /\ n < N /\ out[n + 1] = entity
              \/ out[n] = entity /\ n > 1 /\ out[n - 1] = "&"
  <2>1. PICK i \in 1..l : i = of[n]
    BY <1>17
  <2>2. text[i] = char /\ 2 * i \in S /\ 2 * i - 1 \in S
    BY <1>6, <1>20, <2>1
  <2>3. \A d \in S : ~(2 * i - 1 < d /\ d < 2 * i)
    BY <1>12
  <2>4. CASE at[n] = 2 * i - 1
    <3>1. PICK m \in 1..N : at[m] = 2 * i
      BY <1>14, <2>2
    <3>2. m > 1 /\ m - 1 \in 1..N /\ at[m - 1] = 2 * i - 1
      <4>1. 2 * i - 1 < at[m] /\ \A d \in S : ~(2 * i - 1 < d /\ d < at[m])
        BY <2>3, <3>1
      <4> QED BY <1>15, <2>2, <4>1
    <3>3. m - 1 = n
      <4>1. ~(m - 1 < n) /\ ~(n < m - 1)
        BY <1>14, <2>4, <3>2
      <4> QED BY <4>1
    <3>4. n < N /\ n + 1 = m
      BY <3>3
    <3>5. spaced[2 * i - 1] = "&" /\ spaced[2 * i] = entity
      BY <1>6, <2>2
    <3>6. out[n] = spaced[2 * i - 1]
      BY <1>14, <2>4
    <3>7. out[m] = spaced[2 * i]
      BY <1>14, <3>1
    <3> QED BY <3>4, <3>5, <3>6, <3>7
  <2>5. CASE at[n] = 2 * i
    <3>1. n > 1 /\ n - 1 \in 1..N /\ at[n - 1] = 2 * i - 1
      <4>1. 2 * i - 1 < at[n] /\ \A d \in S : ~(2 * i - 1 < d /\ d < at[n])
        BY <2>3, <2>5
      <4> QED BY <1>15, <2>2, <4>1
    <3>2. spaced[2 * i] = entity /\ spaced[2 * i - 1] = "&"
      BY <1>6, <2>2
    <3>3. out[n] = spaced[2 * i] /\ out[n - 1] = spaced[2 * i - 1]
      BY <1>14, <2>5, <3>1
    <3> QED BY <3>1, <3>2, <3>3
  <2> QED BY <1>17, <2>1, <2>4, <2>5
<1>21. ASSUME NEW i \in 1..l
       PROVE  \E n \in 1..N : of[n] = i /\ out[n] = IF text[i] = char THEN entity ELSE text[i]
  <2>1. PICK e \in S : e = IF text[i] = char THEN 2 * i ELSE 2 * i - 1
    BY <1>6
  <2>2. PICK n \in 1..N : at[n] = e
    BY <1>14
  <2>3. PICK h \in 1..l : h = of[n] /\ (e = 2 * h - 1 \/ e = 2 * h)
    BY <1>17, <2>2
  <2>4. h = i
    BY <2>1, <2>3
  <2>5. out[n] = IF text[i] = char THEN entity ELSE text[i]
    BY <1>6, <1>14, <2>1, <2>2, SMTT(30)
  <2> QED BY <2>3, <2>4, <2>5
<1>22. out = Replace(text, char, entity)
  BY <1>1, <1>3, <1>4, <1>11 DEF Replace
<1>23. Len(out) = N /\ DOMAIN out = 1..N /\ of \in [1..N -> 1..l]
  <2>1. Len(out) = N
    BY <1>12
  <2> QED BY <1>12, <1>16, <1>17, <2>1
<1>24. Lays(text, char, entity, out, N, of)
  BY <1>1, <1>18, <1>19, <1>20, <1>21, <1>23 DEF Lays
<1> QED BY <1>2, <1>12, <1>22, <1>24

Escaped(text) == \A i \in DOMAIN text : text[i] = "&" => i < Len(text) /\ text[i + 1] \in Entities

Decoded(text) ==
    [i \in DOMAIN text |-> IF i > 1 /\ text[i - 1] = "&" THEN Meant(text[i]) ELSE text[i]]
Said(text) == {i \in DOMAIN text : text[i] # "&"}

\* What is true of a replacement whatever it replaces: the character is gone, nothing but
\* the entity came, and behind every new "&" stands the entity.
LEMMA ReplaceHas ==
    ASSUME NEW T, NEW text \in Seq(T), NEW char, NEW entity, NEW N \in Nat, NEW of, NEW out,
           Lays(text, char, entity, out, N, of)
    PROVE  /\ Range(out) \subseteq (Range(text) \ {char}) \union {"&", entity}
           /\ \A n \in 1..N : text[of[n]] = char /\ out[n] = "&" /\ entity # "&" =>
                n < N /\ out[n + 1] = entity
<1>1. PICK l \in Nat : l = Len(text) /\ DOMAIN text = 1..l
  BY ListHas
<1>2. /\ Len(out) = N /\ DOMAIN out = 1..N /\ \A n \in 1..N : of[n] \in 1..l
      /\ \A n \in 1..N : text[of[n]] # char => out[n] = text[of[n]]
      /\ \A n \in 1..N : text[of[n]] = char =>
           \/ out[n] = "&" /\ n < N /\ out[n + 1] = entity
           \/ out[n] = entity /\ n > 1 /\ out[n - 1] = "&"
  BY <1>1 DEF Lays
<1>3. ASSUME NEW n \in 1..N PROVE out[n] \in (Range(text) \ {char}) \union {"&", entity}
  <2>1. text[of[n]] \in Range(text)
    BY <1>1, <1>2 DEF Range
  <2> QED BY <1>2, <2>1
<1>4. Range(out) \subseteq (Range(text) \ {char}) \union {"&", entity}
  BY <1>2, <1>3 DEF Range
<1> QED BY <1>2, <1>4

Sources(text, char) == IF char = "&" THEN DOMAIN text ELSE Said(text)
FollowsFrom(f, out, of, B) ==
    /\ f = [n \in Said(out) |-> of[n]] /\ Follows(f, Said(out), B)
    /\ Said(out) \in SUBSET Nat /\ IsFiniteSet(Said(out)) /\ B \in SUBSET Nat

\* Where what is said in a text with a replacement comes from.
LEMMA ReplaceFollows ==
    ASSUME NEW T, NEW text \in Seq(T), NEW char, NEW entity, entity # "&", NEW N \in Nat, NEW of, NEW out,
           Lays(text, char, entity, out, N, of)
    PROVE  \E f : FollowsFrom(f, out, of, Sources(text, char))
<1>1. PICK l \in Nat : l = Len(text) /\ DOMAIN text = 1..l
  BY ListHas
<1>2. /\ DOMAIN out = 1..N /\ \A n \in 1..N : of[n] \in 1..l
      /\ \A n, m \in 1..N : n < m => of[n] <= of[m] /\ (of[n] = of[m] => out[n] = "&")
      /\ \A n \in 1..N : text[of[n]] # char => out[n] = text[of[n]]
      /\ \A i \in 1..l : \E n \in 1..N : of[n] = i /\ out[n] = IF text[i] = char THEN entity ELSE text[i]
  BY <1>1 DEF Lays
<1>3. PICK A : A = Said(out)
  OBVIOUS
<1>13. PICK B : B = Sources(text, char)
  OBVIOUS
<1>4. A = {n \in 1..N : out[n] # "&"}
  BY <1>2, <1>3 DEF Said
<1>5. \A i : i \in B <=> i \in 1..l /\ (text[i] = "&" => char = "&")
  BY <1>1, <1>13 DEF Said, Sources
<1>6. PICK f : f = [n \in A |-> of[n]]
  OBVIOUS
<1>7. ASSUME NEW n \in A PROVE f[n] \in B
  <2>1. of[n] \in 1..l /\ out[n] # "&" /\ n \in 1..N
    BY <1>2, <1>4
  <2>2. text[of[n]] = "&" => char = "&"
    BY <1>2, <2>1
  <2> QED BY <1>5, <1>6, <2>1, <2>2
<1>8. ASSUME NEW i \in B PROVE \E n \in A : f[n] = i
  <2>1. i \in 1..l /\ (text[i] = "&" => char = "&")
    BY <1>5
  <2>2. PICK n \in 1..N : of[n] = i /\ out[n] = IF text[i] = char THEN entity ELSE text[i]
    BY <1>2, <2>1
  <2>3. out[n] # "&"
    BY <2>1, <2>2
  <2> QED BY <1>4, <1>6, <2>2, <2>3
<1>9. ASSUME NEW n \in A, NEW m \in A, n < m PROVE f[n] < f[m]
  <2>1. n \in 1..N /\ m \in 1..N /\ out[n] # "&"
    BY <1>4
  <2>2. of[n] <= of[m] /\ of[n] # of[m] /\ of[n] \in 1..l /\ of[m] \in 1..l
    BY <1>2, <1>9, <2>1
  <2> QED BY <1>6, <2>2
<1>10. Follows(f, A, B)
  BY <1>6, <1>7, <1>8, <1>9 DEF Follows
<1>11. A \in SUBSET Nat /\ B \in SUBSET Nat
  BY <1>4, <1>5
<1>12. IsFiniteSet(A)
  <2>1. A \in SUBSET (1..N) /\ IsFiniteSet(1..N)
    BY <1>4, FS_Interval
  <2> QED BY <2>1, FS_Subset
<1>14. FollowsFrom(f, out, of, B)
  BY <1>3, <1>6, <1>10, <1>11, <1>12 DEF FollowsFrom
<1> QED BY <1>13, <1>14

LEMMA NoEntity == "&" \notin Entities
BY DEF Entities

\* The first replacement: what is read back is the text.
LEMMA AmpersandEscaped ==
    ASSUME NEW T, NEW text \in Seq(T), NEW entity \in Entities, Meant(entity) = "&"
    PROVE  /\ Escaped(Replace(text, "&", entity))
           /\ Unescaped(Replace(text, "&", entity)) = text
<1>1. PICK l \in Nat : l = Len(text) /\ DOMAIN text = 1..l
  BY ListHas
<1>2. PICK out : out = Replace(text, "&", entity)
  OBVIOUS
<1>3. PICK N \in Nat : \E of : Lays(text, "&", entity, out, N, of)
  BY <1>2, ReplaceLays
<1>4. PICK of : Lays(text, "&", entity, out, N, of)
  BY <1>3
<1>5. /\ Len(out) = N /\ DOMAIN out = 1..N /\ \A n \in 1..N : of[n] \in 1..l
      /\ \A n \in 1..N : text[of[n]] # "&" =>
           /\ out[n] = text[of[n]]
           /\ of[n] > 1 => /\ n > 1
                           /\ out[n - 1] = IF text[of[n] - 1] = "&" THEN entity ELSE text[of[n] - 1]
           /\ n > 1 => of[n] > 1
      /\ \A n \in 1..N : text[of[n]] = "&" =>
           \/ out[n] = "&" /\ n < N /\ out[n + 1] = entity
           \/ out[n] = entity /\ n > 1 /\ out[n - 1] = "&"
  BY <1>1, <1>4 DEF Lays
<1>6. entity # "&"
  BY NoEntity
<1>7. Escaped(out)
  BY <1>5, <1>6 DEF Escaped
<1>8. PICK f : /\ f = [n \in Said(out) |-> of[n]] /\ Follows(f, Said(out), DOMAIN text)
               /\ Said(out) \in SUBSET Nat /\ IsFiniteSet(Said(out)) /\ DOMAIN text \in SUBSET Nat
  <2>1. PICK g : FollowsFrom(g, out, of, Sources(text, "&"))
    BY <1>4, <1>6, ReplaceFollows
  <2>2. Sources(text, "&") = DOMAIN text
    BY DEF Sources
  <2> QED BY <2>1, <2>2 DEF FollowsFrom
<1>9. ASSUME NEW n \in Said(out) PROVE Decoded(out)[n] = text[f[n]]
  <2>1. n \in 1..N /\ out[n] # "&" /\ f[n] = of[n]
    BY <1>5, <1>8 DEF Said
  <2>2. Decoded(out)[n] = IF n > 1 /\ out[n - 1] = "&" THEN Meant(out[n]) ELSE out[n]
    BY <1>5, <2>1 DEF Decoded
  <2>3. CASE text[of[n]] = "&"
    BY <1>5, <2>1, <2>2, <2>3
  <2>4. CASE text[of[n]] # "&"
    <3>1. n > 1 => out[n - 1] # "&"
      BY <1>5, <1>6, <2>1, <2>4
    <3> QED BY <1>5, <2>1, <2>2, <2>4, <3>1
  <2> QED BY <2>3, <2>4
<1>10. Chosen(Decoded(out), Said(out)) = Chosen(text, DOMAIN text)
  BY <1>8, <1>9, ChosenFollows
<1>11. Chosen(text, DOMAIN text) = text
  BY ChosenAll
<1>12. Unescaped(out) = text
  BY <1>10, <1>11 DEF Unescaped, Decoded, Said
<1> QED BY <1>2, <1>7, <1>12

\* The others: what is read back is what was read back before.
LEMMA CharacterEscaped ==
    ASSUME NEW T, NEW text \in Seq(T), Escaped(text), NEW char, char # "&", char \notin Entities,
           NEW entity \in Entities, Meant(entity) = char
    PROVE  /\ Escaped(Replace(text, char, entity))
           /\ Unescaped(Replace(text, char, entity)) = Unescaped(text)
<1>1. PICK l \in Nat : l = Len(text) /\ DOMAIN text = 1..l
  BY ListHas
<1>2. PICK out : out = Replace(text, char, entity)
  OBVIOUS
<1>3. PICK N \in Nat : \E of : Lays(text, char, entity, out, N, of)
  BY <1>2, ReplaceLays
<1>4. PICK of : Lays(text, char, entity, out, N, of)
  BY <1>3
<1>5. /\ Len(out) = N /\ DOMAIN out = 1..N /\ \A n \in 1..N : of[n] \in 1..l
      /\ \A n \in 1..N : text[of[n]] # char =>
           /\ out[n] = text[of[n]]
           /\ of[n] > 1 => /\ n > 1 /\ of[n - 1] = of[n] - 1
                           /\ out[n - 1] = IF text[of[n] - 1] = char THEN entity ELSE text[of[n] - 1]
           /\ n > 1 => of[n] > 1
      /\ \A n \in 1..N : text[of[n]] = char =>
           \/ out[n] = "&" /\ n < N /\ out[n + 1] = entity
           \/ out[n] = entity /\ n > 1 /\ out[n - 1] = "&"
  BY <1>1, <1>4 DEF Lays
<1>6. /\ \A n, m \in 1..N : n < m => of[n] <= of[m] /\ (of[n] = of[m] => text[of[n]] = char)
      /\ \A i \in 1..l : \E n \in 1..N : of[n] = i
  BY <1>1, <1>4 DEF Lays
<1>7. entity # "&"
  BY NoEntity
<1>8. \A i \in 1..l : text[i] = "&" => i < l /\ text[i + 1] \in Entities
  BY <1>1 DEF Escaped
<1>9. ASSUME NEW n \in 1..N, out[n] = "&" PROVE n < N /\ out[n + 1] \in Entities
  <2>1. CASE text[of[n]] = char
    BY <1>5, <1>7, <1>9, <2>1
  <2>2. CASE text[of[n]] # char
    <3>1. PICK i \in 1..l : i = of[n] /\ text[i] = "&"
      BY <1>5, <1>9, <2>2
    <3>2. i + 1 \in 1..l /\ text[i + 1] \in Entities
      BY <1>8, <3>1
    <3>3. PICK m \in 1..N : of[m] = i + 1
      BY <1>6, <3>2
    <3>4. text[of[m]] # char /\ of[m] > 1
      BY <3>2, <3>3
    <3>5. out[m] = text[i + 1] /\ m > 1 /\ of[m - 1] = i
      BY <1>5, <3>3, <3>4
    <3>6. m - 1 \in 1..N
      BY <3>5
    <3>7. m - 1 = n
      <4>1. ~(m - 1 < n)
        BY <1>6, <2>2, <3>1, <3>5, <3>6
      <4>2. ~(n < m - 1)
        BY <1>6, <2>2, <3>1, <3>5, <3>6
      <4> QED BY <3>6, <4>1, <4>2
    <3>8. n + 1 = m
      BY <3>7
    <3> QED BY <3>2, <3>5, <3>8
  <2> QED BY <2>1, <2>2
<1>10. Escaped(out)
  BY <1>5, <1>9 DEF Escaped
<1>11. PICK f : /\ f = [n \in Said(out) |-> of[n]] /\ Follows(f, Said(out), Said(text))
                /\ Said(out) \in SUBSET Nat /\ IsFiniteSet(Said(out)) /\ Said(text) \in SUBSET Nat
  <2>1. PICK g : FollowsFrom(g, out, of, Sources(text, char))
    BY <1>4, <1>7, ReplaceFollows
  <2>2. Sources(text, char) = Said(text)
    BY DEF Sources
  <2> QED BY <2>1, <2>2 DEF FollowsFrom
<1>12. ASSUME NEW n \in Said(out) PROVE Decoded(out)[n] = Decoded(text)[f[n]]
  <2>1. n \in 1..N /\ out[n] # "&" /\ f[n] = of[n]
    BY <1>5, <1>11 DEF Said
  <2>2. Decoded(out)[n] = IF n > 1 /\ out[n - 1] = "&" THEN Meant(out[n]) ELSE out[n]
    BY <1>5, <2>1 DEF Decoded
  <2>3. PICK i \in 1..l : i = of[n]
    BY <1>5, <2>1
  <2>4. Decoded(text)[i] = IF i > 1 /\ text[i - 1] = "&" THEN Meant(text[i]) ELSE text[i]
    BY <1>1 DEF Decoded
  <2>5. CASE text[i] = char
    <3>1. Decoded(out)[n] = char
      BY <1>5, <2>1, <2>2, <2>3, <2>5
    <3>2. ASSUME i > 1, text[i - 1] = "&" PROVE FALSE
      <4>1. i - 1 \in 1..l /\ (i - 1) + 1 = i
        BY <3>2
      <4>2. text[i] \in Entities
        BY <1>8, <3>2, <4>1
      <4> QED BY <2>5, <4>2
    <3> QED BY <2>1, <2>3, <2>4, <2>5, <3>1, <3>2
  <2>6. CASE text[i] # char
    <3>1. out[n] = text[i] /\ (n > 1 <=> i > 1)
      BY <1>5, <2>1, <2>3, <2>6
    <3>2. ASSUME i > 1 PROVE out[n - 1] = "&" <=> text[i - 1] = "&"
      <4>1. out[n - 1] = IF text[i - 1] = char THEN entity ELSE text[i - 1]
        BY <1>5, <2>1, <2>3, <2>6, <3>2
      <4> QED BY <1>7, <4>1
    <3> QED BY <2>1, <2>2, <2>3, <2>4, <3>1, <3>2
  <2> QED BY <2>5, <2>6
<1>13. Chosen(Decoded(out), Said(out)) = Chosen(Decoded(text), Said(text))
  BY <1>11, <1>12, ChosenFollows
<1>14. Unescaped(out) = Unescaped(text)
  BY <1>13 DEF Unescaped, Decoded, Said
<1> QED BY <1>2, <1>10, <1>14

\* A text that is read back as another and has none of some characters.
Cleared(s, text, gone) ==
    /\ \E U : s \in Seq(U)
    /\ Escaped(s) /\ Unescaped(s) = text /\ Range(s) \intersect gone = {}

\* One character after the other goes, and none that went comes back.
LEMMA CharacterGone ==
    ASSUME NEW s, NEW text, NEW gone, Cleared(s, text, gone), NEW char, char # "&", char \notin Entities,
           NEW entity \in Entities, Meant(entity) = char, gone \intersect {"&", entity} = {}
    PROVE  Cleared(Replace(s, char, entity), text, gone \union {char})
<1>1. PICK U : s \in Seq(U)
  BY DEF Cleared
<1>2. Escaped(s) /\ Unescaped(s) = text /\ Range(s) \intersect gone = {}
  BY DEF Cleared
<1>3. PICK out : out = Replace(s, char, entity)
  OBVIOUS
<1>4. Escaped(out) /\ Unescaped(out) = text
  BY <1>1, <1>2, <1>3, CharacterEscaped
<1>5. PICK N \in Nat : \E of : Lays(s, char, entity, out, N, of)
  BY <1>1, <1>3, ReplaceLays
<1>6. PICK of : Lays(s, char, entity, out, N, of)
  BY <1>5
<1>7. Range(out) \subseteq (Range(s) \ {char}) \union {"&", entity}
  BY <1>1, <1>6, ReplaceHas
<1>8. out \in Seq(U \union {"&", entity})
  BY <1>1, <1>3, ReplaceLays
<1>9. Range(out) \intersect (gone \union {char}) = {}
  BY <1>2, <1>7
<1> QED BY <1>3, <1>4, <1>8, <1>9 DEF Cleared

(* Stripping leaves no tag, also none that the rest makes up, and stripping twice changes
   nothing; what is escaped opens no tag and ends no quote, and is read back as the text, so
   that two texts are never escaped alike (stripTags, escapeHTML). *)
THEOREM EveryMarkupHarmless ==
    ASSUME NEW T, NEW text \in Seq(T)
    PROVE  MarkupHarmless(text, StripTags(text), EscapeHTML(text))
<1>1. PICK a : a = Replace(text, "&", "amp;")
  OBVIOUS
<1>2. PICK b : b = Replace(a, "<", "lt;")
  OBVIOUS
<1>3. PICK c : c = Replace(b, ">", "gt;")
  OBVIOUS
<1>4. PICK d : d = Replace(c, "quote", "quot;")
  OBVIOUS
<1>5. PICK e : e = Replace(d, "'", "#x27;")
  OBVIOUS
<1>6. /\ "amp;" \in Entities /\ Meant("amp;") = "&"
      /\ "lt;" \in Entities /\ Meant("lt;") = "<"
      /\ "gt;" \in Entities /\ Meant("gt;") = ">"
      /\ "quot;" \in Entities /\ Meant("quot;") = "quote"
      /\ "#x27;" \in Entities /\ Meant("#x27;") = "'"
      /\ \A char \in {"<", ">", "quote", "'"} : char # "&" /\ char \notin Entities
  BY DEF Entities, Meant
<1>7. Cleared(a, text, {})
  <2>1. Escaped(a) /\ Unescaped(a) = text
    BY <1>1, <1>6, AmpersandEscaped
  <2>2. a \in Seq(T \union {"&", "amp;"})
    BY <1>1, ReplaceLays
  <2> QED BY <2>1, <2>2 DEF Cleared
<1>8. Cleared(b, text, {} \union {"<"})
  BY <1>2, <1>6, <1>7, CharacterGone
<1>9. Cleared(c, text, {"<"} \union {">"})
  <2>1. Cleared(b, text, {"<"})
    BY <1>8
  <2> QED BY <1>3, <1>6, <2>1, CharacterGone
<1>10. Cleared(d, text, {"<", ">"} \union {"quote"})
  <2>1. Cleared(c, text, {"<", ">"})
    BY <1>9
  <2> QED BY <1>4, <1>6, <2>1, CharacterGone
<1>11. Cleared(e, text, {"<", ">", "quote"} \union {"'"})
  <2>1. Cleared(d, text, {"<", ">", "quote"})
    BY <1>10
  <2> QED BY <1>5, <1>6, <2>1, CharacterGone
<1>12. Escaped(e) /\ Unescaped(e) = text /\ Range(e) \intersect {"<", ">", "quote", "'"} = {}
  BY <1>11 DEF Cleared
<1>13. e = EscapeHTML(text)
  BY <1>1, <1>2, <1>3, <1>4, <1>5 DEF EscapeHTML
<1> QED BY <1>12, <1>13, StrippedClean DEF MarkupHarmless, Escaped

-----------------------------------------------------------------------------
(* Metering                                                                *)

LEMMA AreUnits ==
    ASSUME NEW s, NEW P, NEW i \in P, NEW k \in 1..s[i]
    PROVE  <<i, k>> \in Units(s, P)
BY DEF Units

Together(t, s, r, n) == \A i \in 1..n : t[i] = s[i] + r[i]

\* Two sums over the same places are one of what stands there together.
LEMMA CountPlus ==
    ASSUME NEW n \in Nat, NEW s \in [1..n -> Nat], NEW r \in [1..n -> Nat], NEW t \in [1..n -> Nat],
           Together(t, s, r, n), NEW P \in SUBSET (1..n)
    PROVE  Count(t, P) = Count(s, P) + Count(r, P)
<1>1. /\ \A u \in Units(s, P) : \E i \in P : \E k \in 1..s[i] : u = <<i, k>>
      /\ \A u \in Units(r, P) : \E i \in P : \E k \in 1..r[i] : u = <<i, k>>
      /\ \A u \in Units(t, P) : \E i \in P : \E k \in 1..t[i] : u = <<i, k>>
  <2>1. \A u \in Units(s, P) : \E i \in P : \E k \in 1..s[i] : u = <<i, k>>
    BY DEF Units
  <2>2. \A u \in Units(r, P) : \E i \in P : \E k \in 1..r[i] : u = <<i, k>>
    BY DEF Units
  <2>3. \A u \in Units(t, P) : \E i \in P : \E k \in 1..t[i] : u = <<i, k>>
    BY DEF Units
  <2> QED BY <2>1, <2>2, <2>3
<1>0. /\ \A i \in P : \A k \in 1..s[i] : <<i, k>> \in Units(s, P)
      /\ \A i \in P : \A k \in 1..r[i] : <<i, k>> \in Units(r, P)
      /\ \A i \in P : \A k \in 1..t[i] : <<i, k>> \in Units(t, P)
  <2>1. \A i \in P : \A k \in 1..s[i] : <<i, k>> \in Units(s, P)
    BY AreUnits, Zenon
  <2>2. \A i \in P : \A k \in 1..r[i] : <<i, k>> \in Units(r, P)
    BY AreUnits, Zenon
  <2>3. \A i \in P : \A k \in 1..t[i] : <<i, k>> \in Units(t, P)
    BY AreUnits, Zenon
  <2> QED BY <2>1, <2>2, <2>3
<1>2. PICK W : W = {u \in Units(t, P) : u \notin Units(s, P)}
  OBVIOUS
<1>3. \A i \in P : s[i] \in Nat /\ r[i] \in Nat /\ t[i] = s[i] + r[i]
  BY DEF Together
<1>4. PICK g : g = [u \in Units(r, P) |-> <<u[1], s[u[1]] + u[2]>>]
  OBVIOUS
<1>5. \A i \in P, k \in Nat : <<i, k>> \in Units(s, P) <=> k \in 1..s[i]
  BY <1>0, <1>1
<1>6. ASSUME NEW u \in Units(r, P) PROVE g[u] \in W
  <2>1. PICK i \in P, k \in Nat : k \in 1..r[i] /\ u = <<i, k>>
    BY <1>1, <1>3
  <2>5. g[u] = <<u[1], s[u[1]] + u[2]>>
    BY <1>4
  <2>6. u[1] = i /\ u[2] = k
    BY <2>1
  <2>7. s[i] + k \in 1..t[i] /\ s[i] + k \in Nat /\ s[i] + k \notin 1..s[i]
    BY <1>3, <2>1, SMTT(30)
  <2>2. g[u] = <<i, s[i] + k>> /\ s[i] + k \in 1..t[i] /\ s[i] + k \in Nat /\ s[i] + k \notin 1..s[i]
    BY <2>5, <2>6, <2>7
  <2>3. g[u] \in Units(t, P)
    BY <1>0, <2>2
  <2>4. g[u] \notin Units(s, P)
    BY <1>5, <2>2
  <2> QED BY <1>2, <2>3, <2>4
<1>7. ASSUME NEW u \in Units(r, P), NEW v \in Units(r, P), g[u] = g[v] PROVE u = v
  <2>1. PICK i \in P, k \in Nat : k \in 1..r[i] /\ u = <<i, k>>
    BY <1>1, <1>3
  <2>2. PICK j \in P, l \in Nat : l \in 1..r[j] /\ v = <<j, l>>
    BY <1>1, <1>3
  <2>3. <<i, s[i] + k>> = <<j, s[j] + l>>
    BY <1>4, <1>7, <2>1, <2>2
  <2>4. i = j /\ s[i] + k = s[i] + l
    BY <2>3
  <2> QED BY <1>3, <2>1, <2>2, <2>4, SMTT(30)
<1>8. ASSUME NEW w \in W PROVE \E u \in Units(r, P) : g[u] = w
  <2>1. PICK i \in P, k \in Nat : k \in 1..t[i] /\ w = <<i, k>>
    BY <1>1, <1>2, <1>3
  <2>2. k \notin 1..s[i]
    BY <1>2, <1>5, <2>1
  <2>3. PICK l \in Nat : l = k - s[i] /\ l \in 1..r[i]
    BY <1>3, <2>1, <2>2
  <2>4. <<i, l>> \in Units(r, P)
    BY <1>0, <2>3
  <2>5. g[<<i, l>>] = <<i, s[i] + l>> /\ s[i] + l = k
    BY <1>3, <1>4, <2>3, <2>4, SMTT(30)
  <2> QED BY <2>1, <2>4, <2>5
<1>9. g \in Bijection(Units(r, P), W)
  BY <1>4, <1>6, <1>7, <1>8 DEF Bijection, Injection, Surjection, IsInjective
<1>10. IsFiniteSet(Units(r, P)) /\ IsFiniteSet(Units(s, P))
  BY UnitsAdd
<1>11. IsFiniteSet(W) /\ Cardinality(W) = Cardinality(Units(r, P))
  <2>1. ExistsBijection(Units(r, P), W)
    BY <1>9 DEF ExistsBijection
  <2> QED BY <1>10, <2>1, FS_Bijection
<1>12. Units(t, P) = Units(s, P) \union W /\ Units(s, P) \intersect W = {}
  <2>1. ASSUME NEW u \in Units(s, P) PROVE u \in Units(t, P)
    <3>1. PICK i \in P, k \in Nat : k \in 1..s[i] /\ u = <<i, k>>
      BY <1>1, <1>3
    <3>2. k \in 1..t[i]
      BY <1>3, <3>1
    <3> QED BY <1>0, <3>1, <3>2
  <2> QED BY <1>2, <2>1
<1>13. Cardinality(Units(s, P) \union W) =
           Cardinality(Units(s, P)) + Cardinality(W) - Cardinality({})
  <2>1. Cardinality(Units(s, P) \union W) =
            Cardinality(Units(s, P)) + Cardinality(W) - Cardinality(Units(s, P) \intersect W)
    BY <1>10, <1>11, FS_Union
  <2> QED BY <1>12, <2>1
<1>14. Cardinality({}) = 0 /\ Cardinality(Units(s, P)) \in Nat /\ Cardinality(W) \in Nat
  BY <1>10, <1>11, FS_EmptySet, FS_CardinalityType
<1> QED BY <1>11, <1>12, <1>13, <1>14 DEF Count

\* What is chosen adds up to what stands at the places it is chosen from.
LEMMA CountChosen ==
    ASSUME NEW n \in Nat, NEW s \in [1..n -> Nat], NEW P \in SUBSET (1..n),
           NEW r \in [1..Cardinality(P) -> Nat], \A k \in 1..Cardinality(P) : r[k] = s[Nth(P, k)]
    PROVE  Total(r) = Count(s, P)
<1>1. IsFiniteSet(P) /\ P \in SUBSET Nat
  <2>1. IsFiniteSet(1..n)
    BY FS_Interval
  <2>2. IsFiniteSet(P)
    BY <2>1, FS_Subset
  <2> QED BY <2>2
<1>0. PICK m \in Nat : m = Cardinality(P)
  BY <1>1, FS_CardinalityType
<1>2. PICK f : f = [k \in 1..m |-> Nth(P, k)]
  OBVIOUS
<1>3. /\ \A k \in 1..Cardinality(P) : Nth(P, k) \in P
      /\ \A e \in P : \E k \in 1..Cardinality(P) : Nth(P, k) = e
      /\ \A j, k \in 1..Cardinality(P) : j < k <=> Nth(P, j) < Nth(P, k)
  BY <1>1, NthIsNth
<1>4. ASSUME NEW j \in 1..m, NEW k \in 1..m, f[j] = f[k] PROVE j = k
  <2>1. Nth(P, j) = Nth(P, k) /\ Nth(P, j) \in Nat
    BY <1>0, <1>1, <1>2, <1>3, <1>4
  <2>2. ~(j < k) /\ ~(k < j)
    BY <1>0, <1>3, <2>1
  <2> QED BY <2>2
<1>5. f \in Bijection(1..m, P)
  <2>1. f \in [1..m -> P] /\ \A e \in P : \E k \in 1..m : f[k] = e
    BY <1>0, <1>2, <1>3
  <2> QED BY <1>4, <2>1 DEF Bijection, Injection, Surjection, IsInjective
<1>6. PICK Q : Q = 1..m
  OBVIOUS
<1>7. Moves(f, r, Q, s, P) /\ Q \in SUBSET (1..m)
  <2>1. \A k \in Q : s[f[k]] = r[k]
    BY <1>0, <1>2, <1>6
  <2> QED BY <1>5, <1>6, <2>1 DEF Moves
<1>8. Count(r, Q) = Count(s, P)
  <2>1. r \in [1..m -> Nat]
    BY <1>0
  <2> QED BY <1>7, <2>1, CountMoved
<1> QED BY <1>0, <1>6, <1>8 DEF Total, Count

\* The places of those of some owners.
OwnedBy(own, D) == {i \in DOMAIN own : own[i] \in D}

UnitOf(u, s, own, o) == \E i \in DOMAIN own : own[i] = o /\ \E k \in 1..s[i] : u = <<i, k>>

Divides(tokens, s, n, own, D) ==
    /\ DOMAIN own = 1..n /\ DOMAIN tokens = D
    /\ \A o \in D : tokens[o] = Count(s, OwnedBy(own, {o}))

\* What everyone of some owners has adds up to what they all have.
LEMMA TotalByOwner ==
    ASSUME NEW n \in Nat, NEW s \in [1..n -> Nat], NEW own, NEW D, NEW tokens,
           Divides(tokens, s, n, own, D)
    PROVE  Total(tokens) = Count(s, OwnedBy(own, D))
<1>0. /\ DOMAIN own = 1..n /\ DOMAIN tokens = D
      /\ \A o \in D : tokens[o] = Count(s, OwnedBy(own, {o}))
  BY DEF Divides
<1>1. PICK Q : Q = OwnedBy(own, D)
  OBVIOUS
<1>2. Q \in SUBSET (1..n) /\ \A i \in 1..n : i \in Q <=> own[i] \in D
  BY <1>0, <1>1 DEF OwnedBy
<1>3. PICK U : U = [o \in D |-> Units(s, OwnedBy(own, {o}))]
  OBVIOUS
<1>4. ASSUME NEW o \in D PROVE tokens[o] \in Nat /\ ExistsBijection(1..tokens[o], U[o])
  <2>1. OwnedBy(own, {o}) \in SUBSET (1..n)
    BY <1>0 DEF OwnedBy
  <2>2. IsFiniteSet(U[o]) /\ tokens[o] = Cardinality(U[o])
    BY <1>0, <1>3, <2>1, UnitsAdd DEF Count
  <2> QED BY <2>2, FS_CardinalityType
<1>5. \A o \in D : \A u : u \in U[o] <=> UnitOf(u, s, own, o)
  <2>1. ASSUME NEW o \in D, NEW u PROVE u \in U[o] <=> UnitOf(u, s, own, o)
    <3>1. PICK O : O = OwnedBy(own, {o})
      OBVIOUS
    <3>2. u \in Units(s, O) <=> \E i \in O : \E k \in 1..s[i] : u = <<i, k>>
      BY DEF Units
    <3> QED BY <1>3, <3>1, <3>2 DEF UnitOf, OwnedBy
  <2> QED BY <2>1
<1>6. \A u : u \in Units(s, Q) <=> \E i \in 1..n : own[i] \in D /\ \E k \in 1..s[i] : u = <<i, k>>
  BY <1>2 DEF Units
<1>7. \A u : u \in Units(tokens, D) <=> \E o \in D : \E k \in 1..tokens[o] : u = <<o, k>>
  BY DEF Units
<1>8. PICK b : b = [o \in D |-> CHOOSE f : f \in Bijection(1..tokens[o], U[o])]
  OBVIOUS
<1>9. ASSUME NEW o \in D
      PROVE  /\ b[o] \in [1..tokens[o] -> U[o]]
             /\ \A j, k \in 1..tokens[o] : b[o][j] = b[o][k] => j = k
             /\ \A u \in U[o] : \E k \in 1..tokens[o] : b[o][k] = u
  <2>1. b[o] = CHOOSE f : f \in Bijection(1..tokens[o], U[o])
    BY <1>8
  <2>2. \E f : f \in Bijection(1..tokens[o], U[o])
    BY <1>4 DEF ExistsBijection
  <2>3. b[o] \in Bijection(1..tokens[o], U[o])
    BY <2>1, <2>2, Zenon
  <2> QED BY <2>3 DEF Bijection, Injection, Surjection, IsInjective
<1>10. PICK g : g = [u \in Units(tokens, D) |-> b[u[1]][u[2]]]
  OBVIOUS
<1>11. \A o \in D : \A k \in 1..tokens[o] : <<o, k>> \in Units(tokens, D) /\ g[<<o, k>>] = b[o][k]
  BY <1>7, <1>10
<1>12. ASSUME NEW u \in Units(tokens, D) PROVE g[u] \in Units(s, Q)
  <2>1. PICK o \in D : \E k \in 1..tokens[o] : u = <<o, k>>
    BY <1>7
  <2>2. PICK k \in 1..tokens[o] : u = <<o, k>>
    BY <2>1
  <2>3. g[u] = b[o][k] /\ b[o][k] \in U[o]
    BY <1>9, <1>11, <2>2
  <2> QED BY <1>0, <1>5, <1>6, <2>3 DEF UnitOf
<1>13. ASSUME NEW u \in Units(tokens, D), NEW v \in Units(tokens, D), g[u] = g[v] PROVE u = v
  <2>1. PICK o \in D : \E k \in 1..tokens[o] : u = <<o, k>>
    BY <1>7
  <2>2. PICK k \in 1..tokens[o] : u = <<o, k>>
    BY <2>1
  <2>3. PICK p \in D : \E l \in 1..tokens[p] : v = <<p, l>>
    BY <1>7
  <2>4. PICK l \in 1..tokens[p] : v = <<p, l>>
    BY <2>3
  <2>5. b[o][k] \in U[o] /\ b[p][l] \in U[p] /\ b[o][k] = b[p][l]
    <3>1. g[u] = b[o][k] /\ g[v] = b[p][l]
      BY <1>11, <2>2, <2>4
    <3>2. b[o][k] \in U[o] /\ b[p][l] \in U[p]
      BY <1>9, ZenonT(30)
    <3> QED BY <1>13, <3>1, <3>2
  <2>6. o = p
    <3>1. PICK x : x \in U[o] /\ x \in U[p]
      BY <2>5
    <3>2. PICK i \in 1..n : own[i] = o /\ \E m \in 1..s[i] : x = <<i, m>>
      BY <1>0, <1>5, <3>1 DEF UnitOf
    <3>3. PICK j \in 1..n : own[j] = p /\ \E m \in 1..s[j] : x = <<j, m>>
      BY <1>0, <1>5, <3>1 DEF UnitOf
    <3>4. i = j
      BY <3>2, <3>3
    <3> QED BY <3>2, <3>3, <3>4
  <2>7. k = l
    BY <1>9, <2>2, <2>4, <2>5, <2>6
  <2> QED BY <2>2, <2>4, <2>6, <2>7
<1>14. ASSUME NEW u \in Units(s, Q) PROVE \E v \in Units(tokens, D) : g[v] = u
  <2>1. PICK i \in 1..n : own[i] \in D /\ \E k \in 1..s[i] : u = <<i, k>>
    BY <1>6
  <2>2. PICK o \in D : o = own[i]
    BY <2>1
  <2>3. u \in U[o]
    BY <1>0, <1>5, <2>1, <2>2 DEF UnitOf
  <2>4. PICK k \in 1..tokens[o] : b[o][k] = u
    BY <1>9, <2>3
  <2> QED BY <1>11, <2>4
<1>15. g \in Bijection(Units(tokens, D), Units(s, Q))
  BY <1>10, <1>12, <1>13, <1>14 DEF Bijection, Injection, Surjection, IsInjective
<1>16. ExistsBijection(Units(s, Q), Units(tokens, D))
  <2>1. ExistsBijection(Units(tokens, D), Units(s, Q))
    BY <1>15 DEF ExistsBijection
  <2> QED BY <2>1, Fun_ExistsBijSymmetric
<1>17. IsFiniteSet(Units(s, Q))
  BY <1>2, UnitsAdd
<1>18. Cardinality(Units(tokens, D)) = Cardinality(Units(s, Q))
  BY <1>16, <1>17, FS_Bijection
<1> QED BY <1>0, <1>1, <1>18 DEF Total, Count

Metered(Orgs) == [at : Nat, org : Orgs, input : Nat, output : Nat]
PlacesOf(records, org) == {i \in DOMAIN records : records[i].org = org}
InputOf(records) == [i \in DOMAIN records |-> records[i].input]
OutputOf(records) == [i \in DOMAIN records |-> records[i].output]
BothOf(records) == [i \in DOMAIN records |-> records[i].input + records[i].output]

\* The summary of an organisation is what its own records add up to.
LEMMA SummaryCounts ==
    ASSUME NEW Orgs, NEW records \in Seq(Metered(Orgs)), NEW org
    PROVE  /\ OrgSummary(records, org).input + OrgSummary(records, org).output =
                  Count(BothOf(records), PlacesOf(records, org))
           /\ OrgSummary(records, org).count = Cardinality(PlacesOf(records, org))
           /\ Count(BothOf(records), PlacesOf(records, org)) \in Nat
<1>1. PICK n \in Nat : n = Len(records) /\ DOMAIN records = 1..n /\ \A i \in 1..n : records[i] \in Metered(Orgs)
  BY ListHas
<1>2. PICK P : P = PlacesOf(records, org)
  OBVIOUS
<1>3. P \in SUBSET (1..n) /\ P \in SUBSET DOMAIN records
  BY <1>1, <1>2 DEF PlacesOf
<1>4. PICK own : own = Chosen(records, P)
  OBVIOUS
<1>5. PICK m : m = Cardinality(P)
  OBVIOUS
<1>6. /\ m \in Nat /\ DOMAIN own = 1..m /\ own \in Seq(Metered(Orgs))
      /\ \A k \in 1..m : own[k] = records[Nth(P, k)]
  BY <1>3, <1>4, <1>5, ChosenListsAll
<1>7. \A k \in 1..m : Nth(P, k) \in P
  <2>1. IsFiniteSet(P) /\ P \in SUBSET Nat
    BY <1>3, ChosenListsAll
  <2> QED BY <1>5, <2>1, NthIsNth
<1>8. \A i \in 1..n : records[i].input \in Nat /\ records[i].output \in Nat
  BY <1>1 DEF Metered
<1>9. PICK s : s = InputOf(records)
  OBVIOUS
<1>10. PICK r : r = OutputOf(records)
  OBVIOUS
<1>11. PICK t : t = BothOf(records)
  OBVIOUS
<1>12. /\ s \in [1..n -> Nat] /\ r \in [1..n -> Nat] /\ t \in [1..n -> Nat]
       /\ \A i \in 1..n : s[i] = records[i].input /\ r[i] = records[i].output /\ t[i] = s[i] + r[i]
  BY <1>1, <1>8, <1>9, <1>10, <1>11 DEF InputOf, OutputOf, BothOf
<1>13. PICK x : x = [i \in DOMAIN own |-> own[i].input]
  OBVIOUS
<1>14. PICK y : y = [i \in DOMAIN own |-> own[i].output]
  OBVIOUS
<1>15. /\ x \in [1..m -> Nat] /\ y \in [1..m -> Nat]
       /\ \A k \in 1..m : x[k] = s[Nth(P, k)] /\ y[k] = r[Nth(P, k)]
  <2>1. ASSUME NEW k \in 1..m
        PROVE  /\ x[k] \in Nat /\ y[k] \in Nat
               /\ x[k] = s[Nth(P, k)] /\ y[k] = r[Nth(P, k)]
    <3>1. Nth(P, k) \in 1..n /\ own[k] = records[Nth(P, k)]
      BY <1>3, <1>6, <1>7
    <3> QED BY <1>6, <1>8, <1>12, <1>13, <1>14, <3>1
  <2>2. DOMAIN x = 1..m /\ DOMAIN y = 1..m
    BY <1>6, <1>13, <1>14
  <2> QED BY <1>6, <1>13, <1>14, <2>1, <2>2
<1>16. Total(x) = Count(s, P) /\ Total(y) = Count(r, P)
  BY <1>3, <1>5, <1>12, <1>15, CountChosen
<1>17. Count(t, P) = Count(s, P) + Count(r, P)
  <2>1. Together(t, s, r, n)
    BY <1>12 DEF Together
  <2> QED BY <1>3, <1>12, <2>1, CountPlus
<1>18. OrgSummary(records, org) = [input |-> Total(x), output |-> Total(y), count |-> Len(own)]
  <2>1. RecordsOf(records, org) = own
    BY <1>2, <1>4 DEF RecordsOf, PlacesOf
  <2> QED BY <1>13, <1>14, <2>1, Zenon DEF OrgSummary
<1>19. Len(own) = m
  BY <1>6
<1>20. Count(t, P) \in Nat
  BY <1>3, <1>12, UnitsAdd
<1> QED BY <1>2, <1>5, <1>11, <1>16, <1>17, <1>18, <1>19, <1>20

OwnersOf(records) == {records[i].org : i \in DOMAIN records}
Accounted(tokens, records, D) ==
    \A o \in D : tokens[o] = Count(BothOf(records), PlacesOf(records, o))

\* Those of one organisation, and those of all the others.
LEMMA AllCounts ==
    ASSUME NEW Orgs, NEW records \in Seq(Metered(Orgs)), NEW org, NEW tokens,
           Accounted(tokens, records, OwnersOf(records) \union {org})
    PROVE  /\ Total([o \in OwnersOf(records) |-> tokens[o]]) = Total(BothOf(records))
           /\ Total([o \in OwnersOf(records) \ {org} |-> tokens[o]]) \in Nat
           /\ Total(BothOf(records)) = Total([o \in OwnersOf(records) \ {org} |-> tokens[o]]) + tokens[org]
<1>1. PICK n \in Nat : n = Len(records) /\ DOMAIN records = 1..n /\ \A i \in 1..n : records[i] \in Metered(Orgs)
  BY ListHas
<1>2. PICK t \in [1..n -> Nat] : t = BothOf(records)
  <2>1. \A i \in 1..n : records[i].input + records[i].output \in Nat
    BY <1>1 DEF Metered
  <2> QED BY <1>1, <2>1 DEF BothOf
<1>3. PICK own : own = [i \in DOMAIN records |-> records[i].org]
  OBVIOUS
<1>4. DOMAIN own = 1..n /\ \A i \in 1..n : own[i] = records[i].org /\ own[i] \in OwnersOf(records)
  BY <1>1, <1>3 DEF OwnersOf
<1>5. \A o : OwnedBy(own, {o}) = PlacesOf(records, o)
  BY <1>1, <1>4 DEF OwnedBy, PlacesOf
<1>6. \A o \in OwnersOf(records) \union {org} : tokens[o] = Count(t, OwnedBy(own, {o}))
  BY <1>2, <1>5 DEF Accounted
<1>7. ASSUME NEW D \in SUBSET OwnersOf(records) PROVE Total([o \in D |-> tokens[o]]) = Count(t, OwnedBy(own, D))
  <2>1. PICK f : f = [o \in D |-> tokens[o]]
    OBVIOUS
  <2>2. DOMAIN f = D /\ \A o \in D : f[o] = Count(t, OwnedBy(own, {o}))
    BY <1>6, <2>1
  <2>3. Total(f) = Count(t, OwnedBy(own, D))
    <3>1. Divides(f, t, n, own, D)
      BY <1>4, <2>2 DEF Divides
    <3> QED BY <3>1, TotalByOwner
  <2> QED BY <2>1, <2>3
<1>8. OwnedBy(own, OwnersOf(records)) = 1..n
  BY <1>4 DEF OwnedBy
<1>9. Total(t) = Count(t, 1..n)
  BY DEF Total, Count
<1>10. PICK P : P = OwnedBy(own, OwnersOf(records) \ {org})
  OBVIOUS
<1>11. PICK Q : Q = OwnedBy(own, {org})
  OBVIOUS
<1>12. P \in SUBSET (1..n) /\ Q \in SUBSET (1..n) /\ P \intersect Q = {} /\ P \union Q = 1..n
  BY <1>4, <1>10, <1>11 DEF OwnedBy
<1>13. Count(t, P \union Q) = Count(t, P) + Count(t, Q) /\ Count(t, P) \in Nat
  <2>1. P \in SUBSET (1..n) /\ Q \in SUBSET (1..n) /\ P \intersect Q = {}
    BY <1>12
  <2>2. Count(t, P) \in Nat
    BY <2>1, UnitsAdd
  <2>3. P \in SUBSET (1..n)
    BY <2>1
  <2>4. Q \in SUBSET (1..n)
    BY <2>1
  <2>5. P \intersect Q = {}
    BY <2>1
  <2>6. Count(t, P \union Q) = Count(t, P) + Count(t, Q)
    BY <2>3, <2>4, <2>5, CountBoth, SMTT(30)
  <2> QED BY <2>2, <2>6
<1> QED BY <1>2, <1>6, <1>7, <1>8, <1>9, <1>10, <1>11, <1>12, <1>13

\* What is read back: the newest first, and as much of it as is asked for.
LEMMA ReadBack ==
    ASSUME NEW Orgs, NEW records \in Seq(Metered(Orgs)), \A i \in DOMAIN records : records[i].at = i, NEW org
    PROVE  LET read == RecordsForOrg(records, org, NoLimit) IN
           /\ Len(read) = Cardinality(PlacesOf(records, org))
           /\ \A i, j \in DOMAIN read : i < j => read[i].at > read[j].at
           /\ \A k \in 0..Len(read) : IsPrefix(RecordsForOrg(records, org, k), read)
<1>1. PICK n \in Nat : n = Len(records) /\ DOMAIN records = 1..n /\ \A i \in 1..n : records[i] \in Metered(Orgs)
  BY ListHas
<1>2. PICK P : P = PlacesOf(records, org)
  OBVIOUS
<1>3. P \in SUBSET (1..n) /\ P \in SUBSET DOMAIN records
  BY <1>1, <1>2 DEF PlacesOf
<1>4. PICK own \in Seq(Metered(Orgs)) :
        own = RecordsOf(records, org) /\ Len(own) = Cardinality(P)
        /\ \A k \in 1..Cardinality(P) : own[k] = records[Nth(P, k)]
  <2>1. RecordsOf(records, org) = Chosen(records, P)
    BY <1>2 DEF RecordsOf, PlacesOf
  <2>2. /\ Chosen(records, P) \in Seq(Metered(Orgs)) /\ DOMAIN Chosen(records, P) = 1..Cardinality(P)
        /\ \A k \in 1..Cardinality(P) : Chosen(records, P)[k] = records[Nth(P, k)]
        /\ Cardinality(P) \in Nat
    <3>1. P \in SUBSET DOMAIN records
      BY <1>3
    <3>2. /\ P \in SUBSET Nat /\ IsFiniteSet(P) /\ Cardinality(P) \in Nat
          /\ Chosen(records, P) \in Seq(Metered(Orgs)) /\ DOMAIN Chosen(records, P) = 1..Cardinality(P)
          /\ \A k \in 1..Cardinality(P) : Chosen(records, P)[k] = records[Nth(P, k)]
          /\ Range(Chosen(records, P)) = {records[i] : i \in P}
          /\ IsInjective(records) => IsInjective(Chosen(records, P))
      BY <3>1, ChosenListsAll, Zenon
    <3> QED BY <3>2
  <2>3. Len(Chosen(records, P)) = Cardinality(P)
    BY <2>2
  <2> QED BY <2>1, <2>2, <2>3
<1>5. PICK m \in Nat : m = Len(own)
  OBVIOUS
<1>6. ASSUME NEW j \in 1..m, NEW k \in 1..m, j < k PROVE own[j].at < own[k].at
  <2>1. IsFiniteSet(P) /\ P \in SUBSET Nat
    BY <1>3, ChosenListsAll
  <2>2. j \in 1..Cardinality(P) /\ k \in 1..Cardinality(P)
    BY <1>4, <1>5
  <2>3. Nth(P, j) \in P /\ Nth(P, k) \in P /\ Nth(P, j) < Nth(P, k)
    BY <1>6, <2>1, <2>2, NthIsNth
  <2>4. own[j] = records[Nth(P, j)] /\ own[k] = records[Nth(P, k)]
    BY <1>4, <2>2
  <2>5. own[j].at = Nth(P, j) /\ own[k].at = Nth(P, k)
    BY <1>3, <2>3, <2>4
  <2> QED BY <2>3, <2>5
<1>7. PICK read : read = RecordsForOrg(records, org, NoLimit)
  OBVIOUS
<1>8. read = Reverse(own) /\ \A k \in Nat : RecordsForOrg(records, org, k) = First(k, read)
  BY <1>4, <1>7 DEF RecordsForOrg, NoLimit
<1>9. read = [i \in 1..m |-> own[m - i + 1]]
  BY <1>5, <1>8 DEF Reverse
<1>10. read \in Seq(Metered(Orgs)) /\ Len(read) = m /\ DOMAIN read = 1..m
  <2>1. \A i \in 1..m : m - i + 1 \in 1..m /\ own[m - i + 1] \in Metered(Orgs)
    BY <1>5
  <2>2. read \in [1..m -> Metered(Orgs)]
    BY <1>9, <2>1
  <2> QED BY <2>2
<1>11. ASSUME NEW i \in DOMAIN read, NEW j \in DOMAIN read, i < j PROVE read[i].at > read[j].at
  <2>1. i \in 1..m /\ j \in 1..m /\ m - i + 1 \in 1..m /\ m - j + 1 \in 1..m /\ m - j + 1 < m - i + 1
    BY <1>10, <1>11
  <2>2. own[m - j + 1].at < own[m - i + 1].at
    BY <1>6, <2>1
  <2>3. read[i] = own[m - i + 1] /\ read[j] = own[m - j + 1]
    BY <1>9, <2>1
  <2>4. own[m - j + 1].at \in Nat /\ own[m - i + 1].at \in Nat
    <3>1. own[m - j + 1] \in Metered(Orgs) /\ own[m - i + 1] \in Metered(Orgs)
      BY <1>5, <2>1
    <3> QED BY <3>1 DEF Metered
  <2> QED BY <2>2, <2>3, <2>4
<1>12. ASSUME NEW k \in 0..m PROVE IsPrefix(RecordsForOrg(records, org, k), read)
  <2>1. PICK l \in 0..m :
          /\ First(k, read) \in Seq(Metered(Orgs)) /\ Len(First(k, read)) = l
          /\ \A i \in 1..l : First(k, read)[i] = read[i]
    <3>1. k \in Nat /\ read \in Seq(Metered(Orgs)) /\ Len(read) = m
      BY <1>10
    <3>2. PICK l \in 0..Len(read) :
              /\ l = Min({k, Len(read)}) /\ l = IF k <= Len(read) THEN k ELSE Len(read)
              /\ First(k, read) \in Seq(Metered(Orgs)) /\ Len(First(k, read)) = l /\ DOMAIN First(k, read) = 1..l
              /\ \A i \in 1..l : First(k, read)[i] = read[i]
              /\ IsInjective(read) => IsInjective(First(k, read))
      <4>1. k \in Nat /\ read \in Seq(Metered(Orgs))
        BY <3>1
      <4> QED BY <4>1, FirstOf, Zenon
    <3> QED BY <3>1, <3>2
  <2>2. PICK f \in Seq(Metered(Orgs)) : f = First(k, read)
    BY <2>1
  <2>3. Len(f) = l /\ \A i \in 1..l : f[i] = read[i]
    BY <2>1, <2>2
  <2>4. SubSeq(f, 1, Len(f)) = SubSeq(read, 1, Len(f))
    <3>1. SubSeq(f, 1, l) = [i \in 1..l |-> f[i]]
      BY <2>3
    <3>2. SubSeq(read, 1, l) = [i \in 1..l |-> read[i]]
      BY <1>10
    <3> QED BY <2>3, <3>1, <3>2
  <2>5. IsPrefix(f, read)
    BY <1>10, <2>3, <2>4 DEF IsPrefix
  <2> QED BY <1>8, <2>2, <2>5
<1> QED BY <1>2, <1>4, <1>5, <1>7, <1>10, <1>11, <1>12

\* However many records of however many organisations: each is accounted to its
\* own and to no other, what is read back is the newest first, and a budget is
\* refused exactly when the estimate passes it (UsageTracker).
THEOREM EveryMeteringWhole ==
    ASSUME NEW Orgs, NEW records \in Seq(Metered(Orgs)), \A i \in DOMAIN records : records[i].at = i,
           NEW org, NEW limit \in Nat \union {NoLimit}, NEW estimate \in Nat
    PROVE  MeteringWhole(records, org, limit, estimate)
<1> DEFINE Used(o) == OrgSummary(records, o).input + OrgSummary(records, o).output
<1>1. PICK owners : owners = {records[i].org : i \in DOMAIN records}
  OBVIOUS
<1>2. PICK tokens : tokens = [o \in owners \union {org} |-> Used(o)]
  OBVIOUS
<1>3. PICK all : all = Total(BothOf(records))
  OBVIOUS
<1>4. PICK others : others = Total([o \in owners \ {org} |-> Used(o)])
  OBVIOUS
<1>5. \A o : Used(o) = Count(BothOf(records), PlacesOf(records, o)) /\ Used(o) \in Nat
  BY SummaryCounts
<1>6. /\ Total([o \in owners |-> Used(o)]) = all /\ others \in Nat /\ all = others + Used(org)
  <2>1. ASSUME NEW o PROVE Used(o) = Count(BothOf(records), PlacesOf(records, o))
    BY <1>5
  <2>2. \A o \in owners \union {org} : tokens[o] = Used(o)
    BY <1>2
  <2>3. \A o \in owners \union {org} : tokens[o] = Count(BothOf(records), PlacesOf(records, o))
    BY <2>1, <2>2
  <2>4. /\ [o \in owners |-> Used(o)] = [o \in owners |-> tokens[o]]
        /\ [o \in owners \ {org} |-> Used(o)] = [o \in owners \ {org} |-> tokens[o]]
        /\ Used(org) = tokens[org]
    BY <2>2
  <2>5. /\ Total([o \in owners |-> tokens[o]]) = Total(BothOf(records))
        /\ Total([o \in owners \ {org} |-> tokens[o]]) \in Nat
        /\ Total(BothOf(records)) = Total([o \in owners \ {org} |-> tokens[o]]) + tokens[org]
    <3>1. owners = OwnersOf(records)
      BY <1>1 DEF OwnersOf
    <3>2. Accounted(tokens, records, OwnersOf(records) \union {org})
      BY <2>3, <3>1 DEF Accounted
    <3>3. /\ Total([o \in OwnersOf(records) |-> tokens[o]]) = Total(BothOf(records))
          /\ Total([o \in OwnersOf(records) \ {org} |-> tokens[o]]) \in Nat
          /\ Total(BothOf(records)) =
               Total([o \in OwnersOf(records) \ {org} |-> tokens[o]]) + tokens[org]
      BY <3>2, AllCounts
    <3> QED BY <3>1, <3>3
  <2> HIDE DEF Used
  <2> QED BY <1>3, <1>4, <2>4, <2>5
<1>7. CheckBudget(records, org, limit, estimate) <=> limit = NoLimit \/ Used(org) + estimate <= limit
  BY DEF CheckBudget
<1>8. limit # NoLimit =>
        (CheckBudget(records, org, limit, estimate) <=> all - others + estimate <= limit)
  BY <1>5, <1>6, <1>7 DEF NoLimit
<1>9. all = Total([i \in DOMAIN records |-> records[i].input + records[i].output])
  BY <1>3 DEF BothOf
<1>10. OrgSummary(records, org).count = Cardinality(PlacesOf(records, org))
  BY SummaryCounts
<1>11. PICK read : read = RecordsForOrg(records, org, NoLimit)
  OBVIOUS
<1>12. /\ Len(read) = OrgSummary(records, org).count
       /\ \A i, j \in DOMAIN read : i < j => read[i].at > read[j].at
       /\ \A k \in 0..Len(read) : IsPrefix(RecordsForOrg(records, org, k), read)
  BY <1>10, <1>11, ReadBack
<1> QED BY <1>1, <1>4, <1>6, <1>8, <1>9, <1>11, <1>12, Zenon DEF MeteringWhole

-----------------------------------------------------------------------------
(* Inherited settings                                                      *)

SettersOf(chain) == {i \in DOMAIN chain : chain[i].value # Unset}
LockersOf(chain) == {i \in SettersOf(chain) : chain[i].locks}
Decides(chain, k) ==
    /\ k \in SettersOf(chain)
    /\ LockersOf(chain) # {} => k \in LockersOf(chain) /\ \A l \in LockersOf(chain) : k <= l
    /\ LockersOf(chain) = {} => \A l \in SettersOf(chain) : l <= k
Decider(chain) == CHOOSE k : Decides(chain, k)
\* What is in force at the end of a chain.
InForce(chain) ==
    [entry |-> IF SettersOf(chain) = {} THEN NoEntry
               ELSE EntryOf(chain[Decider(chain)], Decider(chain)),
     closed |-> LockersOf(chain) # {}]

\* Where a value is set, one organisation decides it.
LEMMA DeciderIs ==
    ASSUME NEW chain \in Seq(Settings)
    PROVE  /\ SettersOf(chain) # {} => Decides(chain, Decider(chain))
           /\ \A k : Decides(chain, k) => Decider(chain) = k
<1>1. PICK n \in Nat : n = Len(chain) /\ DOMAIN chain = 1..n
  BY ListHas
<1>2. SettersOf(chain) \in SUBSET (1..n) /\ LockersOf(chain) \in SUBSET SettersOf(chain)
  BY <1>1 DEF SettersOf, LockersOf
<1>3. ASSUME NEW k, NEW l, Decides(chain, k), Decides(chain, l) PROVE k = l
  <2>1. k \in Nat /\ l \in Nat
    BY <1>2, <1>3 DEF Decides
  <2>2. k <= l /\ l <= k
    BY <1>3 DEF Decides
  <2> QED BY <2>1, <2>2
<1>4. ASSUME SettersOf(chain) # {} PROVE \E k : Decides(chain, k)
  <2>1. CASE LockersOf(chain) # {}
    <3>1. LockersOf(chain) \in SUBSET Nat
      BY <1>2
    <3>2. PICK k : k \in LockersOf(chain) /\ \A l \in LockersOf(chain) : k <= l
      BY <2>1, <3>1, SmallestOf
    <3> QED BY <1>2, <2>1, <3>2 DEF Decides
  <2>2. CASE LockersOf(chain) = {}
    <3>1. PICK S : S = {n - i : i \in SettersOf(chain)}
      OBVIOUS
    <3>2. S \in SUBSET Nat /\ S # {}
      BY <1>2, <1>4, <3>1
    <3>3. PICK m : m \in S /\ \A l \in S : m <= l
      BY <3>2, SmallestOf
    <3>4. PICK k \in SettersOf(chain) : m = n - k
      BY <3>1, <3>3
    <3>5. ASSUME NEW l \in SettersOf(chain) PROVE l <= k
      <4>1. n - k <= n - l /\ k \in 1..n /\ l \in 1..n
        BY <1>2, <3>1, <3>3, <3>4
      <4> QED BY <4>1
    <3> QED BY <2>2, <3>4, <3>5 DEF Decides
  <2> QED BY <2>1, <2>2
<1>5. ASSUME NEW k, Decides(chain, k) PROVE Decides(chain, Decider(chain))
  BY <1>5, Zenon DEF Decider
<1> QED BY <1>3, <1>4, <1>5

\* An entry that is in force was set, and whether it is locked tells whether
\* anyone above has locked it.
LEMMA ForceHas ==
    ASSUME NEW chain \in Seq(Settings)
    PROVE  /\ SettersOf(chain) = {} <=> InForce(chain).entry = NoEntry
           /\ InForce(chain).closed <=> InForce(chain).entry # NoEntry /\ InForce(chain).entry.locked
<1>1. \A i \in DOMAIN chain : chain[i].value \in Nat /\ chain[i].locks \in BOOLEAN
  <2>1. \A i \in DOMAIN chain : chain[i] \in Settings
    OBVIOUS
  <2> QED BY <2>1 DEF Settings
<1>2. CASE SettersOf(chain) = {}
  BY <1>2 DEF InForce, LockersOf, NoEntry
<1>3. CASE SettersOf(chain) # {}
  <2>1. PICK k : k = Decider(chain)
    OBVIOUS
  <2>2. Decides(chain, k)
    BY <1>3, <2>1, DeciderIs
  <2>3. k \in DOMAIN chain /\ chain[k].value # Unset /\ (LockersOf(chain) # {} <=> chain[k].locks)
    BY <2>2 DEF Decides, SettersOf, LockersOf
  <2>4. /\ InForce(chain).entry = [value |-> chain[k].value, locked |-> chain[k].locks, source |-> k]
        /\ InForce(chain).closed <=> LockersOf(chain) # {}
    BY <1>3, <2>1 DEF InForce, EntryOf
  <2>5. InForce(chain).entry # NoEntry
    BY <2>3, <2>4 DEF NoEntry
  <2> QED BY <1>3, <2>3, <2>4, <2>5
<1> QED BY <1>2, <1>3

\* One organisation further down.
LEMMA ForceStep ==
    ASSUME NEW chain \in Seq(Settings), chain # <<>>
    PROVE  /\ Front(chain) \in Seq(Settings) /\ Len(chain) \in Nat /\ Len(Front(chain)) = Len(chain) - 1
           /\ InForce(chain) = ApplyNode(InForce(Front(chain)), Last(chain), Len(chain))
           /\ InForce(chain).entry = MergeSettings(InForce(Front(chain)).entry, Last(chain), Len(chain))
<1>1. PICK n \in Nat : n = Len(chain) /\ DOMAIN chain = 1..n /\ n > 0
  OBVIOUS
<1>2. PICK f : f = Front(chain)
  OBVIOUS
<1>3. f \in Seq(Settings) /\ Len(f) = n - 1 /\ DOMAIN f = 1..(n - 1) /\ \A i \in 1..(n - 1) : f[i] = chain[i]
  BY <1>1, <1>2 DEF Front
<1>4. Last(chain) = chain[n]
  BY <1>1 DEF Last
<1>5. chain[n] \in Settings /\ chain[n].value \in Nat /\ chain[n].locks \in BOOLEAN
  <2>1. chain[n] \in Settings
    BY <1>1
  <2> QED BY <2>1 DEF Settings
<1>6. \A i \in 1..n : i \in 1..(n - 1) <=> i # n
  BY <1>1
<1>7. /\ SettersOf(f) = SettersOf(chain) \ {n} /\ LockersOf(f) = LockersOf(chain) \ {n}
      /\ n \in SettersOf(chain) <=> chain[n].value # Unset
      /\ n \in LockersOf(chain) <=> chain[n].value # Unset /\ chain[n].locks
      /\ SettersOf(f) \in SUBSET (1..(n - 1)) /\ LockersOf(f) \in SUBSET SettersOf(f)
      /\ SettersOf(chain) \in SUBSET (1..n)
  <2>1. SettersOf(f) = SettersOf(chain) \ {n}
    BY <1>1, <1>3, <1>6 DEF SettersOf
  <2>2. LockersOf(f) = LockersOf(chain) \ {n}
    BY <1>1, <1>3, <1>6, <2>1 DEF SettersOf, LockersOf
  <2>3. SettersOf(f) \in SUBSET (1..(n - 1)) /\ LockersOf(f) \in SUBSET SettersOf(f)
    BY <1>3 DEF SettersOf, LockersOf
  <2>4. /\ n \in SettersOf(chain) <=> chain[n].value # Unset
        /\ n \in LockersOf(chain) <=> chain[n].value # Unset /\ chain[n].locks
    BY <1>1 DEF SettersOf, LockersOf
  <2>5. SettersOf(chain) \in SUBSET (1..n)
    BY <1>1 DEF SettersOf
  <2> QED BY <2>1, <2>2, <2>3, <2>4, <2>5
<1>8. ASSUME chain[n].value = Unset \/ LockersOf(f) # {} PROVE InForce(chain) = InForce(f)
  <2>1. CASE SettersOf(f) = {}
    <3>1. LockersOf(f) = {} /\ SettersOf(chain) = {} /\ LockersOf(chain) = {}
      BY <1>7, <1>8, <2>1 DEF LockersOf
    <3> QED BY <2>1, <3>1 DEF InForce
  <2>2. CASE SettersOf(f) # {}
    <3>1. PICK k : k = Decider(f) /\ Decides(f, k)
      BY <1>3, <2>2, DeciderIs
    <3>2. k \in 1..(n - 1) /\ k \in SettersOf(chain)
      BY <1>7, <3>1 DEF Decides
    <3>3. LockersOf(chain) # {} <=> LockersOf(f) # {}
      <4>1. n \in LockersOf(chain) => LockersOf(f) # {}
        BY <1>7, <1>8
      <4> QED BY <1>7, <4>1
    <3>4. Decides(chain, k)
      <4>1. CASE LockersOf(f) # {}
        <5>1. k \in LockersOf(f) /\ \A l \in LockersOf(f) : k <= l
          BY <3>1, <4>1 DEF Decides
        <5>2. \A l \in LockersOf(chain) : l \in LockersOf(f) \/ l = n
          BY <1>7
        <5>3. k <= n
          BY <3>2
        <5>4. k \in LockersOf(chain) /\ \A l \in LockersOf(chain) : k <= l
          BY <1>7, <5>1, <5>2, <5>3
        <5> QED BY <3>2, <3>3, <4>1, <5>4 DEF Decides
      <4>2. CASE LockersOf(f) = {}
        <5>1. SettersOf(f) = SettersOf(chain)
          BY <1>7, <1>8, <4>2
        <5>2. \A l \in SettersOf(chain) : l <= k
          BY <3>1, <4>2, <5>1 DEF Decides
        <5> QED BY <3>2, <3>3, <4>2, <5>2 DEF Decides
      <4> QED BY <4>1, <4>2
    <3>5. Decider(chain) = k
      BY <3>4, DeciderIs
    <3>6. f[k] = chain[k] /\ SettersOf(chain) # {}
      BY <1>3, <3>2
    <3> QED BY <2>2, <3>1, <3>3, <3>5, <3>6 DEF InForce
  <2> QED BY <2>1, <2>2
<1>9. ASSUME chain[n].value # Unset, LockersOf(f) = {}
      PROVE  InForce(chain) = [entry |-> EntryOf(chain[n], n), closed |-> chain[n].locks]
  <2>1. n \in SettersOf(chain) /\ LockersOf(chain) = IF chain[n].locks THEN {n} ELSE {}
    BY <1>7, <1>9
  <2>2. Decides(chain, n)
    <3>1. \A l \in SettersOf(chain) : l <= n
      BY <1>7
    <3> QED BY <1>1, <2>1, <3>1 DEF Decides
  <2>3. Decider(chain) = n
    BY <2>2, DeciderIs
  <2>4. (LockersOf(chain) # {}) = chain[n].locks
    BY <1>5, <2>1
  <2> QED BY <2>1, <2>3, <2>4 DEF InForce
<1>10. /\ InForce(f).closed <=> LockersOf(f) # {}
       /\ InForce(f).closed <=> InForce(f).entry # NoEntry /\ InForce(f).entry.locked
  BY <1>3, ForceHas DEF InForce
<1>11. InForce(chain) = ApplyNode(InForce(f), chain[n], n)
  BY <1>8, <1>9, <1>10 DEF ApplyNode
<1>12. InForce(chain).entry = MergeSettings(InForce(f).entry, chain[n], n)
  <2>1. CASE chain[n].value = Unset \/ LockersOf(f) # {}
    BY <1>8, <1>10, <2>1 DEF MergeSettings
  <2>2. CASE chain[n].value # Unset /\ LockersOf(f) = {}
    BY <1>9, <1>10, <2>2 DEF MergeSettings
  <2> QED BY <2>1, <2>2
<1> QED BY <1>1, <1>2, <1>3, <1>4, <1>11, <1>12

\* Applying the organisations one after the other gives what is in force.
LEMMA AppliedIs ==
    ASSUME NEW chain \in Seq(Settings)
    PROVE  Applied[chain] = InForce(chain)
<1> DEFINE Step(f, c) ==
             IF c = <<>> THEN NothingApplied
             ELSE ApplyNode(f[Front(c)], Last(c), Len(c))
<1>1. PICK f : f = [c \in Seq(Settings) |-> InForce(c)]
  OBVIOUS
<1>0. \A c \in Seq(Settings) : c = <<>> => InForce(c) = NothingApplied
  <2>1. ASSUME NEW c, c = <<>> PROVE SettersOf(c) = {} /\ LockersOf(c) = {}
    BY <2>1 DEF SettersOf, LockersOf
  <2> QED BY <2>1 DEF InForce, NothingApplied
<1>2. ASSUME NEW c \in Seq(Settings) PROVE InForce(c) = Step(f, c)
  <2>1. CASE c = <<>>
    BY <1>0, <2>1
  <2>2. CASE c # <<>>
    <3>1. /\ Front(c) \in Seq(Settings)
          /\ InForce(c) = ApplyNode(InForce(Front(c)), Last(c), Len(c))
      BY <2>2, ForceStep
    <3>2. f[Front(c)] = InForce(Front(c))
      BY <1>1, <3>1
    <3> QED BY <2>2, <3>1, <3>2
  <2> QED BY <2>1, <2>2
<1>3. f = [c \in Seq(Settings) |-> Step(f, c)]
  <2>1. \A c \in Seq(Settings) : InForce(c) = Step(f, c)
    BY <1>2
  <2> HIDE DEF Step
  <2> QED BY <1>1, <2>1
<1>4. Applied = [c \in Seq(Settings) |-> Step(Applied, c)]
  <2>1. Applied = CHOOSE g : g = [c \in Seq(Settings) |-> Step(g, c)]
    BY DEF Applied
  <2>2. \E g : g = [c \in Seq(Settings) |-> Step(g, c)]
    BY <1>3
  <2> QED BY <2>1, <2>2, Zenon
<1>5. \A c \in Seq(Settings) : Applied[c] = Step(Applied, c)
  <2> HIDE DEF Step
  <2> QED BY <1>4
<1>6. PICK Bad : Bad = {n \in Nat : \E c \in Seq(Settings) : Len(c) = n /\ Applied[c] # InForce(c)}
  OBVIOUS
<1>7. Bad = {}
  <2> SUFFICES ASSUME Bad # {} PROVE FALSE
    OBVIOUS
  <2>1. PICK n \in Bad : \A m \in Bad : n <= m
    BY <1>6, SmallestOf
  <2>2. PICK c \in Seq(Settings) : n \in Nat /\ Len(c) = n /\ Applied[c] # InForce(c)
    BY <1>6
  <2>3. Applied[c] = Step(Applied, c)
    BY <1>5, <2>2
  <2>4. c # <<>>
    BY <1>0, <2>2, <2>3
  <2>5. /\ Front(c) \in Seq(Settings) /\ Len(c) \in Nat /\ Len(Front(c)) = Len(c) - 1
        /\ InForce(c) = ApplyNode(InForce(Front(c)), Last(c), Len(c))
    BY <2>4, ForceStep
  <2>6. Applied[Front(c)] = InForce(Front(c))
    <3>1. Len(Front(c)) \in Nat /\ Len(Front(c)) < n
      BY <2>2, <2>5
    <3>2. Len(Front(c)) \notin Bad
      BY <2>1, <2>2, <3>1
    <3> QED BY <1>6, <2>5, <3>1, <3>2
  <2>7. Applied[c] = ApplyNode(Applied[Front(c)], Last(c), Len(c))
    BY <2>3, <2>4
  <2> QED BY <2>2, <2>5, <2>6, <2>7
<1>8. Len(chain) \in Nat
  OBVIOUS
<1> QED BY <1>6, <1>7, <1>8

\* So does merging them, two by two.
LEMMA MergedIs ==
    ASSUME NEW chain \in Seq(Settings)
    PROVE  Merged[chain] = InForce(chain).entry
<1> DEFINE Step(f, c) ==
             IF c = <<>> THEN NoEntry
             ELSE MergeSettings(f[Front(c)], Last(c), Len(c))
<1>1. PICK f : f = [c \in Seq(Settings) |-> InForce(c).entry]
  OBVIOUS
<1>0. \A c \in Seq(Settings) : c = <<>> => InForce(c).entry = NoEntry
  <2>1. ASSUME NEW c, c = <<>> PROVE SettersOf(c) = {} /\ LockersOf(c) = {}
    BY <2>1 DEF SettersOf, LockersOf
  <2> QED BY <2>1 DEF InForce, NothingApplied
<1>2. ASSUME NEW c \in Seq(Settings) PROVE InForce(c).entry = Step(f, c)
  <2>1. CASE c = <<>>
    BY <1>0, <2>1
  <2>2. CASE c # <<>>
    <3>1. /\ Front(c) \in Seq(Settings)
          /\ InForce(c).entry = MergeSettings(InForce(Front(c)).entry, Last(c), Len(c))
      BY <2>2, ForceStep
    <3>2. f[Front(c)] = InForce(Front(c)).entry
      BY <1>1, <3>1
    <3> QED BY <2>2, <3>1, <3>2
  <2> QED BY <2>1, <2>2
<1>3. f = [c \in Seq(Settings) |-> Step(f, c)]
  <2>1. \A c \in Seq(Settings) : InForce(c).entry = Step(f, c)
    BY <1>2
  <2> HIDE DEF Step
  <2> QED BY <1>1, <2>1
<1>4. Merged = [c \in Seq(Settings) |-> Step(Merged, c)]
  <2>1. Merged = CHOOSE g : g = [c \in Seq(Settings) |-> Step(g, c)]
    BY DEF Merged
  <2>2. \E g : g = [c \in Seq(Settings) |-> Step(g, c)]
    BY <1>3
  <2> QED BY <2>1, <2>2, Zenon
<1>5. \A c \in Seq(Settings) : Merged[c] = Step(Merged, c)
  <2> HIDE DEF Step
  <2> QED BY <1>4
<1>6. PICK Bad : Bad = {n \in Nat : \E c \in Seq(Settings) : Len(c) = n /\ Merged[c] # InForce(c).entry}
  OBVIOUS
<1>7. Bad = {}
  <2> SUFFICES ASSUME Bad # {} PROVE FALSE
    OBVIOUS
  <2>1. PICK n \in Bad : \A m \in Bad : n <= m
    BY <1>6, SmallestOf
  <2>2. PICK c \in Seq(Settings) : n \in Nat /\ Len(c) = n /\ Merged[c] # InForce(c).entry
    BY <1>6
  <2>3. Merged[c] = Step(Merged, c)
    BY <1>5, <2>2
  <2>4. c # <<>>
    BY <1>0, <2>2, <2>3
  <2>5. /\ Front(c) \in Seq(Settings) /\ Len(c) \in Nat /\ Len(Front(c)) = Len(c) - 1
        /\ InForce(c).entry = MergeSettings(InForce(Front(c)).entry, Last(c), Len(c))
    BY <2>4, ForceStep
  <2>6. Merged[Front(c)] = InForce(Front(c)).entry
    <3>1. Len(Front(c)) \in Nat /\ Len(Front(c)) < n
      BY <2>2, <2>5
    <3>2. Len(Front(c)) \notin Bad
      BY <2>1, <2>2, <3>1
    <3> QED BY <1>6, <2>5, <3>1, <3>2
  <2>7. Merged[c] = MergeSettings(Merged[Front(c)], Last(c), Len(c))
    BY <2>3, <2>4
  <2> QED BY <2>2, <2>5, <2>6, <2>7
<1>8. Len(chain) \in Nat
  OBVIOUS
<1> QED BY <1>6, <1>7, <1>8

\* However long a chain of organisations: the highest that sets and locks a value
\* decides it, else the lowest that sets it, and merging level by level gives the
\* same (resolve_settings, merge_settings).
THEOREM EverySettingsLocked ==
    ASSUME NEW chain \in Seq(Settings)
    PROVE  SettingsLocked(chain, ResolveSettings(chain))
<1>1. PICK entry : entry = InForce(chain).entry
  OBVIOUS
<1>2. ResolveSettings(chain) = entry /\ Merged[chain] = entry
  BY <1>1, AppliedIs, MergedIs DEF ResolveSettings
<1>3. PICK n \in Nat : n = Len(chain) /\ DOMAIN chain = 1..n
  BY ListHas
<1>4. PICK setters : setters = SettersOf(chain)
  OBVIOUS
<1>5. PICK lockers : lockers = LockersOf(chain)
  OBVIOUS
<1>6. setters \in SUBSET (1..n) /\ lockers \in SUBSET setters
  BY <1>3, <1>4, <1>5 DEF SettersOf, LockersOf
<1>7. setters = {} <=> entry = NoEntry
  BY <1>1, <1>4, ForceHas
<1>8. ASSUME setters # {}
      PROVE  /\ entry.value = chain[entry.source].value
             /\ lockers # {} => entry.source = Min(lockers) /\ entry.locked
             /\ lockers = {} => entry.source = Max(setters) /\ ~entry.locked
  <2>1. PICK k : k = Decider(chain)
    OBVIOUS
  <2>2. Decides(chain, k)
    BY <1>4, <1>8, <2>1, DeciderIs
  <2>3. /\ k \in setters
        /\ lockers # {} => k \in lockers /\ \A l \in lockers : k <= l
        /\ lockers = {} => \A l \in setters : l <= k
    BY <1>4, <1>5, <2>2 DEF Decides
  <2>4. entry = [value |-> chain[k].value, locked |-> chain[k].locks, source |-> k]
    BY <1>1, <1>4, <1>8, <2>1 DEF InForce, EntryOf
  <2>5. k \in lockers <=> chain[k].locks
    BY <1>4, <1>5, <2>3 DEF LockersOf
  <2>6. ASSUME lockers # {} PROVE k = Min(lockers)
    <3>1. lockers \in SUBSET Nat
      BY <1>6
    <3>2. Min(lockers) \in lockers /\ \A l \in lockers : Min(lockers) <= l
      BY <2>6, <3>1, SmallestOf
    <3>3. k <= Min(lockers) /\ Min(lockers) <= k /\ k \in Nat /\ Min(lockers) \in Nat
      BY <2>3, <2>6, <3>1, <3>2
    <3> QED BY <3>3
  <2>7. ASSUME lockers = {} PROVE k = Max(setters)
    <3>1. \A l \in setters : k >= l
      BY <1>6, <2>3, <2>7
    <3>2. \A m \in setters : (\A l \in setters : m >= l) => m = k
      BY <1>6, <2>3, <3>1
    <3> QED BY <2>3, <3>1, <3>2 DEF Max
  <2> QED BY <2>3, <2>4, <2>5, <2>6, <2>7
<1> QED BY <1>2, <1>4, <1>5, <1>7, <1>8 DEF SettingsLocked, SettersOf, LockersOf

-----------------------------------------------------------------------------
(* What the pages ask of a turn                                            *)

\* A decision that is none of a turn's leaves it nothing to answer for.
NoContentKinds == {"fusion", "search", "allocation", "truncation", "context", "rewrite",
                   "gateway", "socket", "content", "redaction", "label",
                   "batch", "head", "confidence", "audit", "retry", "header", "report"}

\* A question of another kind changes nothing of what is said about these.
LEMMA NoContentAsked ==
    ASSUME question'.kind \in NoContentKinds
    PROVE  ContentDecides'
BY DEF NoContentKinds, ContentDecides

\* Of each question the pages ask about a turn, the answer is right.
LEMMA PersonaAsked == ASSUME AskPersona PROVE ContentDecides'
<1>1. PICK tier \in Tiers \union {NoTier, "kiosk"}, custom \in CustomPersonas, n \in 0..2 :
        \E rules \in [1..n -> Rules] :
          Ask("persona", [tier |-> tier, rules |-> rules, custom |-> custom],
              ResolvePersona(tier, rules, custom))
  BY DEF AskPersona
<1>2. PICK rules \in [1..n -> Rules] :
        Ask("persona", [tier |-> tier, rules |-> rules, custom |-> custom],
            ResolvePersona(tier, rules, custom))
  BY <1>1
<1>3. /\ question'.kind = "persona"
      /\ question'.in = [tier |-> tier, rules |-> rules, custom |-> custom]
      /\ answer' = ResolvePersona(tier, rules, custom)
  BY <1>2 DEF Ask
<1>4. PICK Names : Names = {"", "brand_hq", "franchise_store", "kiosk", "warm"}
  OBVIOUS
<1>5. rules \in Seq(Ruled(Names))
  <2>1. PICK T : T = Ruled(Names)
    OBVIOUS
  <2>2. Rules \subseteq T
    BY <1>4, <2>1 DEF Rules, RuleNames, Ruled
  <2>3. rules \in [1..n -> T]
    BY <2>2
  <2>4. rules \in Seq(T)
    BY <2>3
  <2> QED BY <2>1, <2>4
<1>6. \E Tailored, Terms : custom \in [Tailored -> Voices(Terms)]
  <2>0. PICK Terms : Terms = {"house", "warm", "concise"}
    OBVIOUS
  <2>1. CASE custom = <<>>
    <3>1. <<>> \in [{} -> Voices(Terms)]
      OBVIOUS
    <3> QED BY <2>1, <3>1
  <2>2. CASE custom = [brand_hq |-> Persona("house", "warm", 2, "concise")]
    <3>1. Persona("house", "warm", 2, "concise") \in Voices(Terms)
      <4>1. "house" \in Terms /\ "warm" \in Terms /\ "concise" \in Terms
        BY <2>0
      <4>2. 2 \in 1..5
        OBVIOUS
      <4> QED BY <4>1, <4>2, Zenon DEF Persona, Voices
    <3>2. custom \in [{"brand_hq"} -> Voices(Terms)]
      BY <2>2, <3>1
    <3> QED BY <3>2
  <2> QED BY <2>1, <2>2 DEF CustomPersonas
<1>7. PersonaFits(tier, rules, custom, ResolvePersona(tier, rules, custom))
  BY <1>5, <1>6, EveryPersonaFits
<1> QED BY <1>3, <1>7 DEF ContentDecides

LEMMA TurnAsked == ASSUME AskTurn PROVE ContentDecides'
<1>1. PICK c \in [classifier : BOOLEAN, message : Messages, memory : {"works", "fails"},
                  skill : {"none", "unrouted", "succeeds", "fails", "raises"},
                  model : {"answers", "silent", "fails"}, tracker : BOOLEAN,
                  store : {"none", "works", "half", "fails"},
                  pipeline : {"none", "works", "fails"}] : Ask("turn", c, Turn(c))
  BY DEF AskTurn
<1>2. question'.kind = "turn" /\ question'.in = c /\ answer' = Turn(c)
  BY <1>1 DEF Ask
<1>3. PICK Phrases : Phrases = {"merchandising", "product description", "create article", "write product"}
  OBVIOUS
<1>4. Messages \subseteq SUBSET Phrases
  BY <1>3 DEF Messages
<1>5. c \in AnyTurn(Phrases)
  BY <1>4 DEF AnyTurn
<1>6. TurnHolds(c, Turn(c))
  BY <1>5, EveryTurnHolds
<1> QED BY <1>2, <1>6 DEF ContentDecides

LEMMA PromptAsked == ASSUME AskPrompt PROVE ContentDecides'
<1>1. PICK n \in {0, 2, 10, 11, 13}, system \in SystemPrompts, answers \in SUBSET {2, 10, 11, 13},
           blanks \in SUBSET {2, 10, 11, 13} :
        Ask("prompt", [history |-> Talk(n, answers, blanks), system |-> system],
            BuildPrompt(system, Talk(n, answers, blanks), "query"))
  BY DEF AskPrompt
<1>2. PICK history : history = Talk(n, answers, blanks)
  OBVIOUS
<1>3. /\ question'.kind = "prompt" /\ question'.in = [history |-> history, system |-> system]
      /\ answer' = BuildPrompt(system, history, "query")
  BY <1>1, <1>2 DEF Ask
<1>4. PICK Roles : Roles = {"user", "assistant", "system"}
  OBVIOUS
<1>5. PICK Contents : Contents = {history[i].content : i \in 1..n} \union {"", "system", "query"}
  OBVIOUS
<1>6. history \in Seq(Spoken(Roles, Contents))
  <2>1. PICK T : T = Spoken(Roles, Contents)
    OBVIOUS
  <2>2. ASSUME NEW i \in 1..n PROVE history[i] \in T
    <3>1. PICK role, content : role = (IF i \in answers THEN "assistant" ELSE "user")
                               /\ content = (IF i \in blanks THEN "" ELSE ToString(i))
      OBVIOUS
    <3>2. history[i] = [role |-> role, content |-> content]
      BY <1>2, <3>1 DEF Talk
    <3>3. role \in Roles
      <4>1. "assistant" \in Roles /\ "user" \in Roles
        BY <1>4
      <4> QED BY <3>1, <4>1, Zenon
    <3>4. content \in Contents
      <4>1. history[i].content = content
        BY <3>2
      <4> QED BY <1>5, <4>1
    <3> QED BY <2>1, <3>2, <3>3, <3>4 DEF Spoken
  <2>3. history = [i \in 1..n |-> history[i]]
    BY <1>2 DEF Talk
  <2>4. history \in [1..n -> T]
    BY <2>2, <2>3
  <2>5. history \in Seq(T)
    BY <2>4
  <2> QED BY <2>1, <2>5
<1>7. system \in Contents /\ {"user", "system"} \subseteq Roles /\ "query" \in Contents
  <2>1. system \in Contents /\ "query" \in Contents
    BY <1>5, Zenon DEF SystemPrompts
  <2> QED BY <1>4, <2>1
<1>8. PromptHolds(history, system, BuildPrompt(system, history, "query"))
  BY <1>6, <1>7, EveryPromptHolds
<1> QED BY <1>3, <1>8 DEF ContentDecides

LEMMA ParamsAsked == ASSUME AskParams PROVE ContentDecides'
<1>1. ASSUME NEW Given, NEW params \in [Given -> {"absent", "blank", "text", "number"}],
             NEW required, NEW Specified, NEW specs \in [Specified -> {"int", "str"}],
             Ask("params", [params |-> params, required |-> required, specs |-> specs],
                 ValidateParams(params, required, specs))
      PROVE  ContentDecides'
  <2>1. /\ question'.kind = "params"
        /\ question'.in = [params |-> params, required |-> required, specs |-> specs]
        /\ answer' = ValidateParams(params, required, specs)
    BY <1>1 DEF Ask
  <2>2. ParamsChecked(params, required, specs, ValidateParams(params, required, specs))
    BY EveryParamChecked
  <2> QED BY <2>1, <2>2 DEF ContentDecides
<1>2. CASE \E params \in [{"topic", "platform", "persona", "max_length"} ->
                            {"absent", "blank", "text", "number"}] :
             Ask("params", [params |-> params, required |-> WriterRequired, specs |-> WriterSpecs],
                 ValidateParams(params, WriterRequired, WriterSpecs))
  <2>1. WriterSpecs \in [{"topic", "platform", "persona", "max_length"} -> {"int", "str"}]
    BY DEF WriterSpecs
  <2> QED BY <1>1, <1>2, <2>1
<1>3. CASE \E params \in [{"sku_id", "max_combinations"} -> {"absent", "blank", "text", "number"}] :
             Ask("params", [params |-> params, required |-> MerchandisingRequired,
                            specs |-> MerchandisingSpecs],
                 ValidateParams(params, MerchandisingRequired, MerchandisingSpecs))
  <2>1. MerchandisingSpecs \in [{"sku_id", "category", "max_combinations"} -> {"int", "str"}]
    BY DEF MerchandisingSpecs
  <2> QED BY <1>1, <1>3, <2>1
<1> QED BY <1>2, <1>3 DEF AskParams

LEMMA OutfitsAsked == ASSUME AskOutfits PROVE ContentDecides'
<1>1. PICK n \in 0..3, category \in Categories, maximum \in {0, 1, 5} :
        \E rules \in [1..n -> OutfitRules] :
          Ask("outfits", [rules |-> rules, sku |-> "s", category |-> category,
                          minScore |-> 6, maximum |-> maximum],
              GenerateCombinations(rules, "s", category, 6, maximum))
  BY DEF AskOutfits
<1>2. PICK rules \in [1..n -> OutfitRules] :
        Ask("outfits", [rules |-> rules, sku |-> "s", category |-> category,
                        minScore |-> 6, maximum |-> maximum],
            GenerateCombinations(rules, "s", category, 6, maximum))
  BY <1>1
<1>3. /\ question'.kind = "outfits"
      /\ question'.in = [rules |-> rules, sku |-> "s", category |-> category,
                         minScore |-> 6, maximum |-> maximum]
      /\ answer' = GenerateCombinations(rules, "s", category, 6, maximum)
  BY <1>2 DEF Ask
<1>4. PICK Names : Names = {"s", "t", "", "shoes", "hats"}
  OBVIOUS
<1>5. rules \in Seq(Outfit(Names))
  <2>1. PICK T : T = Outfit(Names)
    OBVIOUS
  <2>2. ASSUME NEW r \in OutfitRules PROVE r \in T
    <3>1. r.source \in {"s", "t"} /\ r.category \in {"", "shoes", "hats"}
      BY Zenon DEF OutfitRules
    <3>5. r.score \in {5, 6, 9}
      BY Zenon DEF OutfitRules
    <3>2. r = [source |-> r.source, score |-> r.score, category |-> r.category]
      BY DEF OutfitRules
    <3>3. r.source \in Names /\ r.category \in Names
      BY <1>4, <3>1
    <3>4. r.score \in Int
      BY <3>5
    <3> QED BY <2>1, <3>2, <3>3, <3>4 DEF Outfit
  <2>3. rules \in [1..n -> T]
    BY <2>2
  <2>4. rules \in Seq(T)
    BY <2>3
  <2> QED BY <2>1, <2>4
<1>6. 6 \in Int /\ maximum \in Nat
  <2>1. maximum \in {0, 1, 5}
    OBVIOUS
  <2> QED BY <2>1
<1>7. SelectionBest(rules, "s", category, 6, maximum,
                    GenerateCombinations(rules, "s", category, 6, maximum))
  BY <1>5, <1>6, EverySelectionBest
<1> QED BY <1>3, <1>7 DEF ContentDecides

LEMMA ToolAsked == ASSUME AskTool PROVE ContentDecides'
<1>1. CASE \E q \in [tool : {"image_analyze", "audio_transcribe"},
                     source : AllowedSources \union {"none", "ftp"},
                     storage : {"none", "answers", "fails"}, size : {10, 11, 25, 26},
                     backend : {"none", "answers", "fails"}] :
             Ask("media", q, ReadMedia(q.tool, q.source, q.storage, q.size, q.backend))
  <2>1. PICK q \in [tool : {"image_analyze", "audio_transcribe"},
                    source : AllowedSources \union {"none", "ftp"},
                    storage : {"none", "answers", "fails"}, size : {10, 11, 25, 26},
                    backend : {"none", "answers", "fails"}] :
             Ask("media", q, ReadMedia(q.tool, q.source, q.storage, q.size, q.backend))
    BY <1>1
  <2>2. /\ question'.kind = "media" /\ question'.in = q
        /\ answer' = ReadMedia(q.tool, q.source, q.storage, q.size, q.backend)
    BY <2>1 DEF Ask
  <2>3. /\ q.tool \in {"image_analyze", "audio_transcribe"}
        /\ q.source \in AllowedSources \union {"none", "ftp"}
        /\ q.storage \in {"none", "answers", "fails"} /\ q.backend \in {"none", "answers", "fails"}
        /\ q.size \in Nat
    OBVIOUS
  <2>4. MediaGuarded(q.tool, q.source, q.storage, q.size, q.backend,
                     ReadMedia(q.tool, q.source, q.storage, q.size, q.backend))
    BY <2>3, EveryToolGuarded
  <2> QED BY <2>2, <2>4 DEF ContentDecides
<1>2. CASE \E q \in [query : BOOLEAN, topK : {1, 10}, backend : {"none", "answers", "fails"},
                     found : {0, 3, 20}] :
             Ask("web", q, SearchWeb(q.query, q.topK, q.backend, q.found))
  <2>1. PICK q \in [query : BOOLEAN, topK : {1, 10}, backend : {"none", "answers", "fails"},
                    found : {0, 3, 20}] :
             Ask("web", q, SearchWeb(q.query, q.topK, q.backend, q.found))
    BY <1>2
  <2>2. /\ question'.kind = "web" /\ question'.in = q
        /\ answer' = SearchWeb(q.query, q.topK, q.backend, q.found)
    BY <2>1 DEF Ask
  <2>3. /\ q.query \in BOOLEAN /\ q.topK \in Nat /\ q.found \in Nat
        /\ q.backend \in {"none", "answers", "fails"}
        /\ q = [query |-> q.query, topK |-> q.topK, backend |-> q.backend, found |-> q.found]
    OBVIOUS
  <2>5. WebAnswers([query |-> q.query, topK |-> q.topK, backend |-> q.backend, found |-> q.found],
                   SearchWeb(q.query, q.topK, q.backend, q.found))
    <3>1. q.query \in BOOLEAN /\ q.topK \in Nat /\ q.found \in Nat
          /\ q.backend \in {"none", "answers", "fails"}
      BY <2>3
    <3> QED BY <3>1, EveryToolGuarded
  <2>4. WebAnswers(q, SearchWeb(q.query, q.topK, q.backend, q.found))
    BY <2>3, <2>5, Zenon
  <2> QED BY <2>2, <2>4 DEF ContentDecides
<1> QED BY <1>1, <1>2 DEF AskTool

LEMMA ModelAsked == ASSUME AskModel PROVE ContentDecides'
<1>1. PICK given \in ModelNames, default \in DefaultModels,
           ownUrl \in BOOLEAN, prompt \in BOOLEAN, n \in 0..3 :
        \E parts \in [1..n -> {"image", "text", "image_without_media"}] :
          Ask("model", [given |-> given, default |-> default, ownUrl |-> ownUrl,
                        prompt |-> prompt \/ parts = <<>>, parts |-> parts],
              [model |-> RequestedModel(given, default, ownUrl),
               blocks |-> BuildMessages(prompt \/ parts = <<>>, parts)])
  BY DEF AskModel
<1>2. PICK parts \in [1..n -> {"image", "text", "image_without_media"}] :
        Ask("model", [given |-> given, default |-> default, ownUrl |-> ownUrl,
                      prompt |-> prompt \/ parts = <<>>, parts |-> parts],
            [model |-> RequestedModel(given, default, ownUrl),
             blocks |-> BuildMessages(prompt \/ parts = <<>>, parts)])
  BY <1>1
<1>3. PICK asks \in BOOLEAN : asks = (prompt \/ parts = <<>>)
  OBVIOUS
<1>4. /\ question'.kind = "model"
      /\ question'.in = [given |-> given, default |-> default, ownUrl |-> ownUrl,
                         prompt |-> asks, parts |-> parts]
      /\ answer' = [model |-> RequestedModel(given, default, ownUrl),
                    blocks |-> BuildMessages(asks, parts)]
  BY <1>2, <1>3 DEF Ask
<1>5. PICK Names : Names = {"", "m", "d", "own"}
  OBVIOUS
<1>6. given \in Called(Names) /\ default \in Called(Names)
  BY <1>5 DEF ModelNames, DefaultModels, Called
<1>7. parts \in Seq({"image", "text", "image_without_media"})
  <2>1. PICK T : T = {"image", "text", "image_without_media"}
    OBVIOUS
  <2>2. parts \in [1..n -> T]
    BY <2>1
  <2>3. parts \in Seq(T)
    BY <2>2
  <2> QED BY <2>1, <2>3
<1>8. MessageKept(given, default, ownUrl, asks, parts,
                  RequestedModel(given, default, ownUrl), BuildMessages(asks, parts))
  <2>1. given \in Called(Names)
    BY <1>6
  <2>2. default \in Called(Names)
    BY <1>6
  <2>3. asks \in BOOLEAN /\ ownUrl \in BOOLEAN
    OBVIOUS
  <2> QED BY <1>7, <2>1, <2>2, <2>3, EveryMessageKept, Zenon
<1> QED BY <1>4, <1>8 DEF ContentDecides

LEMMA UsageAsked == ASSUME AskUsage PROVE ContentDecides'
<1>1. PICK n \in 0..3 :
        \E used \in [1..n -> [org : {"o1", "o2"}, input : {0, 2}, output : {1, 3}]],
           limit \in {NoLimit, 0, 5}, estimate \in {0, 1} :
          LET records == [i \in 1..n |-> [at |-> i, org |-> used[i].org,
                                          input |-> used[i].input, output |-> used[i].output]]
          IN Ask("usage", [records |-> records, limit |-> limit, estimate |-> estimate],
                 OrgSummary(records, "o1"))
  BY DEF AskUsage
<1>2. PICK used \in [1..n -> [org : {"o1", "o2"}, input : {0, 2}, output : {1, 3}]],
           limit \in {NoLimit, 0, 5}, estimate \in {0, 1} :
          LET records == [i \in 1..n |-> [at |-> i, org |-> used[i].org,
                                          input |-> used[i].input, output |-> used[i].output]]
          IN Ask("usage", [records |-> records, limit |-> limit, estimate |-> estimate],
                 OrgSummary(records, "o1"))
  BY <1>1
<1>3. PICK records : records = [i \in 1..n |-> [at |-> i, org |-> used[i].org,
                                          input |-> used[i].input, output |-> used[i].output]]
  OBVIOUS
<1>4. /\ question'.kind = "usage"
      /\ question'.in = [records |-> records, limit |-> limit, estimate |-> estimate]
      /\ answer' = OrgSummary(records, "o1")
  BY <1>2, <1>3 DEF Ask
<1>5. PICK Orgs : Orgs = {"o1", "o2"}
  OBVIOUS
<1>6. records \in Seq(Metered(Orgs)) /\ \A i \in DOMAIN records : records[i].at = i
  <2>1. PICK T : T = Metered(Orgs)
    OBVIOUS
  <2>2. ASSUME NEW i \in 1..n PROVE records[i] \in T /\ records[i].at = i
    <3>1. used[i].org \in Orgs /\ used[i].input \in Nat /\ used[i].output \in Nat
      BY <1>5
    <3> QED BY <1>3, <2>1, <3>1 DEF Metered
  <2>3. records \in [1..n -> T]
    BY <1>3, <2>2
  <2>4. records \in Seq(T) /\ DOMAIN records = 1..n
    BY <2>3
  <2> QED BY <2>1, <2>2, <2>4
<1>7. limit \in Nat \union {NoLimit} /\ estimate \in Nat
  OBVIOUS
<1>8. MeteringWhole(records, "o1", limit, estimate)
  BY <1>6, <1>7, EveryMeteringWhole
<1> QED BY <1>4, <1>8 DEF ContentDecides

LEMMA SettingsAsked == ASSUME AskSettings PROVE ContentDecides'
<1>1. PICK n \in 0..4 : \E chain \in [1..n -> [value : {Unset, 1, 2}, locks : BOOLEAN]] :
        Ask("settings", chain, ResolveSettings(chain))
  BY DEF AskSettings
<1>2. PICK chain \in [1..n -> [value : {Unset, 1, 2}, locks : BOOLEAN]] :
        Ask("settings", chain, ResolveSettings(chain))
  BY <1>1
<1>3. question'.kind = "settings" /\ question'.in = chain /\ answer' = ResolveSettings(chain)
  BY <1>2 DEF Ask
<1>4. chain \in Seq(Settings)
  <2>1. PICK T : T = Settings
    OBVIOUS
  <2>2. [value : {Unset, 1, 2}, locks : BOOLEAN] \subseteq T
    BY <2>1 DEF Settings, Unset
  <2>3. chain \in [1..n -> T]
    BY <2>2
  <2>4. chain \in Seq(T)
    BY <2>3
  <2> QED BY <2>1, <2>4
<1>5. SettingsLocked(chain, ResolveSettings(chain))
  BY <1>4, EverySettingsLocked
<1> QED BY <1>3, <1>5 DEF ContentDecides

LEMMA MarkupAsked == ASSUME AskMarkup PROVE ContentDecides'
<1>1. PICK text \in Texts :
        Ask("markup", text, [stripped |-> StripTags(text), escaped |-> EscapeHTML(text)])
  BY DEF AskMarkup
<1>2. /\ question'.kind = "markup" /\ question'.in = text
      /\ answer' = [stripped |-> StripTags(text), escaped |-> EscapeHTML(text)]
  BY <1>1 DEF Ask
<1>3. PICK T : T = Markup \union {"'", "quote", "amp;", "&"}
  OBVIOUS
<1>4. text \in Seq(T)
  <2>1. CASE text = Quoted
    <3>1. "'" \in T /\ "quote" \in T /\ "amp;" \in T /\ "&" \in T
      BY <1>3, Zenon
    <3>2. PICK a \in T : a = "'"
      BY <3>1, Zenon
    <3>3. PICK b \in T : b = "quote"
      BY <3>1, Zenon
    <3>4. PICK c \in T : c = "amp;"
      BY <3>1, Zenon
    <3>5. PICK d \in T : d = "&"
      BY <3>1, Zenon
    <3>6. text = <<a, b, c, d>>
      BY <2>1, <3>2, <3>3, <3>4, <3>5, Zenon DEF Quoted
    <3>7. <<a, b, c, d>> \in Seq(T)
      OBVIOUS
    <3> QED BY <3>6, <3>7, Zenon
  <2>2. CASE \E n \in 0..5 : text \in [1..n -> Markup]
    <3>1. PICK n \in 0..5 : text \in [1..n -> Markup]
      BY <2>2
    <3>2. text \in [1..n -> T]
      BY <1>3, <3>1
    <3> QED BY <3>2
  <2>3. text \in Short \/ text = Quoted
    BY DEF Texts
  <2>4. text \in Short => \E n \in 0..5 : text \in [1..n -> Markup]
    BY DEF Short
  <2> QED BY <2>1, <2>2, <2>3, <2>4
<1>5. MarkupHarmless(text, StripTags(text), EscapeHTML(text))
  BY <1>4, EveryMarkupHarmless
<1> QED BY <1>2, <1>5 DEF ContentDecides

\* What kinds the other questions are of.
LEMMA NoContentKind ==
    ASSUME NEW kind \in NoContentKinds, NEW input, NEW result, Ask(kind, input, result)
    PROVE  question'.kind \in NoContentKinds
BY DEF Ask

\* All other questions are of another kind.
LEMMA RestAsked ==
    ASSUME AskFusion \/ AskSearch \/ AskAllocation \/ AskTruncation \/ AskContext
           \/ AskGateway \/ AskSocket \/ AskFilters
           \/ AskRedaction \/ AskLabel \/ AskStorage \/ AskConfidence \/ AskAudit
           \/ AskRetry \/ AskHeader \/ AskReport
    PROVE  ContentDecides'
<1>1. question'.kind \in NoContentKinds
  <2>1. CASE AskGateway
    BY <2>1, NoContentKind, Zenon DEF AskGateway, NoContentKinds
  <2>2. CASE AskSocket
    BY <2>2, NoContentKind, Zenon DEF AskSocket, NoContentKinds
  <2>3. CASE AskFilters
    BY <2>3, NoContentKind, Zenon DEF AskFilters, NoContentKinds
  <2>4. CASE AskRedaction
    BY <2>4, NoContentKind, Zenon DEF AskRedaction, NoContentKinds
  <2>5. CASE AskLabel
    BY <2>5, NoContentKind, Zenon DEF AskLabel, NoContentKinds
  <2>6. CASE AskFusion
    BY <2>6, NoContentKind, Zenon DEF AskFusion, NoContentKinds
  <2>7. CASE AskSearch
    BY <2>7 DEF AskSearch, Ask, NoContentKinds
  <2>8. CASE AskAllocation
    <3>1. PICK total \in {0, 100, 160, 170, 171, 172, 173, 400, 1001, 4096},
               history \in Needs, memories \in Needs, knowledge \in BOOLEAN :
             Ask("allocation", [total |-> total, history |-> history, memories |-> memories],
                 Allocate(total, history, memories, knowledge))
      BY <2>8 DEF AskAllocation
    <3> QED BY <3>1 DEF Ask, NoContentKinds
  <2>9. CASE AskTruncation
    BY <2>9, NoContentKind, Zenon DEF AskTruncation, NoContentKinds
  <2>10. CASE AskContext
    BY <2>10 DEF AskContext, Ask, NoContentKinds
  <2>11. CASE AskStorage
    BY <2>11, NoContentKind, Zenon DEF AskStorage, NoContentKinds
  <2>12. CASE AskConfidence
    <3>1. PICK base \in {0, 20, 30, 60, 90}, validAt \in 1..4, now \in 1..4, validatedAt \in 0..4,
               threshold \in {0, 30} :
             Ask("confidence", [base |-> base, validAt |-> validAt, validatedAt |-> validatedAt,
                                now |-> now, threshold |-> threshold],
                 IsStale(base, validAt, validatedAt, now, threshold))
      BY <2>12 DEF AskConfidence
    <3> QED BY <3>1 DEF Ask, NoContentKinds
  <2>13. CASE AskAudit
    BY <2>13, NoContentKind, Zenon DEF AskAudit, NoContentKinds
  <2>14. CASE AskRetry
    BY <2>14, NoContentKind, Zenon DEF AskRetry, NoContentKinds
  <2>15. CASE AskHeader
    BY <2>15, NoContentKind, Zenon DEF AskHeader, NoContentKinds
  <2>16. CASE AskReport
    BY <2>16, NoContentKind, Zenon DEF AskReport, NoContentKinds
  <2> QED BY <2>1, <2>2, <2>3, <2>4, <2>5, <2>6, <2>7, <2>8, <2>9, <2>10,
             <2>11, <2>12, <2>13, <2>14, <2>15, <2>16
<1> QED BY <1>1, NoContentAsked

\* What a turn, its parts and its helpers decide is right under every order in which
\* the pages ask.
THEOREM ContentIsRight == PagesSpec => []ContentDecides
<1>1. PagesInit => ContentDecides
  BY DEF PagesInit, Init, ContentDecides
<1>2. ASSUME ContentDecides, Next PROVE ContentDecides'
  BY <1>2, PersonaAsked, TurnAsked, PromptAsked, ParamsAsked, OutfitsAsked, ToolAsked, ModelAsked,
     UsageAsked, SettingsAsked, MarkupAsked, RestAsked DEF Next
<1>3. ASSUME ContentDecides, UNCHANGED Questions PROVE ContentDecides'
  BY <1>3 DEF Questions, ContentDecides
<1>4. ContentDecides /\ [PagesNext]_<<Questions, clientVars, adminVars, part>> => ContentDecides'
  BY <1>2, <1>3 DEF PagesNext, WebStep, AdminStep
<1> QED BY <1>1, <1>4, PTL DEF PagesSpec
===============================================================================
