----------------------------- MODULE AdminClient -----------------------------
(* The admin's pages: what a page shows, what it sends, and what the server did,
   while answers come late, fail, or overtake each other.

   Covered: the knowledge editor with its table and bulk actions, the review
   queue, the organisations, the permission matrix, messages that go off after
   two seconds (settings, copied text), the upload list of the web app, the admin
   login.
   Not covered: what is drawn, texts, pages that only list.  The routes for
   organisations and permissions are not in this repository: their server is
   external.  The server of the admin login is gateway/api/admin/auth.py, which
   Accounts models; here it is what the page sees of it, a yes or a no. *)
EXTENDS Naturals, FiniteSets, Sequences, FiniteSetsExt, SequencesExt, Lists

CONSTANTS EntryIds,    \* entries, those of the list first: a sequence
          Listed,      \* how many of them the server has at first
          PageSize,    \* pageSize of the table
          MaxBulk,     \* bound: bulk actions
          MaxTurns,    \* bound: clicks in the table
          ReviewIds,   \* flagged entries
          MaxReviews,  \* bound: review actions and visits
          OrgIds,      \* organisations: 1, 2, ...
          OrgNames,    \* what may be typed
          MaxSaves,    \* bound: requests of the organisations page
          MaxFlash,    \* bound: clicks and ticks of a passing message
          MaxFiles,    \* bound: files chosen
          Admins,      \* accounts of administrators
          MaxLogins    \* bound: attempts to log in

VARIABLES editor, entries,       \* the knowledge editor; the server's entries
          review, reviewed,      \* the review queue; the server's statuses
          orgs, companies,       \* the organisations page; the server's rows
          matrix,                \* the permission matrix and its server
          flash,                 \* a message that passes
          files,                 \* the upload list
          login, demands         \* the admin login; who needs a second factor

Removed == "removed"    \* a status, and what is selected when nothing is
NoOne == 0
NoAdmin == "nobody"

(* Entries and accounts are told apart, the two organisations of the start are
   among the ids, and the names that mean something here are not given. *)
ASSUME AdminAssumption ==
    /\ EntryIds \in Seq(Range(EntryIds)) /\ IsInjective(EntryIds)
    /\ Removed \notin ReviewIds /\ NoAdmin \notin Admins
    /\ {1, 2} \subseteq OrgIds /\ OrgIds \subseteq Nat \ {NoOne}
    /\ {"none", Removed} \intersect OrgNames = {}

editorVars == <<editor, entries>>
reviewVars == <<review, reviewed>>
orgVars == <<orgs, companies>>
loginVars == <<login, demands>>
adminVars == <<editorVars, reviewVars, orgVars, matrix, flash, files, loginVars>>

-----------------------------------------------------------------------------
(* The knowledge editor and its DataTable.  A bulk action sends one request per
   selected entry; Promise.all gives up at the first that fails, the others go
   on. *)
EditorInit ==
    /\ entries = [id \in Range(EntryIds) |->
                    [status |-> IF \E i \in 1..Listed : EntryIds[i] = id THEN "draft" ELSE "none",
                     had |-> {"draft"}]]
    /\ editor = [rows |-> <<>>, shown |-> [id \in Range(EntryIds) |-> "draft"],
                 was |-> [id \in Range(EntryIds) |-> "draft"],
                 list |-> <<>>, listing |-> "asked", page |-> 0, searched |-> FALSE,
                 selected |-> {}, seen |-> {}, bulk |-> <<>>, late |-> FALSE, lost |-> {},
                 overlapped |-> FALSE, turns |-> 0]
EditorStep == UNCHANGED <<reviewVars, orgVars, matrix, flash, files, loginVars>>
Click(e) ==
    /\ editor.turns < MaxTurns
    /\ editor' = [e EXCEPT !.turns = @ + 1]
    /\ UNCHANGED entries /\ EditorStep

Exists(id) == entries[id].status \notin {"none", Removed}
(* What of a list is in a set, in the order of the list. *)
Kept(list, ids) == Chosen(list, {i \in DOMAIN list : list[i] \in ids})
Matching == Range(EntryIds) \ {EntryIds[2]}     \* a search finds every name but one
Filtered == IF editor.searched THEN Kept(editor.rows, Matching) ELSE editor.rows
TotalPages == (Len(Filtered) + PageSize - 1) \div PageSize
PageData ==
    {Filtered[i] : i \in {j \in DOMAIN Filtered : (j - 1) \div PageSize = editor.page}}

ListAnswered ==
    /\ editor.listing = "asked"
    /\ editor' = [editor EXCEPT !.listing = "answered",
                                !.list = Kept(EntryIds, {id \in DOMAIN entries : Exists(id)}),
                                !.was = [id \in DOMAIN @ |-> entries[id].status]]
    /\ UNCHANGED entries /\ EditorStep
LoadEntries ==
    /\ editor.listing = "answered"
    /\ editor' = [editor EXCEPT !.rows = editor.list, !.listing = "shown",
                                !.shown = editor.was]
    /\ UNCHANGED entries /\ EditorStep

(* Saving a new entry; without an answer the form closes all the same. *)
CreateEntry(id, answered) ==
    /\ entries[id].status = "none"
    /\ entries' = [entries EXCEPT ![id].status = "draft"]
    /\ editor' = IF ~answered THEN [editor EXCEPT !.lost = @ \union {id}]
                 ELSE [editor EXCEPT !.rows = <<id>> \o @, !.shown[id] = "draft",
                                     !.late = @ \/ editor.listing # "shown"]
    /\ EditorStep

Search(on) == editor.searched # on /\ Click([editor EXCEPT !.searched = on, !.page = 0])
NextPage == editor.page + 1 < TotalPages /\ Click([editor EXCEPT !.page = @ + 1])
PrevPage == editor.page > 0 /\ Click([editor EXCEPT !.page = @ - 1])

Select(ids) == [editor EXCEPT !.selected = ids, !.seen = @ \union (ids \ editor.selected)]
ToggleSelect(id) ==
    /\ id \in PageData
    /\ Click(Select(IF id \in editor.selected THEN editor.selected \ {id}
                   ELSE editor.selected \union {id}))
ToggleSelectAll ==
    Click(Select(IF Cardinality(editor.selected) = Cardinality(PageData) THEN {} ELSE PageData))

StatusAfter(label) == CASE label = "Publish" -> "published"
                     [] label = "Archive" -> "archived"
                     [] label = "Delete" -> Removed
Settled(b) == b.state # "waiting"
BulkAction(label) ==
    /\ Len(editor.bulk) < MaxBulk /\ editor.selected # {}
    /\ editor' = [editor EXCEPT
         !.bulk = Append(@, [label |-> label, ids |-> editor.selected,
                             open |-> editor.selected, state |-> "waiting"]),
         !.overlapped = @ \/ \E b \in Range(editor.bulk) : b.open # {} \/ ~Settled(b)]
    /\ UNCHANGED entries /\ EditorStep

(* One request of a bulk action: done, done without an answer, or not done, as
   for an entry that is gone. *)
BulkRequest(i, id, outcome) ==
    /\ i \in DOMAIN editor.bulk /\ id \in editor.bulk[i].open
    /\ ~Exists(id) => outcome = "failed"
    /\ LET status == StatusAfter(editor.bulk[i].label) IN
       entries' = IF outcome = "failed" THEN entries
                  ELSE [entries EXCEPT ![id] = [status |-> status, had |-> @.had \union {status}]]
    /\ editor' = [editor EXCEPT
         !.bulk[i] = [editor.bulk[i] EXCEPT
                        !.open = @ \ {id},
                        !.state = IF outcome = "done" THEN @ ELSE "rejected"]]
    /\ EditorStep
BulkDone(i) ==
    /\ i \in DOMAIN editor.bulk
    /\ LET b == editor.bulk[i]
           status == StatusAfter(b.label)
       IN /\ b.open = {} /\ ~Settled(b)
          /\ editor' = [editor EXCEPT
               !.bulk[i].state = "fulfilled",
               !.rows = IF status = Removed THEN Kept(@, Range(@) \ b.ids) ELSE @,
               !.shown = [id \in DOMAIN @ |->
                            IF id \in b.ids /\ status # Removed /\ id \in Range(editor.rows)
                            THEN status ELSE @[id]]]
    /\ UNCHANGED entries /\ EditorStep

EditorNext ==
    \/ ListAnswered \/ LoadEntries
    \/ \E id \in Range(EntryIds) :
        ToggleSelect(id) \/ \E answered \in BOOLEAN : CreateEntry(id, answered)
    \/ \E on \in BOOLEAN : Search(on)
    \/ NextPage \/ PrevPage
    \/ ToggleSelectAll
    \/ \E label \in {"Publish", "Archive", "Delete"} : BulkAction(label)
    \/ \E i \in 1..MaxBulk : \/ BulkDone(i)
                             \/ \E id \in Range(EntryIds), outcome \in {"done", "lost", "failed"} :
                                   BulkRequest(i, id, outcome)

(* Only what the user saw and chose is acted on, whatever is searched or paged
   afterwards; a status that is shown is one the server had; an entry that is
   not in the list is gone, or its creation was never answered; and when no bulk action failed, overlapped
   another or ran before the list arrived, the page shows what the server has
   (KnowledgeEditorPage, DataTable). *)
EditorTruthful ==
    /\ editor.selected \subseteq editor.seen
    /\ \A b \in Range(editor.bulk) : b.ids \subseteq editor.seen
    /\ \A id \in Range(editor.rows) : editor.shown[id] \in entries[id].had
    /\ IsInjective(editor.rows)
    /\ editor.listing = "shown" /\ ~editor.late =>
         /\ \A id \in Range(EntryIds) : Exists(id) => id \in Range(editor.rows) \union editor.lost
         /\ ~editor.overlapped /\ (\A b \in Range(editor.bulk) : b.state = "fulfilled") =>
              \A id \in Range(editor.rows) : entries[id].status = editor.shown[id]

-----------------------------------------------------------------------------
(* The review queue.  A visit lists the entries that carry a security status,
   which no review takes away; an action that fails is treated as done. *)
ReviewInit ==
    /\ reviewed = [id \in ReviewIds |-> "draft"]
    /\ review = [items |-> [id \in ReviewIds |-> "flagged"], selected |-> Removed,
                 flying |-> {}, decided |-> {}, failed |-> {}, clicks |-> 0, visit |-> 0]
ReviewStep == UNCHANGED <<editorVars, orgVars, matrix, flash, files, loginVars>>

VisitReview ==
    /\ review.clicks < MaxReviews
    /\ review' = [review EXCEPT !.items = [id \in ReviewIds |-> "flagged"], !.selected = Removed,
                                !.decided = {}, !.failed = {}, !.clicks = @ + 1, !.visit = @ + 1]
    /\ UNCHANGED reviewed /\ ReviewStep
SelectItem(id) ==
    /\ id \in DOMAIN review.items
    /\ review' = [review EXCEPT !.selected = id]
    /\ UNCHANGED reviewed /\ ReviewStep
(* The detail panel, while its item is listed. *)
HandleAction(action) ==
    /\ review.clicks < MaxReviews /\ review.selected \in DOMAIN review.items
    /\ review' = [review EXCEPT !.clicks = @ + 1,
         !.flying = @ \union {[id |-> review.selected, action |-> action, n |-> review.clicks,
                               visit |-> review.visit, state |-> "sent"]}]
    /\ UNCHANGED reviewed /\ ReviewStep
NewStatus(action) == CASE action = "approve" -> "published"
                       [] action = "reject" -> "rejected"
                       [] action = "escalate" -> "escalated"
ReviewAnswered(q, fails) ==
    /\ q \in review.flying /\ q.state = "sent"
    /\ reviewed' = IF fails THEN reviewed ELSE [reviewed EXCEPT ![q.id] = NewStatus(q.action)]
    /\ review' = [review EXCEPT
         !.flying = (@ \ {q}) \union {[q EXCEPT !.state = "answered"]},
         !.failed = IF fails /\ q.visit = review.visit THEN @ \union {q.id} ELSE @]
    /\ ReviewStep
(* An answer of an earlier visit finds no page. *)
ActionArrives(q) ==
    /\ q \in review.flying /\ q.state = "answered"
    /\ review' = IF q.visit # review.visit THEN [review EXCEPT !.flying = @ \ {q}]
                 ELSE IF q.action = "escalate"
                 THEN [review EXCEPT !.flying = @ \ {q},
                         !.items = [id \in DOMAIN @ |-> IF id = q.id THEN "under_review" ELSE @[id]]]
                 ELSE [review EXCEPT !.flying = @ \ {q}, !.decided = @ \union {q.id},
                         !.items = [id \in DOMAIN @ \ {q.id} |-> @[id]],
                         !.selected = Removed]
    /\ UNCHANGED reviewed /\ ReviewStep

ReviewNext ==
    \/ VisitReview
    \/ \E id \in ReviewIds : SelectItem(id)
    \/ \E action \in {"approve", "reject", "escalate"} : HandleAction(action)
    \/ \E q \in review.flying : ActionArrives(q) \/ \E fails \in BOOLEAN : ReviewAnswered(q, fails)

(* Nothing leaves the queue but what the user approved or rejected in this
   visit, and unless a request for it failed the server has decided on it too
   (ContentReviewPage.handleAction, review_action). *)
QueueTracked ==
    /\ ReviewIds \ DOMAIN review.items = review.decided
    /\ \A id \in review.decided \ review.failed : reviewed[id] # "draft"
    /\ \A id \in DOMAIN review.items :
         review.items[id] = "under_review" /\ id \notin review.failed => reviewed[id] # "draft"

-----------------------------------------------------------------------------
(* The organisations.  The form serves for creating and for editing, and an
   answer clears it, also when the user has gone on to something else. *)
OrgsInit ==
    /\ companies = [id \in OrgIds |-> IF id <= 2 THEN [name |-> "old", had |-> {"old"}]
                                      ELSE [name |-> "none", had |-> {}]]
    /\ orgs = [rows |-> [id \in {1, 2} |-> "old"], form |-> FALSE, editing |-> NoOne,
               name |-> "", typedFor |-> NoOne, flying |-> {}, sent |-> 0, deleted |-> {},
               failed |-> FALSE]
OrgStep == UNCHANGED <<editorVars, reviewVars, matrix, flash, files, loginVars>>

OpenCreate ==
    /\ orgs' = [orgs EXCEPT !.form = TRUE, !.editing = NoOne, !.name = "", !.typedFor = NoOne]
    /\ UNCHANGED companies /\ OrgStep
Edit(id) ==
    /\ id \in DOMAIN orgs.rows
    /\ orgs' = [orgs EXCEPT !.form = FALSE, !.editing = id, !.name = orgs.rows[id],
                            !.typedFor = id]
    /\ UNCHANGED companies /\ OrgStep
FormOpen == orgs.form \/ orgs.editing # NoOne
TypeName(name) ==
    /\ FormOpen
    /\ orgs' = [orgs EXCEPT !.name = name, !.typedFor = orgs.editing]
    /\ UNCHANGED companies /\ OrgStep
CancelForm ==
    /\ FormOpen
    /\ orgs' = [orgs EXCEPT !.form = FALSE, !.editing = NoOne]
    /\ UNCHANGED companies /\ OrgStep

SendOrg(kind, id, name) ==
    /\ orgs.sent < MaxSaves
    /\ orgs' = [orgs EXCEPT !.sent = @ + 1,
         !.flying = @ \union {[kind |-> kind, id |-> id, name |-> name, n |-> orgs.sent,
                               typedFor |-> orgs.typedFor, state |-> "sent"]}]
    /\ UNCHANGED companies /\ OrgStep
SaveOrg ==
    /\ FormOpen /\ orgs.name # ""
    /\ SendOrg(IF orgs.editing # NoOne THEN "update" ELSE "create", orgs.editing, orgs.name)
DeleteOrg(id) == id \in DOMAIN orgs.rows /\ SendOrg("delete", id, "")

(* The server, external: a new organisation has a new id. *)
HasOrg(id) == companies[id].name \notin {"none", Removed}
OrgAnswered(q, id, outcome) ==
    /\ q \in orgs.flying /\ q.state = "sent"
    /\ IF q.kind = "create" THEN companies[id].name = "none" ELSE id = q.id
    /\ q.kind # "create" /\ ~HasOrg(id) => outcome = "failed"
    /\ LET name == IF q.kind = "delete" THEN Removed ELSE q.name IN
       companies' = IF outcome = "failed" THEN companies
                    ELSE [companies EXCEPT ![id] = [name |-> name, had |-> @.had \union {name}]]
    /\ orgs' = [orgs EXCEPT
         !.flying = (@ \ {q}) \union
                    {[q EXCEPT !.id = id, !.state = IF outcome = "done" THEN "done" ELSE "failed"]},
         !.failed = @ \/ outcome # "done"]
    /\ OrgStep
WithRow(id, name) ==
    [i \in {id} \union DOMAIN orgs.rows |-> IF i = id THEN name ELSE orgs.rows[i]]
OrgArrives(q) ==
    /\ q \in orgs.flying /\ q.state # "sent"
    /\ LET rest == [orgs EXCEPT !.flying = @ \ {q}]
           cleared == [rest EXCEPT !.name = "", !.typedFor = NoOne]
       IN orgs' = CASE q.state = "failed" -> rest
                    [] q.state = "done" /\ q.kind = "create" ->
                         [cleared EXCEPT !.form = FALSE, !.rows = WithRow(q.id, q.name)]
                    [] q.state = "done" /\ q.kind = "update" ->
                         [cleared EXCEPT !.editing = NoOne,
                            !.rows = [i \in DOMAIN @ |-> IF i = q.id THEN q.name ELSE @[i]]]
                    [] q.state = "done" /\ q.kind = "delete" ->
                         [rest EXCEPT !.deleted = @ \union {q.id},
                            !.rows = [i \in DOMAIN @ \ {q.id} |-> @[i]]]
    /\ UNCHANGED companies /\ OrgStep

OrgsNext ==
    \/ OpenCreate \/ CancelForm \/ SaveOrg
    \/ \E id \in OrgIds : Edit(id) \/ DeleteOrg(id)
    \/ \E name \in OrgNames : TypeName(name)
    \/ \E q \in orgs.flying :
        \/ OrgArrives(q)
        \/ \E id \in OrgIds, outcome \in {"done", "lost", "failed"} : OrgAnswered(q, id, outcome)

(* A name is saved for the organisation it was typed for, however late answers
   clear the form; a list shows names the server gave, no deleted organisation
   comes back, and when nothing is out and nothing failed the list is the server's
   (OrganizationsPage). *)
OrgsAsSaved ==
    /\ \A q \in orgs.flying : q.kind = "update" => q.typedFor = q.id
    /\ \A id \in DOMAIN orgs.rows : orgs.rows[id] \in companies[id].had
    /\ orgs.deleted \intersect DOMAIN orgs.rows = {}
    /\ orgs.flying = {} /\ ~orgs.failed => DOMAIN orgs.rows = {id \in OrgIds : HasOrg(id)}

-----------------------------------------------------------------------------
(* The permission matrix: the roles as numbered versions of the matrix.  Save is
   disabled while a request is out; the boxes are not. *)
MatrixInit == matrix = [roles |-> 0, saving |-> FALSE, message |-> "none", payload |-> 0,
                        flying |-> {}, server |-> 0]
MatrixStep == UNCHANGED <<editorVars, reviewVars, orgVars, flash, files, loginVars>>
TogglePermission ==
    /\ matrix.roles < MaxSaves
    /\ matrix' = [matrix EXCEPT !.roles = @ + 1, !.message = "none"]
    /\ MatrixStep
SavePermissions ==
    /\ ~matrix.saving
    /\ matrix' = [matrix EXCEPT !.saving = TRUE, !.message = "none", !.payload = matrix.roles,
                                !.flying = @ \union {matrix.roles}]
    /\ MatrixStep
PermissionsAnswered(payload, applied, ok) ==
    /\ payload \in matrix.flying /\ (ok => applied)
    /\ matrix' = [matrix EXCEPT !.saving = FALSE, !.message = IF ok THEN "saved" ELSE "failed",
                                !.flying = @ \ {payload},
                                !.server = IF applied THEN payload ELSE @]
    /\ MatrixStep
MatrixNext ==
    \/ TogglePermission \/ SavePermissions
    \/ \E payload \in matrix.flying, applied, ok \in BOOLEAN :
        PermissionsAnswered(payload, applied, ok)

(* No older matrix overwrites a newer one at the server, and "saved" stands over
   what the server has: what was sent last, if not what the boxes show by then
   (PermissionsPage). *)
MatrixSaved ==
    /\ matrix.message = "saved" => matrix.server = matrix.payload
    /\ \A payload \in matrix.flying : matrix.server <= payload /\ payload = matrix.payload

-----------------------------------------------------------------------------
(* A message that passes: settings that are "saved", text that is "copied" once
   the clipboard has it.  Every showing starts a timer, and any timer hides. *)
FlashTicks == 2
FlashInit == flash = [now |-> 0, shown |-> FALSE, timers |-> {}, writing |-> 0, steps |-> 0]
FlashStep(f) == /\ flash.steps < MaxFlash
                /\ flash' = [f EXCEPT !.steps = @ + 1]
                /\ UNCHANGED <<editorVars, reviewVars, orgVars, matrix, files, loginVars>>
Shown == [flash EXCEPT !.shown = TRUE,
                       !.timers = @ \union {<<flash.steps, flash.now + FlashTicks>>}]
SaveSettings == FlashStep(Shown)
CopyText == FlashStep([flash EXCEPT !.writing = @ + 1])
Copied(works) ==
    /\ flash.writing > 0
    /\ FlashStep([IF works THEN Shown ELSE flash EXCEPT !.writing = @ - 1])
FlashTimer(t) ==
    /\ t \in flash.timers /\ t[2] <= flash.now
    /\ FlashStep([flash EXCEPT !.shown = FALSE, !.timers = @ \ {t}])
FlashTick == FlashStep([flash EXCEPT !.now = @ + 1])
FlashNext ==
    \/ SaveSettings \/ CopyText \/ FlashTick
    \/ \E works \in BOOLEAN : Copied(works)
    \/ \E t \in flash.timers : FlashTimer(t)

(* A message that is shown has a timer that will hide it, however often it was
   called up and hidden before (SettingsPage, MessageActions). *)
FlashPasses == flash.shown => flash.timers # {}

-----------------------------------------------------------------------------
(* The upload list: every file goes its own way; the page's callback after an
   upload runs inside the same try. *)
FilesInit == files = <<>>
FileStep == UNCHANGED <<editorVars, reviewVars, orgVars, matrix, flash, loginVars>>
NewFile(large) == [large |-> large, status |-> IF large THEN "error" ELSE "uploading",
                   progress |-> 0, given |-> ~large, stored |-> FALSE, told |-> 0]
(* One drop or one choice may bring two files. *)
ProcessFiles(sizes) ==
    /\ Len(files) + Len(sizes) <= MaxFiles
    /\ files' = files \o [i \in DOMAIN sizes |-> NewFile(sizes[i])]
    /\ FileStep
UploadResolves(i, callback) ==
    /\ i \in DOMAIN files /\ files[i].status = "uploading"
    /\ files' = [files EXCEPT ![i] =
         [files[i] EXCEPT !.progress = 100, !.stored = TRUE, !.told = @ + 1,
                          !.status = IF callback = "raises" THEN "error" ELSE "done"]]
    /\ FileStep
UploadRejects(i) ==
    /\ i \in DOMAIN files /\ files[i].status = "uploading"
    /\ files' = [files EXCEPT ![i].status = "error"]
    /\ FileStep
FilesNext ==
    \/ \E one, two \in BOOLEAN : ProcessFiles(<<one>>) \/ ProcessFiles(<<one, two>>)
    \/ \E i \in 1..MaxFiles :
        UploadRejects(i) \/ \E callback \in {"returns", "raises"} : UploadResolves(i, callback)

(* What is too large is never sent; the page hears of every file that was stored
   once and of no other; "done" is stored, and an error at 100 is stored too. *)
FilesTruthful ==
    \A f \in Range(files) :
        /\ f.large => ~f.given /\ f.status = "error" /\ f.told = 0
        /\ f.told = (IF f.stored THEN 1 ELSE 0)
        /\ f.status = "done" => f.stored
        /\ f.stored <=> f.progress = 100

-----------------------------------------------------------------------------
(* The admin login.  The page waits for a server that asks for a second factor
   with a 403 and then shows a field for it; it keeps the field and the code when
   the user goes on to another account.  "demands" are the accounts the server
   asks so: none for the server of this repository, which never does (admin_login),
   and any others for the one the page is written for.  The button is off while a
   request is out. *)
Unsent == [admin |-> NoAdmin, code |-> FALSE]
LoginInit ==
    /\ demands \in SUBSET Admins
    /\ login = [admin |-> NoAdmin, code |-> FALSE, asked |-> FALSE, error |-> FALSE,
                loading |-> FALSE, out |-> Unsent, last |-> Unsent, token |-> NoAdmin,
                gone |-> FALSE, tries |-> 0]
LoginStep(l) ==
    /\ ~login.gone /\ login' = l
    /\ UNCHANGED <<demands, editorVars, reviewVars, orgVars, matrix, flash, files>>

TypeAdmin(a) == login.admin # a /\ LoginStep([login EXCEPT !.admin = a])
TypeCode == login.asked /\ LoginStep([login EXCEPT !.code = ~@])
(* The form's fields are required, and the code is one of them once asked for. *)
SubmitLogin ==
    /\ login.tries < MaxLogins /\ ~login.loading
    /\ login.admin # NoAdmin /\ (login.asked => login.code)
    /\ LET sent == [admin |-> login.admin, code |-> login.asked /\ login.code] IN
       LoginStep([login EXCEPT !.tries = @ + 1, !.error = FALSE, !.loading = TRUE,
                               !.out = sent, !.last = sent])

RequestOver(l) == [l EXCEPT !.loading = FALSE, !.out = Unsent]
LoginAnswered(right) ==
    /\ login.out # Unsent
    /\ LoginStep(
         IF ~right THEN [RequestOver(login) EXCEPT !.error = TRUE]
         ELSE IF login.out.admin \in demands /\ ~login.out.code
         THEN [RequestOver(login) EXCEPT !.asked = TRUE, !.error = FALSE]
         ELSE [login EXCEPT !.out = Unsent, !.token = login.out.admin, !.gone = TRUE])
LoginNext ==
    \/ \E a \in Admins : TypeAdmin(a)
    \/ TypeCode \/ SubmitLogin
    \/ \E right \in BOOLEAN : LoginAnswered(right)

(* The token kept is that of the account that was sent, not of what the fields
   say by then, and after its second factor if it has one; no code is sent before
   some account was asked for one; the button comes back whenever an answer does
   (AdminLoginPage). *)
LoginTruthful ==
    /\ login.token # NoAdmin =>
         /\ login.token = login.last.admin
         /\ login.token \in demands => login.last.code
    /\ login.last.code => login.asked
    /\ login.asked => demands # {}
    /\ ~login.gone => (login.loading <=> login.out # Unsent)
    /\ login.error => ~login.loading

-----------------------------------------------------------------------------
AdminTypeOK ==
    /\ Range(editor.rows) \subseteq Range(EntryIds) /\ editor.page \in Nat
    /\ editor.selected \subseteq Range(EntryIds)
    /\ \A id \in ReviewIds : reviewed[id] \in {"draft", "published", "rejected", "escalated"}
    /\ review.selected \in ReviewIds \union {Removed}
    /\ DOMAIN orgs.rows \subseteq OrgIds /\ orgs.editing \in OrgIds \union {NoOne}
    /\ matrix.saving \in BOOLEAN /\ flash.writing \in Nat
    /\ login.admin \in Admins \union {NoAdmin} /\ demands \subseteq Admins
    /\ \A f \in Range(files) : f.status \in {"uploading", "done", "error"}
=============================================================================
