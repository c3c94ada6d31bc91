------------------------------ MODULE MCPages ------------------------------
(* The pages of the browser, each explored on its own, and beside them the
   decisions of MCDecisions: "part" says which of them moves, and the variables
   of the others keep their initial value. *)
EXTENDS MCDecisions, WebClient, AdminClient

VARIABLE part

MCEntryIds == <<"e1", "e2", "e3">>

Questions == <<question, answer>>
PagesInit ==
    /\ part \in {"questions", "socket", "chat", "browse", "editor", "review",
                 "orgs", "matrix", "flash", "files", "login"}
    /\ Init
    /\ SocketInit /\ ChatInit
    /\ BrowseInit /\ (browse.selected[1] = "all" \/ part = "browse")
    /\ EditorInit /\ ReviewInit /\ OrgsInit /\ MatrixInit /\ FlashInit /\ FilesInit
    /\ LoginInit /\ (demands = {} \/ part = "login")

WebStep == UNCHANGED <<Questions, adminVars, part>>
AdminStep == UNCHANGED <<Questions, clientVars, part>>
PagesNext ==
    \/ part = "questions" /\ Next /\ UNCHANGED <<clientVars, adminVars, part>>
    \/ part = "socket" /\ SocketNext /\ WebStep
    \/ part = "chat" /\ ChatNext /\ WebStep
    \/ part = "browse" /\ BrowseNext /\ WebStep
    \/ part = "editor" /\ EditorNext /\ AdminStep
    \/ part = "review" /\ ReviewNext /\ AdminStep
    \/ part = "orgs" /\ OrgsNext /\ AdminStep
    \/ part = "matrix" /\ MatrixNext /\ AdminStep
    \/ part = "flash" /\ FlashNext /\ AdminStep
    \/ part = "files" /\ FilesNext /\ AdminStep
    \/ part = "login" /\ LoginNext /\ AdminStep

PagesSpec == PagesInit /\ [][PagesNext]_<<Questions, clientVars, adminVars, part>>

-----------------------------------------------------------------------------
(* The browser's sockets, answers and lists keep their types and hold what they
   should under every order of clicks, timers, events and answers (WSConnection,
   the pages of the user and of the admin). *)
ClientHolds ==
    /\ ClientTypeOK /\ AdminTypeOK
    /\ SocketHolds /\ AnswersInPlace /\ SessionsApart /\ ShowsSelection
    /\ EditorTruthful /\ QueueTracked /\ OrgsAsSaved /\ MatrixSaved /\ FlashPasses
    /\ FilesTruthful /\ LoginTruthful
=============================================================================
