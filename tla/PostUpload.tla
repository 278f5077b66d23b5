----------------------------- MODULE PostUpload -----------------------------
(***************************************************************************)
(* Posting from the browser: the forms of PostUploader.svelte, the hCaptcha *)
(* widget in each, and MakePost and MakeThread of the web server, for one   *)
(* board and one client address.                                           *)
(*                                                                         *)
(* A draft stands for what the user entered: name, text, subject and file.  *)
(* Every draft is entered once, so that two stored posts with one draft are *)
(* a duplicate the program made.  A token is what a solved captcha hands to *)
(* the form; the captcha provider accepts it once.                         *)
(***************************************************************************)
EXTENDS Naturals, Sequences, FiniteSets, FiniteSetsExt

CONSTANTS
  Forms,        \* mounted forms: one per tab
  ThreadForms,  \* those with isThreadUploader
  Drafts,
  FileDrafts,   \* drafts with a file
  BigDrafts,    \* drafts whose file reaches maxGlobalUploadSize
  NoDraft,
  MaxTokens,    \* bound: captchas solved
  MaxRequests,  \* bound: requests sent
  MaxFaults     \* bound: server exceptions and lost connections

ASSUME UploadAssumption ==
  /\ ThreadForms \subseteq Forms
  /\ FileDrafts \subseteq Drafts
  /\ BigDrafts \subseteq FileDrafts
  /\ NoDraft \notin Drafts
  /\ {MaxTokens, MaxRequests, MaxFaults} \subseteq Nat

VARIABLES
  (* PostUploader *)
  draft,        \* formText, formFiles, formName and formSubject
  captcha,      \* formCaptcha; 0 is null
  isPosting,
  showForm,
  solved,       \* the hCaptcha widget shows a solved captcha
  leaving,      \* document.location.href is set, the page not yet unloaded
  (* the requests and the server *)
  requests,     \* every request sent, oldest first
  spent,        \* tokens the captcha provider has accepted
  semaphore,    \* request that holds PostSemaphore, 0 if none
  posts,        \* DBPosts rows
  mapped,       \* numbers of posts with a DBFileMapping row
  cooling,      \* LastPostTimes[address] is less than 60 seconds ago
  (* history *)
  entered,      \* drafts entered so far
  era,          \* cooldowns that have elapsed
  tokens, faults

formVars   == <<draft, captcha, isPosting, showForm, solved, leaving>>
serverVars == <<spent, semaphore, posts, mapped, cooling, era>>
countVars  == <<entered, tokens, faults>>
vars == <<formVars, requests, serverVars, countVars>>

Requests == DOMAIN requests
Stages   == {"sent", "verified", "checked", "writing", "saved", "done"}

RequestType ==
  [form : Forms, draft : Drafts, captcha : 1..MaxTokens, stage : Stages,
   ok : BOOLEAN, heard : {"waiting", "answer", "lost"}, id : Nat, era : Nat]

TypeOK ==
  /\ draft \in [Forms -> Drafts \union {NoDraft}]
  /\ captcha \in [Forms -> 0..MaxTokens]
  /\ {isPosting, showForm, solved, leaving} \subseteq [Forms -> BOOLEAN]
  /\ requests \in Seq(RequestType)
  /\ spent \subseteq 1..MaxTokens
  /\ semaphore \in {0} \union Requests
  /\ posts \subseteq [id : Nat, draft : Drafts, request : Requests]
  /\ mapped \subseteq {p.id : p \in posts}
  /\ cooling \in BOOLEAN
  /\ entered \subseteq Drafts
  /\ tokens \in 0..MaxTokens /\ faults \in 0..MaxFaults /\ era \in Nat

(* A freshly mounted uploader: the form of a thread is open, the form for a *)
(* new thread waits for "Create a thread".                                  *)
Mounted(f) == [draft |-> NoDraft, captcha |-> 0, showForm |-> f \notin ThreadForms]

Init ==
  /\ draft = [f \in Forms |-> Mounted(f).draft]
  /\ captcha = [f \in Forms |-> Mounted(f).captcha]
  /\ showForm = [f \in Forms |-> Mounted(f).showForm]
  /\ isPosting = [f \in Forms |-> FALSE]
  /\ solved = [f \in Forms |-> FALSE]
  /\ leaving = [f \in Forms |-> FALSE]
  /\ requests = <<>>
  /\ spent = {} /\ semaphore = 0 /\ posts = {} /\ mapped = {}
  /\ cooling = FALSE
  /\ entered = {} /\ era = 0 /\ tokens = 0 /\ faults = 0

-----------------------------------------------------------------------------
(* The user and the captcha widget. *)

ShowForm(f) ==
  /\ ~showForm[f]
  /\ showForm' = [showForm EXCEPT ![f] = TRUE]
  /\ UNCHANGED <<draft, captcha, isPosting, solved, leaving,
                 requests, serverVars, countVars>>

(* The inputs are bound to the form and never disabled: a draft may be      *)
(* replaced while another one is being uploaded.                            *)
Enter(f, d) ==
  /\ showForm[f]
  /\ d \notin entered
  /\ draft' = [draft EXCEPT ![f] = d]
  /\ entered' = entered \union {d}
  /\ UNCHANGED <<captcha, isPosting, showForm, solved, leaving,
                 requests, serverVars, tokens, faults>>

(* hcaptcha.render's callback. *)
SolveCaptcha(f) ==
  /\ showForm[f] /\ ~solved[f] /\ tokens < MaxTokens
  /\ tokens' = tokens + 1
  /\ captcha' = [captcha EXCEPT ![f] = tokens']
  /\ solved' = [solved EXCEPT ![f] = TRUE]
  /\ UNCHANGED <<draft, isPosting, showForm, leaving,
                 requests, serverVars, entered, faults>>

(* resetCaptcha: the expired, closed and error callbacks of the widget. *)
ResetCaptcha(f) ==
  /\ showForm[f] /\ captcha[f] # 0
  /\ captcha' = [captcha EXCEPT ![f] = 0]
  /\ solved' = [solved EXCEPT ![f] = FALSE]
  /\ UNCHANGED <<draft, isPosting, showForm, leaving,
                 requests, serverVars, countVars>>

-----------------------------------------------------------------------------
(* Post(): its refusals of an empty draft, of a file that is too large and  *)
(* of a missing captcha, its guard against a second click, and the request  *)
(* of UploadPost or UploadThread.                                           *)
Acceptable(f) == draft[f] \notin BigDrafts \union {NoDraft} /\ captcha[f] # 0

\* Mutant of ClickPost: a second click is not refused while an upload is under way.
ClickPostAgain(f) ==
  /\ showForm[f]
  /\ Acceptable(f)
  /\ Len(requests) < MaxRequests
  /\ isPosting' = [isPosting EXCEPT ![f] = TRUE]
  /\ requests' = Append(requests,
       [form |-> f, draft |-> draft[f], captcha |-> captcha[f], stage |-> "sent",
        ok |-> FALSE, heard |-> "waiting", id |-> 0, era |-> 0])
  /\ UNCHANGED <<draft, captcha, showForm, solved, leaving, serverVars,
                 countVars>>

ClickPost(f) ==
  /\ showForm[f]
  /\ Acceptable(f)
  /\ ~isPosting[f]
  /\ Len(requests) < MaxRequests
  /\ isPosting' = [isPosting EXCEPT ![f] = TRUE]
  /\ requests' = Append(requests,
       [form |-> f, draft |-> draft[f], captcha |-> captcha[f], stage |-> "sent",
        ok |-> FALSE, heard |-> "waiting", id |-> 0, era |-> 0])
  /\ UNCHANGED <<draft, captcha, showForm, solved, leaving, serverVars,
                 countVars>>

-----------------------------------------------------------------------------
(* What Post() does when the answer to its request arrives, or does not. *)

Awaits(f, r) == r \in Requests /\ requests[r].form = f
                               /\ requests[r].heard = "waiting"
Answered(f, r) == Awaits(f, r) /\ requests[r].stage = "done"

Heard(r, how) == requests' = [requests EXCEPT ![r].heard = how]
StopsPosting(f) == isPosting' = [isPosting EXCEPT ![f] = FALSE]

\* Mutant of PostAccepted: response.ok is not looked at.
PostAnswered(f, r) ==
  /\ f \notin ThreadForms /\ Answered(f, r)
  /\ Heard(r, "answer") /\ StopsPosting(f)
  /\ draft' = [draft EXCEPT ![f] = NoDraft]
  /\ solved' = [solved EXCEPT ![f] = FALSE]
  /\ UNCHANGED <<captcha, showForm, leaving, serverVars, countVars>>

(* UploadPost with an accepted post: the form is emptied, whatever it holds *)
(* by now, and the widget is reset; formCaptcha keeps the token.            *)
PostAccepted(f, r) ==
  /\ f \notin ThreadForms /\ Answered(f, r) /\ requests[r].ok
  /\ Heard(r, "answer") /\ StopsPosting(f)
  /\ draft' = [draft EXCEPT ![f] = NoDraft]
  /\ solved' = [solved EXCEPT ![f] = FALSE]
  /\ UNCHANGED <<captcha, showForm, leaving, serverVars, countVars>>

(* UploadThread with an accepted thread returns null, whose message Post()  *)
(* then reads: the exception leaves the form as it is, on a page that is    *)
(* about to be unloaded.                                                    *)
ThreadAccepted(f, r) ==
  /\ f \in ThreadForms /\ Answered(f, r) /\ requests[r].ok
  /\ Heard(r, "answer") /\ StopsPosting(f)
  /\ solved' = [solved EXCEPT ![f] = FALSE]
  /\ leaving' = [leaving EXCEPT ![f] = TRUE]
  /\ UNCHANGED <<draft, captcha, showForm, serverVars, countVars>>

(* A refusal, or an answer that is not JSON and throws: the form keeps its   *)
(* draft and its spent token.                                               *)
UploadRefused(f, r) ==
  /\ Answered(f, r) /\ ~requests[r].ok
  /\ Heard(r, "answer") /\ StopsPosting(f)
  /\ UNCHANGED <<draft, captcha, showForm, solved, leaving, serverVars,
                 countVars>>

(* fetch rejects: the connection broke, before the request reached the      *)
(* server or after.  A server that has the request goes on with it.         *)
ConnectionLost(f, r) ==
  /\ Awaits(f, r) /\ faults < MaxFaults
  /\ faults' = faults + 1
  /\ StopsPosting(f)
  /\ \/ Heard(r, "lost")
     \/ /\ requests[r].stage = "sent"
        /\ requests' = [requests EXCEPT ![r].heard = "lost", ![r].stage = "done"]
  /\ UNCHANGED <<draft, captcha, showForm, solved, leaving, serverVars,
                 entered, tokens>>

(* The browser follows document.location.href; nothing of the page is left. *)
Unload(f) ==
  /\ leaving[f]
  /\ draft' = [draft EXCEPT ![f] = Mounted(f).draft]
  /\ captcha' = [captcha EXCEPT ![f] = Mounted(f).captcha]
  /\ showForm' = [showForm EXCEPT ![f] = Mounted(f).showForm]
  /\ StopsPosting(f)
  /\ solved' = [solved EXCEPT ![f] = FALSE]
  /\ leaving' = [leaving EXCEPT ![f] = FALSE]
  /\ requests' = [r \in Requests |-> IF Awaits(f, r)
                    THEN [requests[r] EXCEPT !.heard = "lost"] ELSE requests[r]]
  /\ UNCHANGED <<serverVars, countVars>>

-----------------------------------------------------------------------------
(* MakePost and MakeThread, from one await to the next. *)

At(r, stage) == r \in Requests /\ requests[r].stage = stage
Moves(r, stage) == requests' = [requests EXCEPT ![r].stage = stage]
Refuses(r) == Moves(r, "done")

(* A malformed request, a board or thread that does not exist, a missing,   *)
(* forbidden, banned or corrupt file, a ban of the address.                 *)
Refuse(r) ==
  /\ At(r, "sent") \/ At(r, "checked")
  /\ Refuses(r)
  /\ UNCHANGED <<formVars, serverVars, countVars>>

VerifyCaptcha(r) ==
  /\ At(r, "sent")
  /\ \/ /\ requests[r].captcha \in spent
        /\ Refuses(r)
        /\ UNCHANGED spent
     \/ /\ requests[r].captcha \notin spent
        /\ Moves(r, "verified")
        /\ spent' = spent \union {requests[r].captcha}
  /\ UNCHANGED <<formVars, semaphore, posts, mapped, cooling, era, countVars>>

CheckCooldown(r) ==
  /\ At(r, "verified")
  /\ IF cooling THEN Refuses(r) ELSE Moves(r, "checked")
  /\ UNCHANGED <<formVars, serverVars, countVars>>

NextPostId == IF posts = {} THEN 1 ELSE Max({p.id : p \in posts}) + 1

\* Mutant of EnterSemaphore: the newest number is read outside the semaphore.
EnterTogether(r) ==
  /\ At(r, "checked")
  /\ semaphore' = r
  /\ requests' = [requests EXCEPT ![r].stage = "writing", ![r].id = NextPostId]
  /\ UNCHANGED <<formVars, spent, posts, mapped, cooling, era, countVars>>

\* Mutant of EnterSemaphore: the file is mapped before its post is saved.
EnterAndMap(r) ==
  /\ At(r, "checked")
  /\ semaphore = 0
  /\ semaphore' = r
  /\ requests' = [requests EXCEPT ![r].stage = "writing", ![r].id = NextPostId]
  /\ mapped' = mapped \union {NextPostId}
  /\ UNCHANGED <<formVars, spent, posts, cooling, era, countVars>>

(* PostSemaphore.WaitAsync and the query for the newest post. *)
EnterSemaphore(r) ==
  /\ At(r, "checked")
  /\ semaphore = 0
  /\ semaphore' = r
  /\ requests' = [requests EXCEPT ![r].stage = "writing", ![r].id = NextPostId]
  /\ UNCHANGED <<formVars, spent, posts, mapped, cooling, era, countVars>>

\* Mutant of SavePost: the semaphore is released after the first save.
SavePostReleasing(r) ==
  /\ At(r, "writing")
  /\ posts' = posts \union {[id |-> requests[r].id, draft |-> requests[r].draft,
                              request |-> r]}
  /\ Moves(r, "saved")
  /\ semaphore' = 0
  /\ UNCHANGED <<formVars, spent, mapped, cooling, era, countVars>>

(* The first SaveChangesAsync. *)
SavePost(r) ==
  /\ At(r, "writing")
  /\ posts' = posts \union {[id |-> requests[r].id, draft |-> requests[r].draft,
                              request |-> r]}
  /\ Moves(r, "saved")
  /\ UNCHANGED <<formVars, spent, semaphore, mapped, cooling, era, countVars>>

\* Mutant of Accept: LastPostTimes is not written.
AcceptUncounted(r) ==
  /\ At(r, "saved")
  /\ mapped' = IF requests[r].draft \in FileDrafts
                 THEN mapped \union {requests[r].id} ELSE mapped
  /\ semaphore' = 0
  /\ requests' = [requests EXCEPT ![r].stage = "done", ![r].ok = TRUE,
                                     ![r].era = era]
  /\ UNCHANGED <<formVars, spent, posts, cooling, era, countVars>>

(* The second SaveChangesAsync, for a post with a file; the semaphore is    *)
(* released, LastPostTimes written and the post accepted.                   *)
Accept(r) ==
  /\ At(r, "saved")
  /\ mapped' = IF requests[r].draft \in FileDrafts
                 THEN mapped \union {requests[r].id} ELSE mapped
  /\ semaphore' = 0
  /\ cooling' = TRUE
  /\ requests' = [requests EXCEPT ![r].stage = "done", ![r].ok = TRUE,
                                     ![r].era = era]
  /\ UNCHANGED <<formVars, spent, posts, era, countVars>>

\* Mutant of ServerFault: the semaphore is released at the end of the try block.
ServerFaultHolding(r) ==
  /\ faults < MaxFaults
  /\ \/ \E stage \in {"sent", "verified", "checked", "writing"} : At(r, stage)
     \/ At(r, "saved") /\ requests[r].draft \in FileDrafts
  /\ faults' = faults + 1
  /\ Moves(r, "done")
  /\ UNCHANGED <<formVars, serverVars, entered, tokens>>

(* An exception: status 500 without JSON.  The finally block releases the   *)
(* semaphore; LastPostTimes is not written, even if the post is saved.      *)
ServerFault(r) ==
  /\ faults < MaxFaults
  /\ \/ \E stage \in {"sent", "verified", "checked", "writing"} : At(r, stage)
     \/ At(r, "saved") /\ requests[r].draft \in FileDrafts
  /\ faults' = faults + 1
  /\ Moves(r, "done")
  /\ semaphore' = IF semaphore = r THEN 0 ELSE semaphore
  /\ UNCHANGED <<formVars, spent, posts, mapped, cooling, era, entered, tokens>>

(* Sixty seconds after the last accepted post.  An answer is delivered and  *)
(* a page is unloaded in less time than that.                               *)
Settled(r) == requests[r].stage = "done" => requests[r].heard # "waiting"

CooldownElapses ==
  /\ cooling
  /\ \A r \in Requests : Settled(r)
  /\ \A f \in Forms : ~leaving[f]
  /\ cooling' = FALSE
  /\ era' = era + 1
  /\ UNCHANGED <<formVars, requests, spent, semaphore, posts, mapped, countVars>>

-----------------------------------------------------------------------------
User(f) == \/ ShowForm(f) \/ SolveCaptcha(f) \/ ResetCaptcha(f)
           \/ ClickPost(f)
           \/ \E d \in Drafts : Enter(f, d)

Hears(f, r) == PostAccepted(f, r) \/ ThreadAccepted(f, r) \/ UploadRefused(f, r)

Handles(r) == VerifyCaptcha(r) \/ CheckCooldown(r) \/ SavePost(r) \/ Accept(r)

Next ==
  \/ \E f \in Forms : User(f) \/ Unload(f)
  \/ \E f \in Forms, r \in Requests : Hears(f, r) \/ ConnectionLost(f, r)
  \/ \E r \in Requests : \/ Handles(r) \/ EnterSemaphore(r)
                         \/ Refuse(r) \/ ServerFault(r)
  \/ CooldownElapses

Spec == Init /\ [][Next]_vars

(* The server goes on with every request it has, the semaphore's waiters    *)
(* are served in turn, and an answer that was sent arrives or is lost.      *)
Fairness ==
  /\ \A r \in 1..MaxRequests : WF_vars(Handles(r)) /\ SF_vars(EnterSemaphore(r))
  /\ \A f \in Forms, r \in 1..MaxRequests : WF_vars(Hears(f, r))

FairSpec == Spec /\ Fairness

-----------------------------------------------------------------------------
(* Properties. *)

Reported(p) == requests[p.request].ok /\ requests[p.request].heard = "answer"

(* Two requests never give two posts one number: reading the newest number  *)
(* and saving the post are one critical section for all forms.              *)
NumbersAreUnique == \A p, q \in posts : p.id = q.id => p = q

(* What a user entered once is accepted once: neither the thread form,      *)
(* which keeps its draft and its enabled button until the page unloads, nor *)
(* a retry gets a second acceptance of the same draft.  A second copy needs *)
(* a first one whose acceptance the user was never told.                    *)
AcceptedOnce ==
  \A p, q \in posts : p.draft = q.draft /\ Reported(p) /\ Reported(q) => p = q

(* One form gets at most one post accepted per cooldown, although the       *)
(* server reads LastPostTimes long before it writes it: the form's own      *)
(* isPosting closes the gap for its tab.  Two tabs can both slip through.   *)
OnePostPerCooldown ==
  \A p, q \in posts :
    /\ requests[p.request].form = requests[q.request].form
    /\ requests[p.request].era = requests[q.request].era
    /\ Reported(p) /\ Reported(q)
    => p = q

(* A form empties itself only when the draft it had sent is stored, with    *)
(* its file, and told to be: a refused or failed upload loses nothing the   *)
(* user entered.                                                            *)
EmptiesAfterStoring ==
  [][\A f \in Forms : draft[f] # NoDraft /\ draft'[f] = NoDraft =>
       \E p \in posts :
         /\ requests[p.request].form = f
         /\ requests[p.request].ok /\ requests'[p.request].heard = "answer"
         /\ p.draft \in FileDrafts => p.id \in mapped]_vars

(* Every upload comes to an end: no exception between two saves keeps the   *)
(* semaphore, and with it every later post, waiting for ever.               *)
UploadsSettle == \A f \in Forms : isPosting[f] ~> ~isPosting[f]

(* The board as its readers see it: numbers, drafts and files, and which    *)
(* posts their senders were told of.                                        *)
Numbers == {p.id : p \in posts}

Log == INSTANCE PostLog WITH
  log   <- [n \in Numbers |-> (CHOOSE p \in posts : p.id = n).draft],
  files <- mapped,
  told  <- {p.id : p \in {q \in posts : Reported(q)}}

(* However the requests of all forms overlap and fail, the board is a list  *)
(* of posts without gaps that grows at its end, a file never joins an older *)
(* post, and a sender is told only of what is stored, once for each draft.  *)
ImplementsLog == Log!Spec

=============================================================================
