-------------------------- MODULE PostUploadProofs --------------------------
(***************************************************************************)
(* Theorems about PostUpload, for any number of forms, drafts, captchas,   *)
(* requests and faults: types, unique numbers, one post of a form per      *)
(* cooldown, no draft accepted twice and none lost; and that the forms and *)
(* the server together implement PostLog.                                  *)
(***************************************************************************)
EXTENDS PostUpload, SequenceTheorems, WellFoundedInduction, TLAPS

-----------------------------------------------------------------------------
(* The inductive invariant. *)

\* The server: one request at a time is between the number and the save.
Taken ==
  \A r \in Requests :
    requests[r].stage \in {"writing", "saved"} => semaphore = r

\* There is a newest number.
Bounded == \E n \in Nat : \A p \in posts : p.id <= n

\* Numbers grow, and a post belongs to one request, which has saved it.
Numbered ==
  /\ \A r \in Requests : requests[r].stage = "writing" =>
       \A p \in posts : p.id < requests[r].id
  /\ \A p \in posts : /\ requests[p.request].stage \in {"saved", "done"}
                      /\ requests[p.request].draft = p.draft
  /\ \A p, q \in posts : p.request = q.request => p = q

\* An accepted request has stored its draft with its file.
Stored ==
  /\ \A r \in Requests : requests[r].stage = "saved" =>
       [id |-> requests[r].id, draft |-> requests[r].draft, request |-> r]
         \in posts
  /\ \A r \in Requests : requests[r].ok =>
       /\ requests[r].stage = "done"
       /\ \E p \in posts : /\ p.request = r
                           /\ p.draft \in FileDrafts => p.id \in mapped
  /\ \A r \in Requests : requests[r].heard = "answer" =>
       requests[r].stage = "done"

\* A form waits for at most one request, its newest.
Sequential ==
  /\ \A r \in Requests : requests[r].heard = "waiting" =>
       isPosting[requests[r].form]
  /\ \A r, q \in Requests :
       r < q /\ requests[r].form = requests[q].form =>
         requests[r].heard # "waiting"

Acknowledged(r) == requests[r].ok /\ requests[r].heard = "answer"

\* A form that was told of a post gets past the cooldown in a later era only.
Cooled ==
  /\ \A r \in Requests : requests[r].ok =>
       /\ requests[r].era <= era
       /\ requests[r].era = era \/ requests[r].heard = "waiting" => cooling
  /\ \A r, q \in Requests :
       r < q /\ requests[r].form = requests[q].form /\ Acknowledged(r) =>
         /\ requests[q].stage \in {"checked", "writing", "saved"} =>
              requests[r].era < era
         /\ requests[q].ok => requests[r].era < requests[q].era

\* A draft belongs to one form.
Owned ==
  /\ \A f \in Forms : draft[f] \in entered \union {NoDraft}
  /\ \A r \in Requests : requests[r].draft \in entered
  /\ \A f, g \in Forms : draft[f] = draft[g] /\ draft[f] # NoDraft => f = g
  /\ \A r \in Requests, f \in Forms :
       requests[r].draft = draft[f] => requests[r].form = f
  /\ \A r, q \in Requests :
       requests[r].draft = requests[q].draft =>
         requests[r].form = requests[q].form

\* A page that is being left has posted, and gets nothing more past the
\* cooldown.
Left ==
  \A f \in Forms : leaving[f] =>
    /\ cooling
    /\ \E r \in Requests : requests[r].form = f /\ Acknowledged(r)
    /\ \A q \in Requests :
         requests[q].form = f /\ requests[q].heard = "waiting" =>
           /\ requests[q].stage \notin {"checked", "writing", "saved"}
           /\ ~requests[q].ok

\* A draft the user was told is posted stays in its form only while the page
\* is being left, and is not accepted again.
Once ==
  /\ \A r \in Requests :
       Acknowledged(r) /\ draft[requests[r].form] = requests[r].draft =>
         leaving[requests[r].form]
  /\ \A r, q \in Requests :
       r < q /\ requests[r].draft = requests[q].draft /\ Acknowledged(r) =>
         /\ requests[q].heard = "waiting" => leaving[requests[q].form]
         /\ ~Acknowledged(q)

IInv == /\ TypeOK /\ Taken /\ Bounded /\ Numbered /\ NumbersAreUnique
        /\ Stored /\ Sequential /\ Cooled /\ Owned /\ Left /\ Once

-----------------------------------------------------------------------------
(* The requests are a sequence of records; what a step changes of them. *)

\* A typed rewriting of some requests keeps their sequence.
LEMMA Rewritten ==
  ASSUME requests \in Seq(RequestType), NEW s,
         DOMAIN s = Requests, s = [q \in Requests |-> s[q]],
         \A q \in Requests : s[q] \in RequestType
  PROVE  s \in Seq(RequestType)
<1>1. PICK n \in Nat : Requests = 1..n
  BY LenProperties
<1>2. s \in [1..n -> RequestType]
  BY <1>1
<1>3. QED
  BY <1>2, <1>1, SeqDef

\* What every edit of one request comes to.
Becomes(r, v) ==
  /\ requests' \in Seq(RequestType)
  /\ Requests' = Requests
  /\ requests'[r] = v
  /\ \A q \in Requests : q # r => requests'[q] = requests[q]

\* An edit of one request by a typed record.
LEMMA Edited ==
  ASSUME requests \in Seq(RequestType), NEW r \in Requests, NEW v \in RequestType,
         requests' = [requests EXCEPT ![r] = v]
  PROVE  Becomes(r, v)
<1>1. /\ DOMAIN requests' = Requests
      /\ requests' = [q \in Requests |-> requests'[q]]
      /\ \A q \in Requests : requests'[q] = IF q = r THEN v ELSE requests[q]
  BY DEF Requests
<1>2. \A q \in Requests : requests[q] \in RequestType
  BY DEF Requests
<1>3. requests' \in Seq(RequestType)
  BY <1>1, <1>2, Rewritten
<1>4. QED
  BY <1>1, <1>3 DEF Becomes, Requests

\* Every request is a record, with a number in the sequence.
LEMMA RequestTyped ==
  ASSUME requests \in Seq(RequestType), NEW r \in Requests
  PROVE  requests[r] \in RequestType /\ r \in Nat /\ r # 0
BY LenProperties DEF Requests

\* A request moves to another stage.
LEMMA MovesEdit ==
  ASSUME requests \in Seq(RequestType), NEW r \in Requests, NEW stage \in Stages,
         Moves(r, stage)
  PROVE  Becomes(r, [requests[r] EXCEPT !.stage = stage])
<1>1. [requests[r] EXCEPT !.stage = stage] \in RequestType
  BY RequestTyped DEF RequestType
<1>2. requests' = [requests EXCEPT ![r] = [requests[r] EXCEPT !.stage = stage]]
  BY DEF Moves
<1>3. QED
  BY <1>1, <1>2, Edited

\* A form hears of a request.
LEMMA HeardEdit ==
  ASSUME requests \in Seq(RequestType), NEW r \in Requests,
         NEW how \in {"answer", "lost"}, Heard(r, how)
  PROVE  Becomes(r, [requests[r] EXCEPT !.heard = how])
<1>1. [requests[r] EXCEPT !.heard = how] \in RequestType
  BY RequestTyped DEF RequestType
<1>2. requests' = [requests EXCEPT ![r] = [requests[r] EXCEPT !.heard = how]]
  BY DEF Heard
<1>3. QED
  BY <1>1, <1>2, Edited

\* A form sends a request.
LEMMA SentEdit ==
  ASSUME TypeOK, NEW f \in Forms, ClickPost(f)
  PROVE  LET n == Len(requests) + 1
             v == [form |-> f, draft |-> draft[f], captcha |-> captcha[f],
                   stage |-> "sent", ok |-> FALSE, heard |-> "waiting",
                   id |-> 0, era |-> 0]
         IN  /\ v \in RequestType
             /\ requests' \in Seq(RequestType)
             /\ Requests' = Requests \union {n}
             /\ requests'[n] = v
             /\ \A q \in Requests : q < n /\ requests'[q] = requests[q]
<1> DEFINE n == Len(requests) + 1
           v == [form |-> f, draft |-> draft[f], captcha |-> captcha[f],
                 stage |-> "sent", ok |-> FALSE, heard |-> "waiting",
                 id |-> 0, era |-> 0]
<1>1. v \in RequestType
  BY DEF ClickPost, Acceptable, TypeOK, RequestType, Stages
<1>2. /\ Append(requests, v) \in Seq(RequestType)
      /\ Len(Append(requests, v)) = n
      /\ \A i \in 1..Len(requests) : Append(requests, v)[i] = requests[i]
      /\ Append(requests, v)[n] = v
  BY <1>1, AppendProperties DEF TypeOK
<1>3. Requests = 1..Len(requests) /\ Len(requests) \in Nat
  BY LenProperties DEF TypeOK, Requests
<1>4. DOMAIN Append(requests, v) = 1..n
  BY <1>2, LenProperties
<1>5. requests' = Append(requests, v)
  BY DEF ClickPost
<1>6. QED
  BY <1>1, <1>2, <1>3, <1>4, <1>5 DEF Requests

\* The number a post gets is above all others.
LEMMA NextIsAbove ==
  ASSUME TypeOK, Bounded
  PROVE  NextPostId \in Nat /\ \A p \in posts : p.id < NextPostId
<1> DEFINE ids == {p.id : p \in posts}
           bounds == {n \in Nat : \A p \in posts : p.id <= n}
<1>1. CASE posts = {}
  BY <1>1 DEF NextPostId
<1>2. CASE posts # {}
  <2>1. ids \subseteq Nat /\ ids # {}
    BY <1>2 DEF TypeOK
  <2>2. PICK m \in bounds : \A n \in bounds : ~(<<n, m>> \in OpToRel(<, Nat))
    BY NatLessThanWellFounded, WFMin DEF Bounded
  <2>3. \A n \in bounds : ~(n < m)
    BY <2>2 DEF OpToRel
  <2>4. m \in ids
    <3>1. SUFFICES ASSUME m \notin ids PROVE FALSE
      OBVIOUS
    <3>2. m \in Nat /\ \A p \in posts : p.id \in Nat /\ p.id < m
      BY <2>1, <3>1
    <3>3. m # 0
      BY <3>2, <1>2
    <3>4. m - 1 \in Nat /\ \A p \in posts : p.id <= m - 1
      BY <3>2, <3>3
    <3>5. QED
      BY <2>3, <3>4
  <2>5. \A i \in ids : m >= i
    BY <2>1, <2>2
  <2>6. \E x \in ids : \A i \in ids : x >= i
    BY <2>4, <2>5
  <2>7. Max(ids) \in ids /\ \A i \in ids : Max(ids) >= i
    BY <2>6 DEF Max
  <2>8. NextPostId = Max(ids) + 1
    BY <1>2 DEF NextPostId
  <2>9. \A p \in posts : p.id \in ids
    OBVIOUS
  <2> HIDE DEF ids
  <2>10. PICK top \in Nat : NextPostId = top + 1 /\ \A i \in ids : top >= i
    BY <2>1, <2>7, <2>8
  <2>11. \A i \in ids : i \in Nat /\ i < NextPostId
    BY <2>1, <2>10
  <2>12. QED
    BY <2>9, <2>10, <2>11
<1>3. QED
  BY <1>1, <1>2

-----------------------------------------------------------------------------
(* Every step keeps the invariant: the user's side. *)

\* The initial state.
LEMMA InitInv == Init => IInv
<1> SUFFICES ASSUME Init PROVE IInv
  OBVIOUS
<1>1. requests = << >> /\ requests \in Seq(RequestType) /\ Requests = {}
  BY EmptySeq DEF Init, Requests
<1>2. TypeOK
  <2>1. /\ draft \in [Forms -> Drafts \union {NoDraft}]
        /\ captcha \in [Forms -> 0..MaxTokens]
    BY UploadAssumption DEF Init, Mounted
  <2>2. {isPosting, showForm, solved, leaving} \subseteq [Forms -> BOOLEAN]
    BY DEF Init, Mounted
  <2>3. /\ semaphore = 0 /\ cooling = FALSE /\ era = 0 /\ tokens = 0 /\ faults = 0
        /\ spent = {} /\ posts = {} /\ mapped = {} /\ entered = {}
    BY DEF Init
  <2>4. 0 \in 0..MaxTokens /\ 0 \in 0..MaxFaults
    BY UploadAssumption
  <2>5. QED
    BY <1>1, <2>1, <2>2, <2>3, <2>4 DEF TypeOK
<1>3. posts = {} /\ \A f \in Forms : ~leaving[f] /\ draft[f] = NoDraft
  BY DEF Init, Mounted
<1>4. Bounded
  BY <1>3 DEF Bounded
<1>5. QED
  BY <1>1, <1>2, <1>3, <1>4
     DEF IInv, Taken, Numbered, NumbersAreUnique, Stored, Sequential, Cooled,
         Owned, Left, Once

\* The form and the widget change what nobody else looks at.
LEMMA WidgetKeeps ==
  ASSUME IInv, NEW f \in Forms, ShowForm(f) \/ SolveCaptcha(f) \/ ResetCaptcha(f)
  PROVE  IInv'
<1>1. TypeOK'
  <2>1. CASE ShowForm(f)
    BY <2>1 DEF IInv, ShowForm, serverVars, countVars, TypeOK, Requests
  <2>2. CASE SolveCaptcha(f)
    <3>1. tokens' \in 0..MaxTokens
      BY <2>2, UploadAssumption DEF IInv, SolveCaptcha, TypeOK
    <3>2. captcha' \in [Forms -> 0..MaxTokens]
      BY <2>2, <3>1 DEF IInv, SolveCaptcha, TypeOK
    <3>3. QED
      BY <2>2, <3>1, <3>2
         DEF IInv, SolveCaptcha, serverVars, TypeOK, Requests
  <2>3. CASE ResetCaptcha(f)
    <3>1. captcha' \in [Forms -> 0..MaxTokens]
      BY <2>3, UploadAssumption DEF IInv, ResetCaptcha, TypeOK
    <3>2. QED
      BY <2>3, <3>1 DEF IInv, ResetCaptcha, serverVars, countVars, TypeOK, Requests
  <2>4. QED
    BY <2>1, <2>2, <2>3
<1>2. UNCHANGED <<draft, isPosting, leaving, requests, serverVars, entered>>
  BY DEF ShowForm, SolveCaptcha, ResetCaptcha, serverVars, countVars
<1>3. QED
  BY <1>1, <1>2
     DEF IInv, Taken, Bounded, Numbered, NumbersAreUnique, Stored, Sequential,
         Acknowledged, Cooled, Owned, Left, Once, Requests, serverVars

\* A new draft is in no request and in no other form.
LEMMA EnterKeeps ==
  ASSUME IInv, NEW f \in Forms, NEW d \in Drafts, Enter(f, d)
  PROVE  IInv'
<1>1. TypeOK'
  BY DEF IInv, Enter, serverVars, TypeOK, Requests
<1>2. UNCHANGED <<isPosting, leaving, requests, serverVars>>
  BY DEF Enter, serverVars
<1>3. /\ d \notin entered /\ entered' = entered \union {d}
      /\ draft' = [draft EXCEPT ![f] = d] /\ draft \in [Forms -> Drafts \union {NoDraft}]
  BY DEF IInv, Enter, TypeOK
<1>4. d # NoDraft
  BY UploadAssumption
<1>5. Owned'
  BY <1>2, <1>3, <1>4 DEF IInv, Owned, Requests
<1>6. Once'
  BY <1>2, <1>3 DEF IInv, Once, Owned, Acknowledged, Requests, TypeOK, RequestType
<1>7. QED
  BY <1>1, <1>2, <1>5, <1>6
     DEF IInv, Taken, Bounded, Numbered, NumbersAreUnique, Stored, Sequential,
         Acknowledged, Cooled, Left, Requests, serverVars

\* A request is sent by a form that waits for none.
LEMMA ClickKeeps ==
  ASSUME IInv, NEW f \in Forms, ClickPost(f)
  PROVE  IInv'
<1> DEFINE n == Len(requests) + 1
           v == [form |-> f, draft |-> draft[f], captcha |-> captcha[f],
                 stage |-> "sent", ok |-> FALSE, heard |-> "waiting",
                 id |-> 0, era |-> 0]
<1>1. /\ v \in RequestType
      /\ requests' \in Seq(RequestType)
      /\ Requests' = Requests \union {n}
      /\ requests'[n] = v
      /\ \A q \in Requests : q < n /\ requests'[q] = requests[q]
  BY SentEdit DEF IInv
<1>2. n \in Nat /\ n \notin Requests /\ \A q \in Requests : q \in Nat /\ ~(n < q)
  BY <1>1, RequestTyped, LenProperties DEF IInv, TypeOK, Requests
<1>3. /\ ~isPosting[f] /\ isPosting' = [isPosting EXCEPT ![f] = TRUE]
      /\ UNCHANGED <<draft, captcha, showForm, solved, leaving, serverVars, countVars>>
      /\ draft[f] # NoDraft
  BY DEF ClickPost, Acceptable
<1>4. TypeOK'
  BY <1>1, <1>3 DEF IInv, TypeOK, serverVars, countVars
<1> DEFINE Old == \A q \in Requests : requests'[q] = requests[q]
<1>5. Old /\ v.form = f /\ v.draft = draft[f] /\ v.stage = "sent" /\ ~v.ok
          /\ v.heard = "waiting" /\ v.draft \in entered
  BY <1>1, <1>3 DEF IInv, Owned
<1> HIDE DEF v, n
<1>6. Taken'
  BY <1>1, <1>3, <1>5 DEF IInv, Taken, serverVars
<1>7. Bounded' /\ Numbered' /\ NumbersAreUnique'
  BY <1>1, <1>3, <1>5
     DEF IInv, Bounded, Numbered, NumbersAreUnique, serverVars, TypeOK
<1>8. Stored'
  BY <1>1, <1>3, <1>5 DEF IInv, Stored, serverVars
<1>9. Sequential'
  <2>1. isPosting'[f] /\ \A g \in Forms : isPosting[g] => isPosting'[g]
    BY <1>3 DEF IInv, TypeOK
  <2>2. \A q \in Requests : requests[q].form \in Forms
    BY RequestTyped DEF IInv, TypeOK, RequestType
  <2>3. \A q \in Requests' : requests'[q].heard = "waiting" =>
          isPosting'[requests'[q].form]
    BY <1>1, <1>5, <2>1, <2>2 DEF IInv, Sequential
  <2>4. \A q \in Requests : requests[q].form = f => requests[q].heard # "waiting"
    BY <1>3 DEF IInv, Sequential
  <2>5. \A r, q \in Requests' :
          r < q /\ requests'[r].form = requests'[q].form =>
            requests'[r].heard # "waiting"
    BY <1>1, <1>2, <1>5, <2>4 DEF IInv, Sequential
  <2>6. QED
    BY <2>3, <2>5 DEF Sequential
<1>10. Cooled'
  BY <1>1, <1>2, <1>3, <1>5 DEF IInv, Cooled, Acknowledged, serverVars
<1>11. Owned'
  BY <1>1, <1>3, <1>5 DEF IInv, Owned, countVars
<1>12. Left'
  BY <1>1, <1>3, <1>5 DEF IInv, Left, Acknowledged, serverVars
<1>13. Once'
  <2>1. \A r \in Requests : Acknowledged(r)' = Acknowledged(r)
    BY <1>1 DEF Acknowledged
  <2>2. \A q \in Requests' \ Requests : ~Acknowledged(q)'
    BY <1>1, <1>5 DEF Acknowledged
  <2>3. \A r \in Requests : Acknowledged(r) /\ requests[r].draft = v.draft =>
          leaving[f]
    BY <1>5 DEF IInv, Once, Owned
  <2>4. \A r, q \in Requests' :
          r < q /\ requests'[r].draft = requests'[q].draft /\ Acknowledged(r)' =>
            /\ requests'[q].heard = "waiting" => leaving[requests'[q].form]
            /\ ~Acknowledged(q)'
    BY <1>1, <1>2, <1>5, <2>1, <2>2, <2>3 DEF IInv, Once
  <2>5. \A r \in Requests' :
          Acknowledged(r)' /\ draft[requests'[r].form] = requests'[r].draft =>
            leaving[requests'[r].form]
    BY <1>1, <2>1, <2>2 DEF IInv, Once
  <2>6. QED
    BY <1>3, <2>4, <2>5 DEF Once
<1>14. QED
  BY <1>4, <1>6, <1>7, <1>8, <1>9, <1>10, <1>11, <1>12, <1>13 DEF IInv

-----------------------------------------------------------------------------
(* Every step keeps the invariant: answers. *)

\* What a request becomes for its form: answered, lost, or lost before it
\* reached the server.
Settles(r, v) ==
  \/ v = [requests[r] EXCEPT !.heard = "lost"]
  \/ /\ v = [requests[r] EXCEPT !.heard = "lost", !.stage = "done"]
     /\ requests[r].stage = "sent"
  \/ v = [requests[r] EXCEPT !.heard = "answer"] /\ requests[r].stage = "done"

\* A form that hears of its request, or loses it, waits for none; the server's
\* parts of the invariant do not notice.
LEMMA HearingKeeps ==
  ASSUME IInv, NEW f \in Forms, NEW r, Awaits(f, r), NEW v \in RequestType,
         Becomes(r, v), StopsPosting(f), UNCHANGED serverVars, Settles(r, v)
  PROVE  /\ Taken' /\ Bounded' /\ Numbered' /\ NumbersAreUnique' /\ Stored'
         /\ Sequential' /\ Cooled'
         /\ v.form = f /\ v.draft = requests[r].draft /\ v.heard # "waiting"
         /\ v.ok = requests[r].ok
<1>1. r \in Requests /\ requests[r] \in RequestType /\ r \in Nat
  BY RequestTyped DEF Awaits, IInv, TypeOK
<1>2. /\ v.form = f /\ v.draft = requests[r].draft /\ v.heard # "waiting"
      /\ v.ok = requests[r].ok /\ v.id = requests[r].id /\ v.era = requests[r].era
      /\ v.stage = requests[r].stage \/ (v.stage = "done" /\ requests[r].stage = "sent")
      /\ v.heard = "answer" => v.stage = "done"
      /\ requests[r].form = f /\ requests[r].heard = "waiting"
  <2>1. requests[r].form = f /\ requests[r].heard = "waiting"
    BY DEF Awaits
  <2>2. CASE v = [requests[r] EXCEPT !.heard = "lost"]
    BY <1>1, <2>1, <2>2 DEF RequestType
  <2>3. CASE /\ v = [requests[r] EXCEPT !.heard = "lost", !.stage = "done"]
             /\ requests[r].stage = "sent"
    BY <1>1, <2>1, <2>3 DEF RequestType
  <2>4. CASE v = [requests[r] EXCEPT !.heard = "answer"] /\ requests[r].stage = "done"
    BY <1>1, <2>1, <2>4 DEF RequestType
  <2>5. QED
    BY <2>2, <2>3, <2>4 DEF Settles
<1>3. /\ Requests' = Requests /\ requests'[r] = v
      /\ \A q \in Requests : q # r => requests'[q] = requests[q]
  BY DEF Becomes
<1>4. UNCHANGED <<spent, semaphore, posts, mapped, cooling, era>>
  BY DEF serverVars
<1>5. Taken'
  BY <1>1, <1>2, <1>3, <1>4 DEF IInv, Taken
<1>6. Bounded' /\ NumbersAreUnique'
  BY <1>4 DEF IInv, Bounded, NumbersAreUnique
<1>7. Numbered'
  <2>1. \A q \in Requests : /\ requests'[q].draft = requests[q].draft
                            /\ requests'[q].id = requests[q].id
    BY <1>2, <1>3
  <2>2. \A q \in Requests :
          /\ requests'[q].stage = "writing" => requests[q].stage = "writing"
          /\ requests[q].stage \in {"saved", "done"} =>
               requests'[q].stage \in {"saved", "done"}
    BY <1>2, <1>3
  <2>3. \A p \in posts : p.request \in Requests
    BY DEF IInv, TypeOK
  <2>4. QED
    BY <1>3, <1>4, <2>1, <2>2, <2>3 DEF IInv, Numbered
<1>8. Stored'
  <2>1. \A q \in Requests' : requests'[q].stage = "saved" =>
          [id |-> requests'[q].id, draft |-> requests'[q].draft, request |-> q]
            \in posts'
    BY <1>1, <1>2, <1>3, <1>4 DEF IInv, Stored
  <2>2. \A q \in Requests' : requests'[q].ok =>
          /\ requests'[q].stage = "done"
          /\ \E p \in posts' : /\ p.request = q
                               /\ p.draft \in FileDrafts => p.id \in mapped'
    BY <1>1, <1>2, <1>3, <1>4 DEF IInv, Stored
  <2>3. \A q \in Requests' : requests'[q].heard = "answer" =>
          requests'[q].stage = "done"
    BY <1>1, <1>2, <1>3 DEF IInv, Stored
  <2>4. QED
    BY <1>3, <1>4, <2>1, <2>2, <2>3 DEF Stored
<1>9. Sequential'
  <2>1. \A q \in Requests : q # r /\ requests[q].form = f =>
          requests[q].heard # "waiting"
    <3>1. SUFFICES ASSUME NEW q \in Requests, q # r, requests[q].form = f
                   PROVE  requests[q].heard # "waiting"
      OBVIOUS
    <3>2. r < q \/ q < r
      BY <1>1, <3>1, RequestTyped DEF IInv, TypeOK
    <3>3. QED
      BY <1>1, <1>2, <3>1, <3>2 DEF IInv, Sequential
  <2>2. \A g \in Forms : g # f => isPosting'[g] = isPosting[g]
    BY DEF StopsPosting, IInv, TypeOK
  <2>3. \A q \in Requests : requests[q].form \in Forms
    BY RequestTyped DEF IInv, TypeOK, RequestType
  <2>4. \A q \in Requests' : requests'[q].heard = "waiting" =>
          isPosting'[requests'[q].form]
    BY <1>2, <1>3, <2>1, <2>2, <2>3 DEF IInv, Sequential
  <2>5. \A p, q \in Requests' :
          p < q /\ requests'[p].form = requests'[q].form =>
            requests'[p].heard # "waiting"
    BY <1>2, <1>3 DEF IInv, Sequential
  <2>6. QED
    BY <2>4, <2>5 DEF Sequential
<1>10. Cooled'
  <2>1. \A q \in Requests' : requests'[q].ok =>
          /\ requests'[q].era <= era
          /\ requests'[q].era = era \/ requests'[q].heard = "waiting" => cooling
    BY <1>2, <1>3 DEF IInv, Cooled
  <2>2. \A q \in Requests : r < q /\ requests[q].form = f => FALSE
    BY <1>1, <1>2 DEF IInv, Sequential
  <2>3. \A q \in Requests' : q # r => Acknowledged(q)' = Acknowledged(q)
    BY <1>3 DEF Acknowledged
  <2>4. ASSUME NEW p \in Requests, NEW q \in Requests,
               p < q, requests'[p].form = requests'[q].form, Acknowledged(p)'
        PROVE  /\ requests'[q].stage \in {"checked", "writing", "saved"} =>
                    requests'[p].era < era
               /\ requests'[q].ok => requests'[p].era < requests'[q].era
    <3>1. p # r
      BY <1>2, <1>3, <2>2, <2>4
    <3>2. Acknowledged(p) /\ requests'[p] = requests[p]
      BY <1>3, <2>3, <2>4, <3>1
    <3>3. requests[p].form = requests[q].form
      BY <1>2, <1>3, <2>4, <3>2
    <3>4. /\ requests'[q].ok = requests[q].ok /\ requests'[q].era = requests[q].era
          /\ requests'[q].stage = requests[q].stage \/ requests'[q].stage = "done"
      BY <1>2, <1>3
    <3>5. QED
      BY <2>4, <3>2, <3>3, <3>4 DEF IInv, Cooled
  <2>5. QED
    BY <1>3, <1>4, <2>1, <2>4 DEF Cooled
<1>11. QED
  BY <1>2, <1>5, <1>6, <1>7, <1>8, <1>9, <1>10

\* Who owns a draft does not change when a request keeps its draft and a form
\* at most loses its own.
LEMMA OwnersStay ==
  ASSUME IInv, NEW r \in Requests, NEW v \in RequestType, Becomes(r, v),
         v.form = requests[r].form, v.draft = requests[r].draft,
         entered' = entered, \A g \in Forms : draft'[g] \in {draft[g], NoDraft}
  PROVE  Owned'
<1>1. /\ Requests' = Requests
      /\ \A q \in Requests : /\ requests'[q].form = requests[q].form
                             /\ requests'[q].draft = requests[q].draft
  BY DEF Becomes
<1>2. \A q \in Requests : requests[q].draft # NoDraft
  BY RequestTyped, UploadAssumption DEF IInv, TypeOK, RequestType
<1>3. QED
  BY <1>1, <1>2 DEF IInv, Owned

\* What a form is told, and what it does about it.
LEMMA HearingTells ==
  ASSUME IInv, NEW f \in Forms, NEW r, Awaits(f, r), NEW v \in RequestType,
         Becomes(r, v), UNCHANGED <<cooling, entered>>,
         v.form = f, v.draft = requests[r].draft, v.heard # "waiting",
         v.ok = requests[r].ok,
         \A g \in Forms : /\ draft'[g] \in {draft[g], NoDraft}
                          /\ leaving[g] => leaving'[g],
         \A g \in Forms : leaving'[g] /\ ~leaving[g] =>
                            g = f /\ v.ok /\ v.heard = "answer",
         v.ok /\ v.heard = "answer" => draft'[f] = NoDraft \/ leaving'[f]
  PROVE  Owned' /\ Left' /\ Once'
<1>1. /\ r \in Requests /\ r \in Nat
      /\ requests[r].form = f /\ requests[r].heard = "waiting"
  BY RequestTyped DEF Awaits, IInv, TypeOK
<1>2. /\ Requests' = Requests /\ requests'[r] = v
      /\ \A q \in Requests : q # r => requests'[q] = requests[q]
  BY DEF Becomes
<1>3. \A q \in Requests : q # r /\ requests[q].form = f =>
        requests[q].heard # "waiting"
  <2>1. SUFFICES ASSUME NEW q \in Requests, q # r, requests[q].form = f
                 PROVE  requests[q].heard # "waiting"
    OBVIOUS
  <2>2. r < q \/ q < r
    BY <1>1, <2>1, RequestTyped DEF IInv, TypeOK
  <2>3. QED
    BY <1>1, <2>1, <2>2 DEF IInv, Sequential
<1>4. \A q \in Requests : ~(r < q /\ requests[q].form = f)
  BY <1>1 DEF IInv, Sequential
<1>5. /\ ~Acknowledged(r)
      /\ \A q \in Requests : q # r => Acknowledged(q)' = Acknowledged(q)
      /\ Acknowledged(r)' = (v.ok /\ v.heard = "answer")
      /\ \A q \in Requests : Acknowledged(q) => Acknowledged(q)'
  BY <1>1, <1>2 DEF Acknowledged
<1>6. Owned'
  BY <1>1, OwnersStay
<1>7. Left'
  <2>1. ASSUME NEW g \in Forms, leaving'[g]
        PROVE  /\ cooling
               /\ \E q \in Requests : requests'[q].form = g /\ Acknowledged(q)'
    <3>1. CASE leaving[g]
      BY <1>1, <1>2, <1>5, <3>1 DEF IInv, Left
    <3>2. CASE ~leaving[g]
      BY <1>1, <1>2, <1>5, <2>1, <3>2 DEF IInv, Cooled
    <3>3. QED
      BY <3>1, <3>2
  <2>2. ASSUME NEW g \in Forms, leaving'[g], NEW q \in Requests,
               requests'[q].form = g, requests'[q].heard = "waiting"
        PROVE  /\ requests'[q].stage \notin {"checked", "writing", "saved"}
               /\ ~requests'[q].ok
    <3>1. q # r /\ requests'[q] = requests[q]
      BY <1>2, <2>2
    <3>2. leaving[g]
      BY <1>3, <2>2, <3>1
    <3>3. QED
      BY <2>2, <3>1, <3>2 DEF IInv, Left
  <2>3. QED
    BY <1>2, <2>1, <2>2 DEF Left
<1>8. Once'
  <2>1. ASSUME NEW q \in Requests, Acknowledged(q)',
               draft'[requests'[q].form] = requests'[q].draft
        PROVE  leaving'[requests'[q].form]
    <3>1. requests'[q].draft # NoDraft /\ requests'[q].form \in Forms
      <4>1. /\ requests'[q].draft = requests[q].draft
            /\ requests'[q].form = requests[q].form
        BY <1>1, <1>2
      <4>2. requests[q].draft \in Drafts /\ requests[q].form \in Forms
        BY RequestTyped DEF IInv, TypeOK, RequestType
      <4>3. QED
        BY <4>1, <4>2, UploadAssumption
    <3>2. CASE q = r
      BY <1>2, <1>5, <2>1, <3>1, <3>2
    <3>3. CASE q # r
      <4>1. Acknowledged(q) /\ requests'[q] = requests[q]
        BY <1>2, <1>5, <2>1, <3>3
      <4>2. draft[requests[q].form] = requests[q].draft
        BY <2>1, <3>1, <4>1
      <4>3. leaving[requests[q].form]
        BY <4>1, <4>2 DEF IInv, Once
      <4>4. QED
        BY <3>1, <4>1, <4>3
    <3>4. QED
      BY <3>2, <3>3
  <2>2. ASSUME NEW p \in Requests, NEW q \in Requests,
               p < q, requests'[p].draft = requests'[q].draft, Acknowledged(p)'
        PROVE  /\ requests'[q].heard = "waiting" => leaving'[requests'[q].form]
               /\ ~Acknowledged(q)'
    <3>1. /\ requests[p].draft = requests[q].draft
          /\ requests'[q].form = requests[q].form /\ requests[q].form \in Forms
      BY <1>1, <1>2, <2>2, RequestTyped DEF IInv, TypeOK, RequestType
    <3>2. requests[p].form = requests[q].form
      BY <3>1 DEF IInv, Owned
    <3>3. p # r /\ Acknowledged(p)
      BY <1>1, <1>4, <1>5, <2>2, <3>2
    <3>4. requests[q].heard = "waiting" => leaving[requests[q].form]
      BY <2>2, <3>1, <3>3 DEF IInv, Once
    <3>5. CASE q = r
      <4>1. ~requests[r].ok
        BY <1>1, <3>4, <3>5 DEF IInv, Left
      <4>2. QED
        BY <1>2, <1>5, <3>5, <4>1
    <3>6. CASE q # r
      <4>1. ~Acknowledged(q)
        BY <2>2, <3>1, <3>3 DEF IInv, Once
      <4>2. QED
        BY <1>2, <1>5, <3>1, <3>4, <3>6, <4>1
    <3>7. QED
      BY <3>5, <3>6
  <2>3. QED
    BY <1>2, <2>1, <2>2 DEF Once
<1>9. QED
  BY <1>6, <1>7, <1>8

\* Types survive the edit of a request, with nothing else out of its type.
LEMMA EditTyped ==
  ASSUME TypeOK, NEW r \in Requests, NEW v \in RequestType, Becomes(r, v),
         draft' \in [Forms -> Drafts \union {NoDraft}],
         {isPosting', solved', leaving'} \subseteq [Forms -> BOOLEAN],
         UNCHANGED <<captcha, showForm, posts, entered, tokens, era>>,
         spent' \subseteq 1..MaxTokens, semaphore' \in {0} \union Requests,
         mapped' \subseteq {p.id : p \in posts}, cooling' \in BOOLEAN,
         faults' \in 0..MaxFaults
  PROVE  TypeOK'
<1>1. requests' \in Seq(RequestType) /\ Requests' = Requests
  BY DEF Becomes
<1>2. QED
  BY <1>1 DEF TypeOK

\* An accepted post empties its form.
LEMMA PostAcceptedKeeps ==
  ASSUME IInv, NEW f \in Forms, NEW r \in Requests, PostAccepted(f, r)
  PROVE  IInv'
<1> DEFINE v == [requests[r] EXCEPT !.heard = "answer"]
<1>1. /\ Awaits(f, r) /\ requests[r].stage = "done" /\ requests[r].ok
      /\ StopsPosting(f) /\ Heard(r, "answer")
  BY DEF PostAccepted, Answered
<1>2. Becomes(r, v)
  BY <1>1, HeardEdit DEF IInv, TypeOK
<1>3. /\ draft' = [draft EXCEPT ![f] = NoDraft] /\ solved' = [solved EXCEPT ![f] = FALSE]
      /\ UNCHANGED <<captcha, showForm, leaving, serverVars, countVars>>
  BY DEF PostAccepted
<1>4. v \in RequestType /\ v.heard = "answer"
  BY RequestTyped DEF IInv, TypeOK, RequestType
<1>5. Settles(r, v)
  BY <1>1 DEF Settles
<1> HIDE DEF v
<1>6. /\ Taken' /\ Bounded' /\ Numbered' /\ NumbersAreUnique' /\ Stored'
      /\ Sequential' /\ Cooled'
      /\ v.form = f /\ v.draft = requests[r].draft /\ v.heard # "waiting"
      /\ v.ok = requests[r].ok
  BY <1>1, <1>2, <1>3, <1>4, <1>5, HearingKeeps
<1>7. UNCHANGED <<cooling, entered>>
  BY <1>3 DEF serverVars, countVars
<1>8. \A g \in Forms : /\ draft'[g] \in {draft[g], NoDraft}
                       /\ leaving[g] => leaving'[g]
                       /\ ~(leaving'[g] /\ ~leaving[g])
  BY <1>3 DEF IInv, TypeOK
<1>9. draft'[f] = NoDraft
  BY <1>3 DEF IInv, TypeOK
<1>10. Owned' /\ Left' /\ Once'
  BY <1>1, <1>2, <1>4, <1>6, <1>7, <1>8, <1>9, HearingTells
<1>11. TypeOK'
  <2>1. /\ draft' \in [Forms -> Drafts \union {NoDraft}]
        /\ {isPosting', solved', leaving'} \subseteq [Forms -> BOOLEAN]
    BY <1>1, <1>3 DEF IInv, TypeOK, StopsPosting
  <2>2. QED
    BY <1>2, <1>3, <1>4, <2>1, EditTyped DEF IInv, TypeOK, serverVars, countVars
<1>12. QED
  BY <1>6, <1>10, <1>11 DEF IInv

\* An accepted thread sends its page away.
LEMMA ThreadAcceptedKeeps ==
  ASSUME IInv, NEW f \in Forms, NEW r \in Requests, ThreadAccepted(f, r)
  PROVE  IInv'
<1> DEFINE v == [requests[r] EXCEPT !.heard = "answer"]
<1>1. /\ Awaits(f, r) /\ requests[r].stage = "done" /\ requests[r].ok
      /\ StopsPosting(f) /\ Heard(r, "answer")
  BY DEF ThreadAccepted, Answered
<1>2. Becomes(r, v)
  BY <1>1, HeardEdit DEF IInv, TypeOK
<1>3. /\ leaving' = [leaving EXCEPT ![f] = TRUE] /\ solved' = [solved EXCEPT ![f] = FALSE]
      /\ UNCHANGED <<draft, captcha, showForm, serverVars, countVars>>
  BY DEF ThreadAccepted
<1>4. v \in RequestType /\ v.heard = "answer"
  BY RequestTyped DEF IInv, TypeOK, RequestType
<1>5. Settles(r, v)
  BY <1>1 DEF Settles
<1> HIDE DEF v
<1>6. /\ Taken' /\ Bounded' /\ Numbered' /\ NumbersAreUnique' /\ Stored'
      /\ Sequential' /\ Cooled'
      /\ v.form = f /\ v.draft = requests[r].draft /\ v.heard # "waiting"
      /\ v.ok = requests[r].ok
  BY <1>1, <1>2, <1>3, <1>4, <1>5, HearingKeeps
<1>7. UNCHANGED <<cooling, entered>>
  BY <1>3 DEF serverVars, countVars
<1>8. \A g \in Forms : /\ draft'[g] \in {draft[g], NoDraft}
                       /\ leaving[g] => leaving'[g]
                       /\ leaving'[g] /\ ~leaving[g] => g = f
  BY <1>3 DEF IInv, TypeOK
<1>9. leaving'[f]
  BY <1>3 DEF IInv, TypeOK
<1>10. Owned' /\ Left' /\ Once'
  BY <1>1, <1>2, <1>4, <1>6, <1>7, <1>8, <1>9, HearingTells
<1>11. TypeOK'
  <2>1. /\ draft' \in [Forms -> Drafts \union {NoDraft}]
        /\ {isPosting', solved', leaving'} \subseteq [Forms -> BOOLEAN]
    BY <1>1, <1>3 DEF IInv, TypeOK, StopsPosting
  <2>2. QED
    BY <1>2, <1>3, <1>4, <2>1, EditTyped DEF IInv, TypeOK, serverVars, countVars
<1>12. QED
  BY <1>6, <1>10, <1>11 DEF IInv

\* A refusal is heard and changes nothing else.
LEMMA UploadRefusedKeeps ==
  ASSUME IInv, NEW f \in Forms, NEW r \in Requests, UploadRefused(f, r)
  PROVE  IInv'
<1> DEFINE v == [requests[r] EXCEPT !.heard = "answer"]
<1>1. /\ Awaits(f, r) /\ requests[r].stage = "done" /\ ~requests[r].ok
      /\ StopsPosting(f) /\ Heard(r, "answer")
  BY DEF UploadRefused, Answered
<1>2. Becomes(r, v)
  BY <1>1, HeardEdit DEF IInv, TypeOK
<1>3. UNCHANGED <<draft, captcha, showForm, solved, leaving, serverVars, countVars>>
  BY DEF UploadRefused
<1>4. v \in RequestType
  BY RequestTyped DEF IInv, TypeOK, RequestType
<1>5. Settles(r, v)
  BY <1>1 DEF Settles
<1> HIDE DEF v
<1>6. /\ Taken' /\ Bounded' /\ Numbered' /\ NumbersAreUnique' /\ Stored'
      /\ Sequential' /\ Cooled'
      /\ v.form = f /\ v.draft = requests[r].draft /\ v.heard # "waiting"
      /\ v.ok = requests[r].ok
  <2>1. UNCHANGED serverVars
    BY <1>3
  <2>2. QED
    BY <1>1, <1>2, <1>4, <1>5, <2>1, HearingKeeps
<1>7. UNCHANGED <<cooling, entered>>
  BY <1>3 DEF serverVars, countVars
<1>8. \A g \in Forms : /\ draft'[g] \in {draft[g], NoDraft}
                       /\ leaving[g] => leaving'[g]
                       /\ ~(leaving'[g] /\ ~leaving[g])
  BY <1>3
<1>9. Owned' /\ Left' /\ Once'
  BY <1>1, <1>2, <1>4, <1>6, <1>7, <1>8, HearingTells
<1>10. TypeOK'
  <2>1. isPosting' \in [Forms -> BOOLEAN]
    BY <1>1 DEF IInv, TypeOK, StopsPosting
  <2>2. QED
    BY <1>2, <1>3, <1>4, <2>1, EditTyped DEF IInv, TypeOK, serverVars, countVars
<1>11. QED
  BY <1>6, <1>9, <1>10 DEF IInv

\* A request or its answer is lost.
LEMMA ConnectionLostKeeps ==
  ASSUME IInv, NEW f \in Forms, NEW r \in Requests, ConnectionLost(f, r)
  PROVE  IInv'
<1>1. /\ Awaits(f, r) /\ StopsPosting(f)
      /\ faults < MaxFaults /\ faults' = faults + 1
      /\ UNCHANGED <<draft, captcha, showForm, solved, leaving, serverVars,
                     entered, tokens>>
  BY DEF ConnectionLost
<1>2. requests[r] \in RequestType
  BY RequestTyped DEF IInv, TypeOK
<1>3. PICK v \in RequestType :
        Becomes(r, v) /\ Settles(r, v) /\ v.heard = "lost"
  <2>1. CASE Heard(r, "lost")
    <3>1. Becomes(r, [requests[r] EXCEPT !.heard = "lost"])
      BY <2>1, HeardEdit DEF IInv, TypeOK
    <3>2. [requests[r] EXCEPT !.heard = "lost"] \in RequestType
      BY <1>2 DEF RequestType
    <3>3. [requests[r] EXCEPT !.heard = "lost"].heard = "lost"
      BY <1>2 DEF RequestType
    <3>4. QED
      BY <3>1, <3>2, <3>3 DEF Settles
  <2>2. CASE /\ requests[r].stage = "sent"
             /\ requests' = [requests EXCEPT ![r].heard = "lost", ![r].stage = "done"]
    <3> DEFINE v == [requests[r] EXCEPT !.heard = "lost", !.stage = "done"]
    <3>1. v \in RequestType
      BY <1>2 DEF RequestType, Stages
    <3>2. requests' = [requests EXCEPT ![r] = v]
      BY <2>2, <1>2 DEF RequestType, Requests
    <3>3. Becomes(r, v)
      BY <3>1, <3>2, Edited DEF IInv, TypeOK
    <3>4. v.heard = "lost"
      BY <1>2 DEF RequestType
    <3>5. QED
      BY <2>2, <3>1, <3>3, <3>4 DEF Settles
  <2>3. QED
    BY <2>1, <2>2 DEF ConnectionLost
<1>4. /\ Taken' /\ Bounded' /\ Numbered' /\ NumbersAreUnique' /\ Stored'
      /\ Sequential' /\ Cooled'
      /\ v.form = f /\ v.draft = requests[r].draft /\ v.heard # "waiting"
      /\ v.ok = requests[r].ok
  <2>1. UNCHANGED serverVars
    BY <1>1
  <2>2. QED
    BY <1>1, <1>3, <2>1, HearingKeeps
<1>5. UNCHANGED <<cooling, entered>>
  BY <1>1 DEF serverVars
<1>6. \A g \in Forms : /\ draft'[g] \in {draft[g], NoDraft}
                       /\ leaving[g] => leaving'[g]
                       /\ ~(leaving'[g] /\ ~leaving[g])
  BY <1>1
<1>7. Owned' /\ Left' /\ Once'
  BY <1>1, <1>3, <1>4, <1>5, <1>6, HearingTells
<1>8. TypeOK'
  <2>1. isPosting' \in [Forms -> BOOLEAN] /\ faults' \in 0..MaxFaults
    BY <1>1, UploadAssumption DEF IInv, TypeOK, StopsPosting
  <2>2. QED
    BY <1>1, <1>3, <2>1, EditTyped DEF IInv, TypeOK, serverVars
<1>9. QED
  BY <1>4, <1>7, <1>8 DEF IInv

\* A page that is left forgets its draft and its request.
LEMMA UnloadKeeps ==
  ASSUME IInv, NEW f \in Forms, Unload(f)
  PROVE  IInv'
<1>1. /\ draft' = [draft EXCEPT ![f] = NoDraft]
      /\ captcha' = [captcha EXCEPT ![f] = 0]
      /\ showForm' = [showForm EXCEPT ![f] = f \notin ThreadForms]
      /\ solved' = [solved EXCEPT ![f] = FALSE]
      /\ leaving' = [leaving EXCEPT ![f] = FALSE]
      /\ isPosting' = [isPosting EXCEPT ![f] = FALSE]
      /\ UNCHANGED <<serverVars, countVars>>
  BY DEF Unload, Mounted, StopsPosting
<1>2. UNCHANGED <<spent, semaphore, posts, mapped, cooling, era, entered,
                  tokens, faults>>
  BY <1>1 DEF serverVars, countVars
<1>3. requests' = [r \in Requests |-> IF Awaits(f, r)
                     THEN [requests[r] EXCEPT !.heard = "lost"] ELSE requests[r]]
  BY DEF Unload
<1>4. \A q \in Requests : requests[q] \in RequestType
  BY RequestTyped DEF IInv, TypeOK
<1>5. Requests' = Requests /\ requests' \in Seq(RequestType)
  <2>1. \A q \in Requests : requests'[q] \in RequestType
    BY <1>3, <1>4 DEF RequestType
  <2>2. DOMAIN requests' = Requests /\ requests' = [q \in Requests |-> requests'[q]]
    BY <1>3
  <2>3. QED
    BY <2>1, <2>2, Rewritten DEF IInv, TypeOK, Requests
<1>6. \A q \in Requests :
        /\ requests'[q].form = requests[q].form
        /\ requests'[q].draft = requests[q].draft
        /\ requests'[q].stage = requests[q].stage
        /\ requests'[q].ok = requests[q].ok
        /\ requests'[q].id = requests[q].id
        /\ requests'[q].era = requests[q].era
        /\ \/ requests'[q].heard = requests[q].heard /\ ~Awaits(f, q)
           \/ requests'[q].heard = "lost" /\ requests[q].heard = "waiting"
  <2>1. SUFFICES ASSUME NEW q \in Requests
                 PROVE  /\ requests'[q].form = requests[q].form
                        /\ requests'[q].draft = requests[q].draft
                        /\ requests'[q].stage = requests[q].stage
                        /\ requests'[q].ok = requests[q].ok
                        /\ requests'[q].id = requests[q].id
                        /\ requests'[q].era = requests[q].era
                        /\ \/ /\ requests'[q].heard = requests[q].heard
                              /\ ~Awaits(f, q)
                           \/ /\ requests'[q].heard = "lost"
                              /\ requests[q].heard = "waiting"
    OBVIOUS
  <2>2. CASE Awaits(f, q)
    <3>1. requests'[q] = [requests[q] EXCEPT !.heard = "lost"]
      BY <1>3, <2>2
    <3>2. QED
      BY <1>4, <2>2, <3>1 DEF RequestType, Awaits
  <2>3. CASE ~Awaits(f, q)
    BY <1>3, <2>3
  <2>4. QED
    BY <2>2, <2>3
<1>7. \A q \in Requests : /\ Acknowledged(q)' <=> Acknowledged(q)
                          /\ requests'[q].heard = "waiting" =>
                               /\ requests[q].heard = "waiting"
                               /\ requests[q].form # f
  BY <1>6 DEF Acknowledged, Awaits
<1>8. TypeOK'
  <2>1. draft' \in [Forms -> Drafts \union {NoDraft}]
    BY <1>1 DEF IInv, TypeOK
  <2>2. captcha' \in [Forms -> 0..MaxTokens]
    BY <1>1, UploadAssumption DEF IInv, TypeOK
  <2>3. {isPosting', showForm', solved', leaving'} \subseteq [Forms -> BOOLEAN]
    BY <1>1 DEF IInv, TypeOK
  <2>4. QED
    BY <1>2, <1>5, <2>1, <2>2, <2>3 DEF IInv, TypeOK
<1>9. Taken' /\ Bounded' /\ NumbersAreUnique'
  BY <1>2, <1>5, <1>6 DEF IInv, Taken, Bounded, NumbersAreUnique
<1>10. Numbered'
  <2>1. \A p \in posts : p.request \in Requests
    BY DEF IInv, TypeOK
  <2>2. QED
    BY <1>2, <1>5, <1>6, <2>1 DEF IInv, Numbered
<1>11. Stored'
  <2>1. \A q \in Requests : requests'[q].heard = "answer" =>
          requests[q].heard = "answer"
    BY <1>6
  <2>2. QED
    BY <1>2, <1>5, <1>6, <2>1 DEF IInv, Stored
<1>12. Sequential'
  <2>1. \A g \in Forms : g # f => isPosting'[g] = isPosting[g]
    BY <1>1 DEF IInv, TypeOK
  <2>2. \A q \in Requests : requests[q].form \in Forms
    BY <1>4 DEF RequestType
  <2>3. QED
    BY <1>5, <1>6, <1>7, <2>1, <2>2 DEF IInv, Sequential
<1>13. Cooled'
  BY <1>2, <1>5, <1>6, <1>7 DEF IInv, Cooled
<1>14. \A g \in Forms : /\ g # f => draft'[g] = draft[g] /\ leaving'[g] = leaving[g]
                        /\ draft'[f] = NoDraft /\ ~leaving'[f]
  BY <1>1 DEF IInv, TypeOK
<1>15. \A q \in Requests : requests[q].draft # NoDraft
  BY <1>4, UploadAssumption DEF RequestType
<1>16. Owned'
  BY <1>2, <1>5, <1>6, <1>14, <1>15 DEF IInv, Owned
<1>17. Left'
  BY <1>2, <1>5, <1>6, <1>7, <1>14 DEF IInv, Left
<1>18. Once'
  <2>1. \A q \in Requests : requests[q].form \in Forms
    BY <1>4 DEF RequestType
  <2>2. QED
    BY <1>5, <1>6, <1>7, <1>14, <1>15, <2>1 DEF IInv, Once
<1>19. QED
  BY <1>8, <1>9, <1>10, <1>11, <1>12, <1>13, <1>16, <1>17, <1>18 DEF IInv

-----------------------------------------------------------------------------
(* Every step keeps the invariant: the server. *)

\* The forms do not notice what the server does before it answers.
LEMMA ServerHides ==
  ASSUME IInv, NEW r \in Requests, requests[r].stage # "done",
         NEW v \in RequestType, Becomes(r, v), v.form = requests[r].form,
         v.draft = requests[r].draft, v.heard = requests[r].heard,
         UNCHANGED <<draft, isPosting, leaving, entered>>
  PROVE  /\ Sequential' /\ Owned' /\ Once'
         /\ \A q \in Requests : Acknowledged(q)' <=> Acknowledged(q)
         /\ ~requests[r].ok /\ requests[r].heard # "answer"
<1>1. /\ Requests' = Requests /\ requests'[r] = v
      /\ \A q \in Requests : q # r => requests'[q] = requests[q]
  BY DEF Becomes
<1>2. ~requests[r].ok /\ requests[r].heard # "answer"
  BY DEF IInv, Stored
<1>3. \A q \in Requests : Acknowledged(q)' <=> Acknowledged(q)
  BY <1>1, <1>2 DEF Acknowledged
<1>4. \A q \in Requests : /\ requests'[q].form = requests[q].form
                          /\ requests'[q].draft = requests[q].draft
                          /\ requests'[q].heard = requests[q].heard
  BY <1>1
<1>5. Sequential'
  BY <1>1, <1>4 DEF IInv, Sequential
<1>6. Owned'
  BY <1>1, <1>4 DEF IInv, Owned
<1>7. Once'
  BY <1>1, <1>3, <1>4 DEF IInv, Once
<1>8. QED
  BY <1>2, <1>3, <1>5, <1>6, <1>7

\* A request goes on towards its post, or ends without one.  It gets past the
\* cooldown only while there is none.
LEMMA QuietKeeps ==
  ASSUME IInv, NEW r \in Requests, NEW stage \in {"verified", "checked", "done"},
         Moves(r, stage), requests[r].stage # "done",
         requests[r].stage = "saved" => stage = "done",
         stage = "checked" => ~cooling,
         UNCHANGED <<formVars, posts, mapped, cooling, era, entered, tokens>>,
         semaphore' = semaphore \/ (semaphore = r /\ semaphore' = 0),
         spent' \subseteq 1..MaxTokens, faults' \in 0..MaxFaults
  PROVE  IInv'
<1> DEFINE v == [requests[r] EXCEPT !.stage = stage]
<1>1. Becomes(r, v)
  BY MovesEdit DEF IInv, TypeOK, Stages
<1>2. requests[r] \in RequestType /\ r # 0
  BY RequestTyped DEF IInv, TypeOK
<1>3. /\ v \in RequestType /\ v.stage = stage /\ v.form = requests[r].form
      /\ v.draft = requests[r].draft /\ v.heard = requests[r].heard
      /\ v.ok = requests[r].ok /\ v.era = requests[r].era
  BY <1>2 DEF RequestType, Stages
<1> HIDE DEF v
<1>4. /\ Requests' = Requests /\ requests'[r] = v
      /\ \A q \in Requests : q # r => requests'[q] = requests[q]
  BY <1>1 DEF Becomes
<1>5. UNCHANGED <<draft, captcha, isPosting, showForm, solved, leaving,
                  posts, mapped, cooling, era, entered, tokens>>
  BY DEF formVars
<1>6. /\ Sequential' /\ Owned' /\ Once'
      /\ \A q \in Requests : Acknowledged(q)' <=> Acknowledged(q)
      /\ ~requests[r].ok /\ requests[r].heard # "answer"
  BY <1>1, <1>3, <1>5, ServerHides
<1>7. TypeOK'
  <2>1. semaphore' \in {0} \union Requests
    BY DEF IInv, TypeOK
  <2>2. QED
    BY <1>1, <1>3, <1>5, <2>1, EditTyped DEF IInv, TypeOK
<1>8. Taken'
  BY <1>3, <1>4 DEF IInv, Taken
<1>9. Bounded' /\ NumbersAreUnique'
  BY <1>5 DEF IInv, Bounded, NumbersAreUnique
<1>10. Numbered'
  <2>1. \A p \in posts : p.request \in Requests
    BY DEF IInv, TypeOK
  <2>2. \A q \in Requests' : requests'[q].stage = "writing" =>
          \A p \in posts' : p.id < requests'[q].id
    BY <1>3, <1>4, <1>5 DEF IInv, Numbered
  <2>3. \A p \in posts : /\ requests'[p.request].stage \in {"saved", "done"}
                         /\ requests'[p.request].draft = p.draft
    BY <1>3, <1>4, <2>1 DEF IInv, Numbered
  <2>4. QED
    BY <1>5, <2>2, <2>3 DEF IInv, Numbered
<1>11. Stored'
  <2>1. \A q \in Requests :
          /\ requests'[q].stage = "saved" \/ requests'[q].ok => q # r
          /\ requests'[q].heard = "answer" => q # r
    BY <1>3, <1>4, <1>6
  <2>2. QED
    BY <1>4, <1>5, <2>1 DEF IInv, Stored
<1>12. Cooled'
  <2>1. \A q \in Requests : requests'[q].ok => q # r
    BY <1>3, <1>4, <1>6
  <2>2. \A p \in Requests : requests[p].ok /\ ~cooling => requests[p].era < era
    BY RequestTyped DEF IInv, Cooled, TypeOK, RequestType
  <2>3. ASSUME NEW p \in Requests, NEW q \in Requests,
               p < q, requests'[p].form = requests'[q].form, Acknowledged(p)'
        PROVE  /\ requests'[q].stage \in {"checked", "writing", "saved"} =>
                    requests'[p].era < era
               /\ requests'[q].ok => requests'[p].era < requests'[q].era
    <3>1. Acknowledged(p) /\ p # r /\ requests'[p] = requests[p]
      BY <1>4, <1>6, <2>3 DEF Acknowledged
    <3>2. CASE q = r
      BY <1>3, <1>4, <1>6, <2>2, <3>1, <3>2 DEF Acknowledged
    <3>3. CASE q # r
      BY <1>4, <2>3, <3>1, <3>3 DEF IInv, Cooled
    <3>4. QED
      BY <3>2, <3>3
  <2>4. \A q \in Requests' : requests'[q].ok =>
          /\ requests'[q].era <= era
          /\ requests'[q].era = era \/ requests'[q].heard = "waiting" => cooling
    BY <1>4, <2>1 DEF IInv, Cooled
  <2>5. QED
    BY <1>4, <1>5, <2>3, <2>4 DEF Cooled
<1>13. Left'
  BY <1>3, <1>4, <1>5, <1>6 DEF IInv, Left
<1>14. QED
  BY <1>6, <1>7, <1>8, <1>9, <1>10, <1>11, <1>12, <1>13 DEF IInv

\* The checks of a request, its refusal and its failure.
LEMMA RefusalKeeps ==
  ASSUME IInv, NEW r \in Requests,
         Refuse(r) \/ VerifyCaptcha(r) \/ CheckCooldown(r) \/ ServerFault(r)
  PROVE  IInv'
<1>1. /\ spent \subseteq 1..MaxTokens /\ faults \in 0..MaxFaults
      /\ requests[r].captcha \in 1..MaxTokens
  BY RequestTyped DEF IInv, TypeOK, RequestType
<1>2. CASE Refuse(r)
  <2>1. /\ Moves(r, "done") /\ requests[r].stage # "done"
        /\ UNCHANGED <<formVars, posts, mapped, cooling, era, entered, tokens>>
        /\ UNCHANGED <<semaphore, spent, faults>>
    BY <1>2 DEF Refuse, Refuses, At, serverVars, countVars
  <2>2. QED
    BY <1>1, <2>1, QuietKeeps
<1>3. CASE VerifyCaptcha(r)
  <2>1. /\ requests[r].stage = "sent"
        /\ UNCHANGED <<formVars, posts, mapped, cooling, era, entered, tokens>>
        /\ UNCHANGED <<semaphore, faults>>
    BY <1>3 DEF VerifyCaptcha, At, countVars
  <2>2. /\ Moves(r, "done") \/ Moves(r, "verified")
        /\ spent' \subseteq 1..MaxTokens
    BY <1>1, <1>3 DEF VerifyCaptcha, Refuses
  <2>3. QED
    BY <1>1, <2>1, <2>2, QuietKeeps
<1>4. CASE CheckCooldown(r)
  <2>1. /\ requests[r].stage = "verified"
        /\ UNCHANGED <<formVars, posts, mapped, cooling, era, entered, tokens>>
        /\ UNCHANGED <<semaphore, spent, faults>>
    BY <1>4 DEF CheckCooldown, At, serverVars, countVars
  <2>2. Moves(r, "done") \/ (Moves(r, "checked") /\ ~cooling)
    BY <1>4 DEF CheckCooldown, Refuses
  <2>3. QED
    BY <1>1, <2>1, <2>2, QuietKeeps
<1>5. CASE ServerFault(r)
  <2>1. /\ Moves(r, "done") /\ requests[r].stage # "done"
        /\ UNCHANGED <<formVars, posts, mapped, cooling, era, entered, tokens>>
        /\ UNCHANGED spent
    BY <1>5 DEF ServerFault, At
  <2>2. semaphore' = semaphore \/ (semaphore = r /\ semaphore' = 0)
    BY <1>5 DEF ServerFault
  <2>3. faults' \in 0..MaxFaults
    BY <1>1, <1>5, UploadAssumption DEF ServerFault
  <2>4. QED
    BY <1>1, <2>1, <2>2, <2>3, QuietKeeps
<1>6. QED
  BY <1>2, <1>3, <1>4, <1>5

\* A request that enters the semaphore gets the next number.
LEMMA EnterSemaphoreKeeps ==
  ASSUME IInv, NEW r \in Requests, EnterSemaphore(r)
  PROVE  IInv'
<1> DEFINE v == [requests[r] EXCEPT !.stage = "writing", !.id = NextPostId]
<1>1. /\ requests[r].stage = "checked" /\ semaphore = 0 /\ semaphore' = r
      /\ UNCHANGED <<formVars, spent, posts, mapped, cooling, era, countVars>>
  BY DEF EnterSemaphore, At
<1>2. NextPostId \in Nat /\ \A p \in posts : p.id < NextPostId
  BY NextIsAbove DEF IInv
<1>3. requests[r] \in RequestType /\ \A q \in Requests : q # 0
  BY RequestTyped DEF IInv, TypeOK
<1>4. /\ v \in RequestType /\ v.stage = "writing" /\ v.form = requests[r].form
      /\ v.draft = requests[r].draft /\ v.heard = requests[r].heard
      /\ v.ok = requests[r].ok /\ v.era = requests[r].era /\ v.id = NextPostId
  BY <1>2, <1>3 DEF RequestType, Stages
<1>5. requests' = [requests EXCEPT ![r] = v]
  BY <1>3 DEF EnterSemaphore, RequestType, Requests
<1> HIDE DEF v
<1>6. Becomes(r, v)
  BY <1>4, <1>5, Edited DEF IInv, TypeOK
<1>7. /\ Requests' = Requests /\ requests'[r] = v
      /\ \A q \in Requests : q # r => requests'[q] = requests[q]
  BY <1>6 DEF Becomes
<1>8. UNCHANGED <<draft, captcha, isPosting, showForm, solved, leaving, spent,
                  posts, mapped, cooling, era, entered, tokens, faults>>
  BY <1>1 DEF formVars, countVars
<1>9. /\ Sequential' /\ Owned' /\ Once'
      /\ \A q \in Requests : Acknowledged(q)' <=> Acknowledged(q)
      /\ ~requests[r].ok /\ requests[r].heard # "answer"
  BY <1>1, <1>4, <1>6, <1>8, ServerHides
<1>10. TypeOK'
  BY <1>1, <1>4, <1>6, <1>8, EditTyped DEF IInv, TypeOK
<1>11. \A q \in Requests : q # r => requests[q].stage \notin {"writing", "saved"}
  BY <1>1, <1>3 DEF IInv, Taken
<1>12. Taken'
  BY <1>1, <1>7, <1>11 DEF Taken
<1>13. Bounded' /\ NumbersAreUnique'
  BY <1>8 DEF IInv, Bounded, NumbersAreUnique
<1>14. Numbered'
  <2>1. \A p \in posts : p.request \in Requests
    BY DEF IInv, TypeOK
  <2>2. \A q \in Requests' : requests'[q].stage = "writing" =>
          \A p \in posts' : p.id < requests'[q].id
    BY <1>2, <1>4, <1>7, <1>8, <1>11
  <2>3. \A p \in posts : /\ requests'[p.request].stage \in {"saved", "done"}
                         /\ requests'[p.request].draft = p.draft
    BY <1>1, <1>7, <2>1 DEF IInv, Numbered
  <2>4. QED
    BY <1>8, <2>2, <2>3 DEF IInv, Numbered
<1>15. Stored'
  <2>1. \A q \in Requests :
          /\ requests'[q].stage = "saved" \/ requests'[q].ok => q # r
          /\ requests'[q].heard = "answer" => q # r
    BY <1>4, <1>7, <1>9
  <2>2. QED
    BY <1>7, <1>8, <2>1 DEF IInv, Stored
<1>16. \A q \in Requests :
         /\ requests'[q].form = requests[q].form
         /\ requests'[q].heard = requests[q].heard
         /\ requests'[q].ok = requests[q].ok
         /\ requests'[q].era = requests[q].era
         /\ requests'[q].stage \in {"checked", "writing", "saved"} <=>
              requests[q].stage \in {"checked", "writing", "saved"}
  BY <1>1, <1>4, <1>7
<1>17. Cooled'
  BY <1>7, <1>8, <1>9, <1>16 DEF IInv, Cooled
<1>18. Left'
  BY <1>7, <1>8, <1>9, <1>16 DEF IInv, Left
<1>19. QED
  BY <1>9, <1>10, <1>12, <1>13, <1>14, <1>15, <1>17, <1>18 DEF IInv

\* A request saves its post under its number.
LEMMA SavePostKeeps ==
  ASSUME IInv, NEW r \in Requests, SavePost(r)
  PROVE  IInv'
<1> DEFINE v == [requests[r] EXCEPT !.stage = "saved"]
           new == [id |-> requests[r].id, draft |-> requests[r].draft, request |-> r]
<1>1. /\ requests[r].stage = "writing" /\ posts' = posts \union {new}
      /\ Moves(r, "saved")
      /\ UNCHANGED <<formVars, spent, semaphore, mapped, cooling, era, countVars>>
  BY DEF SavePost, At
<1>2. requests[r] \in RequestType
  BY RequestTyped DEF IInv, TypeOK
<1>3. /\ v \in RequestType /\ v.stage = "saved" /\ v.form = requests[r].form
      /\ v.draft = requests[r].draft /\ v.heard = requests[r].heard
      /\ v.ok = requests[r].ok /\ v.era = requests[r].era /\ v.id = requests[r].id
  BY <1>2 DEF RequestType, Stages
<1>4. Becomes(r, v)
  BY <1>1, MovesEdit DEF IInv, TypeOK, Stages
<1>5. /\ new.id = requests[r].id /\ new.draft = requests[r].draft
      /\ new.request = r /\ new.id \in Nat
      /\ new \in [id : Nat, draft : Drafts, request : Requests]
  BY <1>2 DEF RequestType
<1>6. new = [id |-> requests[r].id, draft |-> requests[r].draft, request |-> r]
  OBVIOUS
<1> HIDE DEF v, new
<1>7. /\ Requests' = Requests /\ requests'[r] = v
      /\ \A q \in Requests : q # r => requests'[q] = requests[q]
  BY <1>4 DEF Becomes
<1>8. UNCHANGED <<draft, captcha, isPosting, showForm, solved, leaving, spent,
                  semaphore, mapped, cooling, era, entered, tokens, faults>>
  BY <1>1 DEF formVars, countVars
<1>9. /\ Sequential' /\ Owned' /\ Once'
      /\ \A q \in Requests : Acknowledged(q)' <=> Acknowledged(q)
      /\ ~requests[r].ok /\ requests[r].heard # "answer"
  BY <1>1, <1>3, <1>4, <1>8, ServerHides
<1>10. TypeOK'
  <2>1. posts' \subseteq [id : Nat, draft : Drafts, request : Requests]
    BY <1>1, <1>5 DEF IInv, TypeOK
  <2>2. mapped' \subseteq {p.id : p \in posts'}
    BY <1>1, <1>8 DEF IInv, TypeOK
  <2>3. requests' \in Seq(RequestType)
    BY <1>4 DEF Becomes
  <2>4. QED
    BY <1>7, <1>8, <2>1, <2>2, <2>3 DEF IInv, TypeOK
<1>11. \A q \in Requests : q # r => requests[q].stage \notin {"writing", "saved"}
  BY <1>1 DEF IInv, Taken
<1>12. Taken'
  BY <1>1, <1>7, <1>8 DEF IInv, Taken
<1>13. \A p \in posts : p.id \in Nat /\ p.id < new.id /\ p.request # r
                        /\ p.request \in Requests
  BY <1>1, <1>5 DEF IInv, Numbered, TypeOK
<1>14. Bounded'
  BY <1>1, <1>5, <1>13 DEF Bounded
<1>15. NumbersAreUnique'
  BY <1>1, <1>5, <1>13 DEF IInv, NumbersAreUnique
<1>16. Numbered'
  <2>1. \A q \in Requests' : requests'[q].stage # "writing"
    BY <1>3, <1>7, <1>11
  <2>2. \A p \in posts' : /\ requests'[p.request].stage \in {"saved", "done"}
                          /\ requests'[p.request].draft = p.draft
    BY <1>1, <1>3, <1>5, <1>7, <1>13 DEF IInv, Numbered
  <2>3. \A p, q \in posts' : p.request = q.request => p = q
    BY <1>1, <1>5, <1>13 DEF IInv, Numbered
  <2>4. QED
    BY <2>1, <2>2, <2>3 DEF Numbered
<1>17. Stored'
  <2>1. \A q \in Requests : requests'[q].ok \/ requests'[q].heard = "answer" => q # r
    BY <1>3, <1>7, <1>9
  <2>2. \A q \in Requests' : requests'[q].stage = "saved" =>
          [id |-> requests'[q].id, draft |-> requests'[q].draft, request |-> q]
            \in posts'
    BY <1>1, <1>3, <1>6, <1>7, <1>11
  <2>3. posts \subseteq posts'
    BY <1>1
  <2>4. QED
    BY <1>7, <1>8, <2>1, <2>2, <2>3 DEF IInv, Stored
<1>18. \A q \in Requests :
         /\ requests'[q].form = requests[q].form
         /\ requests'[q].heard = requests[q].heard
         /\ requests'[q].ok = requests[q].ok
         /\ requests'[q].era = requests[q].era
         /\ requests'[q].stage \in {"checked", "writing", "saved"} <=>
              requests[q].stage \in {"checked", "writing", "saved"}
  BY <1>1, <1>3, <1>7
<1>19. Cooled'
  BY <1>7, <1>8, <1>9, <1>18 DEF IInv, Cooled
<1>20. Left'
  BY <1>7, <1>8, <1>9, <1>18 DEF IInv, Left
<1>21. QED
  BY <1>9, <1>10, <1>12, <1>14, <1>15, <1>16, <1>17, <1>19, <1>20 DEF IInv

\* An accepted request starts the cooldown.
LEMMA AcceptKeeps ==
  ASSUME IInv, NEW r \in Requests, Accept(r)
  PROVE  IInv'
<1> DEFINE v == [requests[r] EXCEPT !.stage = "done", !.ok = TRUE, !.era = era]
<1>1. /\ requests[r].stage = "saved" /\ semaphore' = 0 /\ cooling' = TRUE
      /\ mapped' = IF requests[r].draft \in FileDrafts
                     THEN mapped \union {requests[r].id} ELSE mapped
      /\ UNCHANGED <<formVars, spent, posts, era, countVars>>
  BY DEF Accept, At
<1>2. requests[r] \in RequestType /\ era \in Nat
  BY RequestTyped DEF IInv, TypeOK
<1>3. /\ v \in RequestType /\ v.stage = "done" /\ v.form = requests[r].form
      /\ v.draft = requests[r].draft /\ v.heard = requests[r].heard
      /\ v.ok /\ v.era = era /\ v.id = requests[r].id
  BY <1>2 DEF RequestType, Stages
<1>4. requests' = [requests EXCEPT ![r] = v]
  BY <1>2 DEF Accept, RequestType, Requests
<1> HIDE DEF v
<1>5. Becomes(r, v)
  BY <1>3, <1>4, Edited DEF IInv, TypeOK
<1>6. /\ Requests' = Requests /\ requests'[r] = v
      /\ \A q \in Requests : q # r => requests'[q] = requests[q]
  BY <1>5 DEF Becomes
<1>7. UNCHANGED <<draft, captcha, isPosting, showForm, solved, leaving, spent,
                  posts, era, entered, tokens, faults>>
  BY <1>1 DEF formVars, countVars
<1>8. /\ Sequential' /\ Owned' /\ Once'
      /\ \A q \in Requests : Acknowledged(q)' <=> Acknowledged(q)
      /\ ~requests[r].ok /\ requests[r].heard # "answer"
  BY <1>1, <1>3, <1>5, <1>7, ServerHides
<1>9. PICK post \in posts : /\ post.request = r /\ post.id = requests[r].id
                            /\ post.draft = requests[r].draft
  BY <1>1 DEF IInv, Stored
<1>10. /\ mapped \subseteq mapped' /\ mapped' \subseteq {p.id : p \in posts}
       /\ post.draft \in FileDrafts => post.id \in mapped'
  BY <1>1, <1>9 DEF IInv, TypeOK
<1>11. TypeOK'
  <2>1. /\ {isPosting', solved', leaving'} \subseteq [Forms -> BOOLEAN]
        /\ draft' \in [Forms -> Drafts \union {NoDraft}]
    BY <1>7 DEF IInv, TypeOK
  <2>2. /\ spent' \subseteq 1..MaxTokens /\ faults' \in 0..MaxFaults
        /\ semaphore' \in {0} \union Requests /\ cooling' \in BOOLEAN
    BY <1>1, <1>7 DEF IInv, TypeOK
  <2>3. QED
    BY <1>3, <1>5, <1>7, <1>10, <2>1, <2>2, EditTyped DEF IInv
<1>12. \A q \in Requests : q # r => requests[q].stage \notin {"writing", "saved"}
  BY <1>1 DEF IInv, Taken
<1>13. \A q \in Requests : requests'[q].stage \notin {"writing", "saved"}
  BY <1>3, <1>6, <1>12
<1>14. Taken'
  BY <1>6, <1>13 DEF Taken
<1>15. Bounded' /\ NumbersAreUnique'
  BY <1>7 DEF IInv, Bounded, NumbersAreUnique
<1>16. Numbered'
  <2>1. \A p \in posts : p.request \in Requests
    BY DEF IInv, TypeOK
  <2>2. \A p \in posts : /\ requests'[p.request].stage \in {"saved", "done"}
                         /\ requests'[p.request].draft = p.draft
    BY <1>3, <1>6, <2>1 DEF IInv, Numbered
  <2>3. QED
    BY <1>6, <1>7, <1>13, <2>2 DEF IInv, Numbered
<1>17. Stored'
  <2>1. ASSUME NEW q \in Requests, requests'[q].ok
        PROVE  /\ requests'[q].stage = "done"
               /\ \E p \in posts : /\ p.request = q
                                   /\ p.draft \in FileDrafts => p.id \in mapped'
    <3>1. CASE q = r
      BY <1>3, <1>6, <1>9, <1>10, <3>1
    <3>2. CASE q # r
      BY <1>6, <1>10, <2>1, <3>2 DEF IInv, Stored
    <3>3. QED
      BY <3>1, <3>2
  <2>2. \A q \in Requests : requests'[q].heard = "answer" =>
          requests'[q].stage = "done"
    BY <1>3, <1>6 DEF IInv, Stored
  <2>3. QED
    BY <1>6, <1>7, <1>13, <2>1, <2>2 DEF Stored
<1>18. Cooled'
  <2>1. \A q \in Requests : requests'[q].ok => requests'[q].era <= era
    BY <1>2, <1>3, <1>6 DEF IInv, Cooled
  <2>2. ASSUME NEW p \in Requests, NEW q \in Requests,
               p < q, requests'[p].form = requests'[q].form, Acknowledged(p)'
        PROVE  /\ requests'[q].stage \in {"checked", "writing", "saved"} =>
                    requests'[p].era < era
               /\ requests'[q].ok => requests'[p].era < requests'[q].era
    <3>1. Acknowledged(p) /\ p # r /\ requests'[p] = requests[p]
      BY <1>6, <1>8, <2>2 DEF Acknowledged
    <3>2. requests[p].form = requests[q].form
      BY <1>3, <1>6, <2>2, <3>1
    <3>3. CASE q = r
      BY <1>1, <1>3, <1>6, <2>2, <3>1, <3>2, <3>3 DEF IInv, Cooled
    <3>4. CASE q # r
      BY <1>6, <2>2, <3>1, <3>2, <3>4 DEF IInv, Cooled
    <3>5. QED
      BY <3>3, <3>4
  <2>3. QED
    BY <1>1, <1>6, <1>7, <2>1, <2>2 DEF Cooled
<1>19. Left'
  <2>1. ASSUME NEW g \in Forms, leaving[g]
        PROVE  /\ \E q \in Requests : requests'[q].form = g /\ Acknowledged(q)'
               /\ \A q \in Requests :
                    requests'[q].form = g /\ requests'[q].heard = "waiting" =>
                      /\ requests'[q].stage \notin {"checked", "writing", "saved"}
                      /\ ~requests'[q].ok
    <3>1. \E q \in Requests : requests'[q].form = g /\ Acknowledged(q)'
      BY <1>3, <1>6, <1>8, <2>1 DEF IInv, Left
    <3>2. ~(requests[r].form = g /\ requests[r].heard = "waiting")
      BY <1>1, <2>1 DEF IInv, Left
    <3>3. QED
      BY <1>3, <1>6, <2>1, <3>1, <3>2 DEF IInv, Left
  <2>2. QED
    BY <1>1, <1>6, <1>7, <2>1 DEF Left
<1>20. QED
  BY <1>8, <1>11, <1>14, <1>15, <1>16, <1>17, <1>18, <1>19 DEF IInv

\* The cooldown ends when every answer was delivered and no page is being left.
LEMMA CooldownElapsesKeeps ==
  ASSUME IInv, CooldownElapses
  PROVE  IInv'
<1>1. /\ cooling' = FALSE /\ era' = era + 1
      /\ \A q \in Requests : requests[q].stage = "done" => requests[q].heard # "waiting"
      /\ \A f \in Forms : ~leaving[f]
      /\ UNCHANGED <<draft, captcha, isPosting, showForm, solved, leaving, requests,
                     spent, semaphore, posts, mapped, entered, tokens, faults>>
  BY DEF CooldownElapses, Settled, formVars, countVars
<1>2. era \in Nat /\ \A q \in Requests : requests[q].era \in Nat
  BY RequestTyped DEF IInv, TypeOK, RequestType
<1>3. TypeOK'
  <2>1. cooling' \in BOOLEAN
    BY <1>1
  <2>2. era' \in Nat
    BY <1>1, <1>2
  <2>3. QED
    BY <1>1, <2>1, <2>2 DEF IInv, TypeOK, Requests
<1>4. Requests' = Requests
  BY <1>1 DEF Requests
<1>5. Cooled'
  <2>1. \A q \in Requests : requests[q].ok =>
          requests[q].heard # "waiting" /\ requests[q].era <= era
    BY <1>1 DEF IInv, Stored, Cooled
  <2>2. \A q \in Requests : requests[q].ok =>
          /\ requests[q].era <= era + 1
          /\ requests[q].era # era + 1 /\ requests[q].heard # "waiting"
    BY <1>2, <2>1
  <2>3. \A p, q \in Requests :
          p < q /\ requests[p].form = requests[q].form /\ Acknowledged(p) =>
            /\ requests[q].stage \in {"checked", "writing", "saved"} =>
                 requests[p].era < era + 1
            /\ requests[q].ok => requests[p].era < requests[q].era
    BY <1>2 DEF IInv, Cooled
  <2>4. QED
    BY <1>1, <1>4, <2>2, <2>3 DEF Cooled, Acknowledged
<1>6. Left'
  BY <1>1 DEF Left
<1>7. QED
  BY <1>1, <1>3, <1>4, <1>5, <1>6
     DEF IInv, Taken, Bounded, Numbered, NumbersAreUnique, Stored, Sequential,
         Acknowledged, Owned, Once

-----------------------------------------------------------------------------
(* The theorems. *)

\* No step of a form, of the server or of the clock breaks the invariant.
LEMMA NextKeeps == IInv /\ [Next]_vars => IInv'
<1> SUFFICES ASSUME IInv, [Next]_vars PROVE IInv'
  OBVIOUS
<1>1. CASE \E f \in Forms : User(f) \/ Unload(f)
  <2>1. PICK f \in Forms : User(f) \/ Unload(f)
    BY <1>1
  <2>2. QED
    BY <2>1, WidgetKeeps, EnterKeeps, ClickKeeps, UnloadKeeps DEF User
<1>2. CASE \E f \in Forms, r \in Requests : Hears(f, r) \/ ConnectionLost(f, r)
  BY <1>2, PostAcceptedKeeps, ThreadAcceptedKeeps, UploadRefusedKeeps,
     ConnectionLostKeeps DEF Hears
<1>3. CASE \E r \in Requests : Handles(r) \/ EnterSemaphore(r) \/ Refuse(r)
                                 \/ ServerFault(r)
  BY <1>3, RefusalKeeps, EnterSemaphoreKeeps, SavePostKeeps, AcceptKeeps
     DEF Handles
<1>4. CASE CooldownElapses
  BY <1>4, CooldownElapsesKeeps
<1>5. CASE UNCHANGED vars
  BY <1>5 DEF vars, formVars, serverVars, countVars, IInv, TypeOK, Taken, Bounded,
     Numbered, NumbersAreUnique, Stored, Sequential, Acknowledged, Cooled, Owned,
     Left, Once, Requests
<1>6. QED
  BY <1>1, <1>2, <1>3, <1>4, <1>5 DEF Next

\* The inductive invariant holds in every state the forms and the server reach.
THEOREM Invariance == Spec => []IInv
BY InitInv, NextKeeps, PTL DEF Spec

\* Every variable of the forms, the requests and the server keeps its type.
THEOREM TypeCorrect == Spec => []TypeOK
<1>1. IInv => TypeOK
  BY DEF IInv
<1>2. QED
  BY <1>1, Invariance, PTL

\* However many forms post together, MakePost and MakeThread give no two posts
\* one number.
THEOREM UniqueNumbers == Spec => []NumbersAreUnique
<1>1. IInv => NumbersAreUnique
  BY DEF IInv
<1>2. QED
  BY <1>1, Invariance, PTL

\* Two posts of one draft that were both reported are one.
LEMMA OnceReported == IInv => AcceptedOnce
<1>1. SUFFICES ASSUME IInv, NEW p \in posts, NEW q \in posts,
                      p.draft = q.draft, Reported(p), Reported(q)
               PROVE  p = q
  BY DEF AcceptedOnce
<1>2. /\ p.request \in Requests /\ q.request \in Requests
      /\ p.request \in Nat /\ q.request \in Nat
  <2>1. p.request \in Requests /\ q.request \in Requests
    BY <1>1 DEF IInv, TypeOK
  <2>2. QED
    BY <1>1, <2>1, RequestTyped DEF IInv, TypeOK
<1>3. requests[p.request].draft = requests[q.request].draft
  BY <1>1 DEF IInv, Numbered
<1>4. ~(p.request < q.request) /\ ~(q.request < p.request)
  BY <1>1, <1>2, <1>3 DEF IInv, Once, Acknowledged, Reported
<1>5. p.request = q.request
  BY <1>2, <1>4
<1>6. QED
  BY <1>1, <1>5 DEF IInv, Numbered

\* ... after a step as before it.
LEMMA OnceNext == IInv' => AcceptedOnce'
BY OnceReported, PTL

\* A draft that was entered once is not accepted and reported twice, whatever
\* the form, the connection and the server do.
THEOREM AcceptsOnce == Spec => []AcceptedOnce
BY OnceReported, Invariance, PTL

\* A form gets one post per cooldown, however late the server reads and writes
\* LastPostTimes: its next request is sent after it has heard of the last one.
THEOREM PostsOncePerCooldown == Spec => []OnePostPerCooldown
<1>1. IInv => OnePostPerCooldown
  <2>1. SUFFICES ASSUME IInv, NEW p \in posts, NEW q \in posts,
                        requests[p.request].form = requests[q.request].form,
                        requests[p.request].era = requests[q.request].era,
                        Reported(p), Reported(q)
                 PROVE  p = q
    BY DEF OnePostPerCooldown
  <2>2. /\ p.request \in Requests /\ q.request \in Requests
        /\ p.request \in Nat /\ q.request \in Nat
        /\ requests[p.request].era \in Nat
    <3>1. p.request \in Requests /\ q.request \in Requests
      BY <2>1 DEF IInv, TypeOK
    <3>2. QED
      BY <2>1, <3>1, RequestTyped DEF IInv, TypeOK, RequestType
  <2>3. ~(p.request < q.request) /\ ~(q.request < p.request)
    BY <2>1, <2>2 DEF IInv, Cooled, Acknowledged, Reported
  <2>4. p.request = q.request
    BY <2>2, <2>3
  <2>5. QED
    BY <2>1, <2>4 DEF IInv, Numbered
<1>2. QED
  BY <1>1, Invariance, PTL

\* What EmptiesAfterStoring says of a form and a step.
EmptiesStored(f) ==
  draft[f] # NoDraft /\ draft'[f] = NoDraft =>
    \E p \in posts :
      /\ requests[p.request].form = f
      /\ requests[p.request].ok /\ requests'[p.request].heard = "answer"
      /\ p.draft \in FileDrafts => p.id \in mapped

\* An accepted request has a post that says so.
LEMMA AcceptedIsStored ==
  ASSUME IInv, NEW f \in Forms, NEW r \in Requests, requests[r].form = f,
         requests[r].ok, requests'[r].heard = "answer"
  PROVE  EmptiesStored(f)
<1>1. PICK p \in posts : p.request = r /\ (p.draft \in FileDrafts => p.id \in mapped)
  BY DEF IInv, Stored
<1>2. QED
  BY <1>1 DEF EmptiesStored

\* A form empties itself, by an acceptance or by leaving its page, only when
\* what it had sent is stored with its file and the form was told so.
THEOREM EmptiesLate == Spec => EmptiesAfterStoring
<1>1. IInv /\ [Next]_vars => [\A f \in Forms : EmptiesStored(f)]_vars
  <2> SUFFICES ASSUME IInv, Next, NEW f \in Forms
               PROVE  EmptiesStored(f)
    BY DEF vars
  <2>1. draft \in [Forms -> Drafts \union {NoDraft}]
    BY DEF IInv, TypeOK
  <2>2. CASE UNCHANGED draft
    BY <2>2 DEF EmptiesStored
  <2>3. ASSUME NEW g \in Forms, NEW d \in Drafts, Enter(g, d)
        PROVE  EmptiesStored(f)
    <3>1. d # NoDraft /\ draft' = [draft EXCEPT ![g] = d]
      BY <2>3, UploadAssumption DEF Enter
    <3>2. QED
      BY <2>1, <3>1 DEF EmptiesStored
  <2>4. ASSUME NEW g \in Forms, NEW r \in Requests, PostAccepted(g, r)
        PROVE  EmptiesStored(f)
    <3>1. /\ draft' = [draft EXCEPT ![g] = NoDraft] /\ Heard(r, "answer")
          /\ requests[r].form = g /\ requests[r].ok
      BY <2>4 DEF PostAccepted, Answered, Awaits
    <3>2. requests'[r] = [requests[r] EXCEPT !.heard = "answer"]
      BY <3>1, HeardEdit DEF IInv, TypeOK, Becomes
    <3>3. requests'[r].heard = "answer"
      BY <3>2, RequestTyped DEF IInv, TypeOK, RequestType
    <3>4. CASE f = g
      BY <3>1, <3>3, <3>4, AcceptedIsStored
    <3>5. CASE f # g
      BY <2>1, <3>1, <3>5 DEF EmptiesStored
    <3>6. QED
      BY <3>4, <3>5
  <2>5. ASSUME NEW g \in Forms, Unload(g)
        PROVE  EmptiesStored(f)
    <3>1. /\ leaving[g] /\ draft' = [draft EXCEPT ![g] = NoDraft]
          /\ requests' = [r \in Requests |-> IF Awaits(g, r)
               THEN [requests[r] EXCEPT !.heard = "lost"] ELSE requests[r]]
      BY <2>5 DEF Unload, Mounted
    <3>2. PICK r \in Requests : requests[r].form = g /\ Acknowledged(r)
      BY <2>5, <3>1 DEF IInv, Left
    <3>3. requests[r].ok /\ requests'[r].heard = "answer"
      BY <3>1, <3>2 DEF Acknowledged, Awaits
    <3>4. CASE f = g
      BY <3>2, <3>3, <3>4, AcceptedIsStored
    <3>5. CASE f # g
      BY <2>1, <3>1, <3>5 DEF EmptiesStored
    <3>6. QED
      BY <3>4, <3>5
  <2>6. ASSUME NEW g \in Forms, User(g) PROVE EmptiesStored(f)
    BY <2>2, <2>3, <2>6 DEF User, ShowForm, SolveCaptcha, ResetCaptcha, ClickPost
  <2>7. ASSUME NEW g \in Forms, NEW r \in Requests, Hears(g, r) \/ ConnectionLost(g, r)
        PROVE  EmptiesStored(f)
    BY <2>2, <2>4, <2>7 DEF Hears, ThreadAccepted, UploadRefused, ConnectionLost
  <2>8. ASSUME NEW r \in Requests,
               Handles(r) \/ EnterSemaphore(r) \/ Refuse(r) \/ ServerFault(r)
        PROVE  EmptiesStored(f)
    BY <2>2, <2>8 DEF Handles, VerifyCaptcha, CheckCooldown, SavePost, Accept,
       EnterSemaphore, Refuse, ServerFault, formVars
  <2>9. CASE CooldownElapses
    BY <2>2, <2>9 DEF CooldownElapses, formVars
  <2>10. QED
    BY <2>5, <2>6, <2>7, <2>8, <2>9 DEF Next
<1>2. QED
  BY <1>1, Invariance, PTL DEF Spec, EmptiesAfterStoring, EmptiesStored
-----------------------------------------------------------------------------
(* The log of the board. *)

\* The numbers are those from 1 on without gaps, and the request in the critical
\* section holds the next one, or the last when it has saved its post.
Consecutive ==
  \E n \in Nat :
    /\ Numbers = 1..n
    /\ \A r \in Requests : requests[r].stage = "writing" => requests[r].id = n + 1
    /\ \A r \in Requests : requests[r].stage = "saved" => requests[r].id = n

\* The next number after those from 1 to n.
LEMMA NextOfNumbers ==
  ASSUME TypeOK, Bounded, NEW n \in Nat, Numbers = 1..n
  PROVE  NextPostId = n + 1
<1>1. CASE n = 0
  <2>1. posts = {}
    BY <1>1 DEF Numbers
  <2>2. QED
    BY <1>1, <2>1 DEF NextPostId
<1>2. CASE n # 0
  <2>1. n \in Numbers /\ posts # {} /\ {p.id : p \in posts} = 1..n
    BY <1>2 DEF Numbers
  <2>2. NextPostId = Max(1..n) + 1
    BY <2>1 DEF NextPostId
  <2>3. Max(1..n) \in 1..n /\ \A i \in 1..n : Max(1..n) >= i
    <3>1. \E x \in 1..n : \A i \in 1..n : x >= i
      BY <1>2
    <3>2. QED
      BY <3>1 DEF Max
  <2>4. Max(1..n) = n
    BY <1>2, <2>3
  <2>5. QED
    BY <2>2, <2>4
<1>3. QED
  BY <1>1, <1>2

\* What the log does not notice of the requests and the posts: no number is taken,
\* no post saved, and nobody told.
Staged ==
  /\ posts' = posts /\ Requests \subseteq Requests'
  /\ \A r \in Requests' : requests'[r].stage \in {"writing", "saved"} =>
       /\ r \in Requests /\ requests'[r].stage = requests[r].stage
       /\ requests'[r].id = requests[r].id

Silent == \A r \in Requests : Acknowledged(r)' <=> Acknowledged(r)

\* Every step that saves no post and takes no number.
LEMMA StagedKeeps ==
  ASSUME Consecutive, Staged
  PROVE  Consecutive'
<1>1. Numbers' = Numbers
  BY DEF Staged, Numbers
<1>2. QED
  BY <1>1 DEF Consecutive, Staged

\* An edit of one request that takes it out of the critical section, or leaves it.
LEMMA EditStaged ==
  ASSUME NEW r \in Requests, NEW v \in RequestType, Becomes(r, v), posts' = posts,
         v.stage \in {"writing", "saved"} =>
           v.stage = requests[r].stage /\ v.id = requests[r].id
  PROVE  /\ Staged
         /\ (v.ok /\ v.heard = "answer" <=> Acknowledged(r)) => Silent
BY DEF Becomes, Staged, Silent, Acknowledged

\* A number is taken: nobody hears of it yet.
LEMMA EnterSilent ==
  ASSUME IInv, NEW r \in Requests, EnterSemaphore(r)
  PROVE  Silent
<1>1. /\ ~requests[r].ok
      /\ requests' = [requests EXCEPT ![r].stage = "writing", ![r].id = NextPostId]
  BY DEF EnterSemaphore, At, IInv, Stored
<1>2. requests[r] \in RequestType
  BY RequestTyped DEF IInv, TypeOK
<1>3. requests'[r].ok = requests[r].ok
  BY <1>1, <1>2 DEF RequestType, Requests
<1>4. \A q \in Requests : q # r => requests'[q] = requests[q]
  BY <1>1 DEF Requests
<1>5. QED
  BY <1>1, <1>3, <1>4 DEF Silent, Acknowledged

\* A number is taken inside the critical section: the next.
LEMMA EnterTakesNext ==
  ASSUME IInv, Consecutive, NEW r \in Requests, EnterSemaphore(r)
  PROVE  Consecutive'
<1> DEFINE v == [requests[r] EXCEPT !.stage = "writing", !.id = NextPostId]
<1>1. PICK n \in Nat : Numbers = 1..n
  BY DEF Consecutive
<1>2. NextPostId = n + 1
  BY <1>1, NextOfNumbers DEF IInv
<1>3. requests[r] \in RequestType /\ r # 0
  BY RequestTyped DEF IInv, TypeOK
<1>4. v \in RequestType /\ v.stage = "writing" /\ v.id = n + 1
  <2>1. NextPostId \in Nat
    BY <1>2
  <2>2. v \in RequestType /\ v.stage = "writing" /\ v.id = NextPostId
    BY <1>3, <2>1 DEF RequestType, Stages
  <2>3. QED
    BY <1>2, <2>2
<1>5. requests' = [requests EXCEPT ![r] = v]
  BY <1>3 DEF EnterSemaphore, RequestType, Requests
<1> HIDE DEF v
<1>6. Becomes(r, v)
  BY <1>4, <1>5, Edited DEF IInv, TypeOK
<1>7. \A q \in Requests : requests[q].stage \notin {"writing", "saved"}
  <2>1. ASSUME NEW q \in Requests, requests[q].stage \in {"writing", "saved"}
        PROVE  FALSE
    <3>1. q # 0
      BY RequestTyped DEF IInv, TypeOK
    <3>2. QED
      BY <2>1, <3>1 DEF IInv, Taken, EnterSemaphore
  <2>2. QED
    BY <2>1
<1>8. Numbers' = 1..n
  BY <1>1 DEF EnterSemaphore, Numbers
<1>9. \A q \in Requests' : /\ requests'[q].stage = "writing" => requests'[q].id = n + 1
                           /\ requests'[q].stage = "saved" => requests'[q].id = n
  BY <1>4, <1>6, <1>7 DEF Becomes
<1>10. QED
  BY <1>8, <1>9 DEF Consecutive

\* What a save does to the requests and the posts.
LEMMA SavesNext ==
  ASSUME IInv, NEW r \in Requests, SavePost(r), NEW n \in Nat, Numbers = 1..n,
         requests[r].id = n + 1
  PROVE  /\ Numbers' = 1..(n + 1)
         /\ Becomes(r, [requests[r] EXCEPT !.stage = "saved"])
         /\ requests'[r].stage = "saved" /\ requests'[r].id = n + 1
         /\ \A q \in Requests : q # r => requests'[q].stage \notin {"writing", "saved"}
<1>1. /\ requests[r].stage = "writing" /\ Moves(r, "saved")
      /\ posts' = posts \union {[id |-> requests[r].id, draft |-> requests[r].draft,
                                 request |-> r]}
  BY DEF SavePost, At
<1>2. Becomes(r, [requests[r] EXCEPT !.stage = "saved"])
  BY <1>1, MovesEdit DEF IInv, TypeOK, Stages
<1>3. requests'[r].stage = "saved" /\ requests'[r].id = n + 1
  BY <1>2, RequestTyped DEF Becomes, RequestType, IInv, TypeOK
<1>4. \A q \in Requests : q # r => requests[q].stage \notin {"writing", "saved"}
  BY <1>1 DEF IInv, Taken
<1>5. \A q \in Requests : q # r => requests'[q].stage \notin {"writing", "saved"}
  BY <1>2, <1>4 DEF Becomes
<1>6. Numbers' = Numbers \cup {n + 1}
  <2> DEFINE new == [id |-> requests[r].id, draft |-> requests[r].draft, request |-> r]
  <2>1. posts' = posts \cup {new} /\ new.id = n + 1
    BY <1>1
  <2> HIDE DEF new
  <2>2. \A i : i \in Numbers' <=> i \in Numbers \/ i = n + 1
    BY <2>1 DEF Numbers
  <2>3. QED
    BY <2>2
<1>7. 1..(n + 1) = (1..n) \cup {n + 1}
  OBVIOUS
<1>8. QED
  BY <1>2, <1>3, <1>5, <1>6, <1>7

\* The server's refusals, faults and checks.
LEMMA MovesStaged ==
  ASSUME IInv, NEW r \in Requests, posts' = posts,
         NEW stage \in {"verified", "checked", "done"}, Moves(r, stage)
  PROVE  Staged /\ Silent
<1> DEFINE v == [requests[r] EXCEPT !.stage = stage]
<1>1. requests[r] \in RequestType
  BY RequestTyped DEF IInv, TypeOK
<1>2. /\ v \in RequestType /\ v.stage = stage /\ v.ok = requests[r].ok
      /\ v.heard = requests[r].heard
  BY <1>1 DEF RequestType, Stages
<1>3. Becomes(r, v)
  BY MovesEdit DEF IInv, TypeOK, Stages
<1> HIDE DEF v
<1>4. QED
  BY <1>2, <1>3, EditStaged DEF Acknowledged

\* A form hears of its request: somebody is told when it was accepted.
LEMMA HeardStaged ==
  ASSUME IInv, NEW r \in Requests, posts' = posts, requests[r].heard = "waiting",
         NEW how \in {"answer", "lost"}, Heard(r, how)
  PROVE  /\ Staged
         /\ ~requests[r].ok \/ how = "lost" => Silent
         /\ Requests' = Requests
         /\ \A q \in Requests : q # r => (Acknowledged(q)' <=> Acknowledged(q))
         /\ requests[r].ok /\ how = "answer" => Acknowledged(r)'
<1> DEFINE v == [requests[r] EXCEPT !.heard = how]
<1>1. requests[r] \in RequestType
  BY RequestTyped DEF IInv, TypeOK
<1>2. /\ v \in RequestType /\ v.stage = requests[r].stage /\ v.ok = requests[r].ok
      /\ v.id = requests[r].id /\ v.heard = how
  BY <1>1 DEF RequestType
<1>3. Becomes(r, v)
  BY HeardEdit DEF IInv, TypeOK
<1> HIDE DEF v
<1>4. Staged /\ (~requests[r].ok \/ how = "lost" => Silent)
  BY <1>2, <1>3, EditStaged DEF Acknowledged
<1>5. QED
  BY <1>2, <1>3, <1>4 DEF Becomes, Acknowledged

\* The steps the log does not notice.
LEMMA FormSteps ==
  ASSUME IInv, NEW f \in Forms, User(f) \/ Unload(f)
  PROVE  Staged /\ Silent /\ mapped' = mapped
<1> USE DEF formVars, serverVars, countVars
<1>1. ASSUME UNCHANGED <<requests, posts, mapped>>
      PROVE  Staged /\ Silent /\ mapped' = mapped
  BY <1>1 DEF Staged, Silent, Acknowledged, Requests
<1>2. CASE ShowForm(f) \/ SolveCaptcha(f) \/ ResetCaptcha(f)
           \/ \E d \in Drafts : Enter(f, d)
  BY <1>1, <1>2 DEF ShowForm, SolveCaptcha, ResetCaptcha, Enter
<1>3. CASE ClickPost(f)
  <2>1. posts' = posts /\ mapped' = mapped
    BY <1>3 DEF ClickPost
  <2> DEFINE n == Len(requests) + 1
             v == [form |-> f, draft |-> draft[f], captcha |-> captcha[f],
                   stage |-> "sent", ok |-> FALSE, heard |-> "waiting",
                   id |-> 0, era |-> 0]
  <2>2. /\ Requests' = Requests \union {n} /\ requests'[n] = v
        /\ \A q \in Requests : q < n /\ requests'[q] = requests[q]
    BY <1>3, SentEdit DEF IInv
  <2>3. v.stage = "sent"
    OBVIOUS
  <2> HIDE DEF n, v
  <2>4. QED
    BY <2>1, <2>2, <2>3 DEF Staged, Silent, Acknowledged
<1>4. CASE Unload(f)
  <2>1. /\ posts' = posts /\ mapped' = mapped
        /\ requests' = [r \in Requests |-> IF Awaits(f, r)
                          THEN [requests[r] EXCEPT !.heard = "lost"] ELSE requests[r]]
    BY <1>4 DEF Unload
  <2>2. Requests' = Requests
    BY <2>1 DEF Requests
  <2>3. ASSUME NEW q \in Requests
        PROVE  /\ requests'[q].stage = requests[q].stage
               /\ requests'[q].id = requests[q].id
               /\ Acknowledged(q)' <=> Acknowledged(q)
    <3>1. requests[q] \in RequestType
      BY RequestTyped DEF IInv, TypeOK
    <3>2. CASE Awaits(f, q)
      <4>1. requests'[q] = [requests[q] EXCEPT !.heard = "lost"]
        BY <2>1, <3>2
      <4>2. /\ requests'[q].stage = requests[q].stage /\ requests'[q].id = requests[q].id
            /\ requests'[q].heard = "lost" /\ requests[q].heard = "waiting"
        BY <3>1, <3>2, <4>1 DEF RequestType, Awaits
      <4>3. QED
        BY <4>2 DEF Acknowledged
    <3>3. CASE ~Awaits(f, q)
      BY <2>1, <3>3 DEF Acknowledged
    <3>4. QED
      BY <3>2, <3>3
  <2>4. QED
    BY <2>1, <2>2, <2>3 DEF Staged, Silent
<1>5. QED
  BY <1>2, <1>3, <1>4 DEF User

\* ... of what a form hears, all but an acceptance.
LEMMA LostStep ==
  ASSUME IInv, NEW f \in Forms, NEW r \in Requests,
         UploadRefused(f, r) \/ ConnectionLost(f, r)
  PROVE  Staged /\ Silent /\ mapped' = mapped
<1> USE DEF formVars, serverVars, countVars
<1>1. posts' = posts /\ mapped' = mapped /\ requests[r].heard = "waiting"
  BY DEF UploadRefused, ConnectionLost, Answered, Awaits
<1>2. CASE Heard(r, "lost") \/ (Heard(r, "answer") /\ ~requests[r].ok)
  BY <1>1, <1>2, HeardStaged
<1>3. CASE requests' = [requests EXCEPT ![r].heard = "lost", ![r].stage = "done"]
  <2> DEFINE v == [requests[r] EXCEPT !.heard = "lost", !.stage = "done"]
  <2>1. requests[r] \in RequestType
    BY RequestTyped DEF IInv, TypeOK
  <2>2. v \in RequestType /\ v.stage = "done" /\ v.heard = "lost"
    BY <2>1 DEF RequestType, Stages
  <2>3. requests' = [requests EXCEPT ![r] = v]
    BY <1>3, <2>1 DEF RequestType, Requests
  <2>4. Becomes(r, v)
    BY <2>2, <2>3, Edited DEF IInv, TypeOK
  <2> HIDE DEF v
  <2>5. QED
    BY <1>1, <2>2, <2>4, EditStaged DEF Acknowledged
<1>4. QED
  BY <1>2, <1>3 DEF UploadRefused, ConnectionLost

\* ... and of what the server does, all that is outside of the critical section.
LEMMA ServerSteps ==
  ASSUME IInv, NEW r \in Requests,
         VerifyCaptcha(r) \/ CheckCooldown(r) \/ Refuse(r) \/ ServerFault(r)
  PROVE  Staged /\ Silent /\ mapped' = mapped
<1> USE DEF formVars, serverVars, countVars
<1>1. posts' = posts /\ mapped' = mapped
  BY DEF VerifyCaptcha, CheckCooldown, Refuse, ServerFault
<1>2. \E stage \in {"verified", "checked", "done"} : Moves(r, stage)
  BY DEF VerifyCaptcha, CheckCooldown, Refuse, ServerFault, Refuses
<1>3. QED
  BY <1>1, <1>2, MovesStaged

\* An acceptance leaves the critical section, and nobody has heard of it yet.
LEMMA AcceptStaged ==
  ASSUME IInv, NEW r \in Requests, Accept(r)
  PROVE  Staged /\ Silent /\ Requests' = Requests
<1> DEFINE v == [requests[r] EXCEPT !.stage = "done", !.ok = TRUE, !.era = era]
<1>1. requests[r] \in RequestType /\ era \in Nat
  BY RequestTyped DEF IInv, TypeOK
<1>2. /\ v \in RequestType /\ v.stage = "done" /\ v.heard = requests[r].heard
      /\ requests' = [requests EXCEPT ![r] = v]
  BY <1>1 DEF RequestType, Stages, Accept, Requests
<1>3. posts' = posts /\ requests[r].heard # "answer"
  BY DEF Accept, At, IInv, Stored
<1> HIDE DEF v
<1>4. Becomes(r, v)
  BY <1>2, Edited DEF IInv, TypeOK
<1>5. QED
  BY <1>2, <1>3, <1>4, EditStaged DEF Acknowledged, Becomes

\* The numbers stay without gaps, and the critical section takes the next one.
LEMMA ConsecutiveKeeps == IInv /\ Consecutive /\ [Next]_vars => Consecutive'
<1> USE DEF formVars, serverVars, countVars
<1> SUFFICES ASSUME IInv, Consecutive, [Next]_vars PROVE Consecutive'
  OBVIOUS
<1>1. CASE \E f \in Forms : User(f) \/ Unload(f)
  BY <1>1, FormSteps, StagedKeeps
<1>2. ASSUME NEW f \in Forms, NEW r \in Requests, Hears(f, r) \/ ConnectionLost(f, r)
      PROVE  Consecutive'
  <2>1. CASE UploadRefused(f, r) \/ ConnectionLost(f, r)
    BY <2>1, LostStep, StagedKeeps
  <2>2. CASE PostAccepted(f, r) \/ ThreadAccepted(f, r)
    <3>1. posts' = posts /\ requests[r].heard = "waiting" /\ Heard(r, "answer")
      BY <2>2 DEF PostAccepted, ThreadAccepted, Answered, Awaits
    <3>2. Staged
      BY <3>1, HeardStaged
    <3>3. QED
      BY <3>2, StagedKeeps
  <2>3. QED
    BY <1>2, <2>1, <2>2 DEF Hears
<1>3. ASSUME NEW r \in Requests,
             Handles(r) \/ EnterSemaphore(r) \/ Refuse(r) \/ ServerFault(r)
      PROVE  Consecutive'
  <2>1. CASE VerifyCaptcha(r) \/ CheckCooldown(r) \/ Refuse(r) \/ ServerFault(r)
    BY <2>1, ServerSteps, StagedKeeps
  <2>2. CASE EnterSemaphore(r)
    BY <2>2, EnterTakesNext
  <2>3. CASE SavePost(r)
    <3>1. PICK n \in Nat : Numbers = 1..n /\ requests[r].id = n + 1
      BY <2>3 DEF Consecutive, SavePost, At
    <3>2. /\ Numbers' = 1..(n + 1)
          /\ Becomes(r, [requests[r] EXCEPT !.stage = "saved"])
          /\ requests'[r].stage = "saved" /\ requests'[r].id = n + 1
          /\ \A q \in Requests : q # r => requests'[q].stage \notin {"writing", "saved"}
      BY <2>3, <3>1, SavesNext
    <3>3. /\ n + 1 \in Nat
          /\ \A q \in Requests' :
               /\ requests'[q].stage # "writing"
               /\ requests'[q].stage = "saved" => requests'[q].id = n + 1
      <4>1. Requests' = Requests
        BY <3>2 DEF Becomes
      <4>2. QED
        BY <3>2, <4>1
    <3>4. QED
      BY <3>2, <3>3 DEF Consecutive
  <2>4. CASE Accept(r)
    BY <2>4, AcceptStaged, StagedKeeps
  <2>5. QED
    BY <1>3, <2>1, <2>2, <2>3, <2>4 DEF Handles
<1>4. CASE CooldownElapses \/ UNCHANGED vars
  BY <1>4 DEF CooldownElapses, vars, Consecutive, Numbers, Requests
<1>5. QED
  BY <1>1, <1>2, <1>3, <1>4 DEF Next

\* The board has no gaps.
LEMMA ConsecutiveAlways == Spec => [](IInv /\ Consecutive)
<1>1. Init => Consecutive
  <2>1. SUFFICES ASSUME Init PROVE Consecutive
    OBVIOUS
  <2>2. Numbers = 1..0 /\ Requests = {}
    BY <2>1 DEF Init, Numbers, Requests
  <2>3. QED
    BY <2>2 DEF Consecutive
<1>2. QED
  BY <1>1, InitInv, NextKeeps, ConsecutiveKeeps, PTL DEF Spec

-----------------------------------------------------------------------------
(* PostUpload implements PostLog. *)

Shown == [n \in Numbers |-> (CHOOSE p \in posts : p.id = n).draft]
Told  == {p.id : p \in {q \in posts : Reported(q)}}

\* The log holds the draft of every post at its number,
LEMMA ShownAt ==
  NumbersAreUnique => \A p \in posts : p.id \in Numbers /\ Shown[p.id] = p.draft
<1> SUFFICES ASSUME NumbersAreUnique, NEW p \in posts
             PROVE  p.id \in Numbers /\ Shown[p.id] = p.draft
  OBVIOUS
<1>1. p.id \in Numbers
  BY DEF Numbers
<1>2. (CHOOSE q \in posts : q.id = p.id) = p
  BY DEF NumbersAreUnique
<1>3. QED
  BY <1>1, <1>2 DEF Shown

\* ... and is a sequence,
LEMMA ShownTyped ==
  IInv => \A n \in Nat : Numbers = 1..n => Shown \in Seq(Drafts) /\ Len(Shown) = n
<1> SUFFICES ASSUME IInv, NEW n \in Nat, Numbers = 1..n
             PROVE  Shown \in Seq(Drafts) /\ Len(Shown) = n
  OBVIOUS
<1>1. ASSUME NEW i \in Numbers
      PROVE  Shown[i] \in Drafts
  <2>1. PICK p \in posts : p.id = i
    BY DEF Numbers
  <2>2. QED
    BY <2>1, ShownAt DEF IInv, TypeOK
<1>2. Shown \in [1..n -> Drafts]
  BY <1>1 DEF Shown
<1>3. Shown \in Seq(Drafts)
  BY <1>2, SeqDef
<1>4. QED
  BY <1>2, <1>3, LenProperties

\* after a step as before it.
LEMMA ShownNext ==
  /\ NumbersAreUnique' =>
       (\A p \in posts : p.id \in Numbers /\ Shown[p.id] = p.draft)'
  /\ IInv' => (\A n \in Nat : Numbers = 1..n =>
                 Shown \in Seq(Drafts) /\ Len(Shown) = n)'
BY ShownAt, ShownTyped, PTL

\* A step that changes neither posts nor files, and tells nobody, is a stutter.
LEMMA LogStutters ==
  ASSUME IInv, Silent, posts' = posts, mapped' = mapped
  PROVE  UNCHANGED Log!vars
<1>1. Shown' = Shown
  BY DEF Shown, Numbers
<1>2. \A p \in posts : Reported(p)' <=> Reported(p)
  BY DEF Silent, Acknowledged, Reported, IInv, TypeOK
<1>3. Told' = Told
  BY <1>2 DEF Told
<1>4. QED
  BY <1>1, <1>3 DEF Log!vars, Shown, Told

\* The first save appends to the log: no other post has this number or a later one.
LEMMA SaveIsPost ==
  ASSUME IInv, IInv', Consecutive, NEW r \in Requests, SavePost(r),
         NEW d \in Drafts, d = requests[r].draft
  PROVE  Log!Post(d)
<1> DEFINE new == [id |-> requests[r].id, draft |-> requests[r].draft, request |-> r]
<1>1. PICK n \in Nat : Numbers = 1..n /\ requests[r].id = n + 1
  BY DEF Consecutive, SavePost, At
<1>2. /\ Numbers' = 1..(n + 1)
      /\ Becomes(r, [requests[r] EXCEPT !.stage = "saved"])
      /\ requests'[r].stage = "saved"
  BY <1>1, SavesNext
<1>3. posts' = posts \union {new} /\ mapped' = mapped
  BY DEF SavePost
<1>4. new.id = n + 1 /\ new.draft = d /\ new.request = r
  BY <1>1
<1> HIDE DEF new
<1>5. Shown' = Append(Shown, d)
  <2>1. Shown \in Seq(Drafts) /\ Len(Shown) = n
    BY <1>1, ShownTyped
  <2>2. Shown' \in Seq(Drafts) /\ Len(Shown') = n + 1
    BY <1>2, ShownNext
  <2>3. Shown'[n + 1] = d
    BY <1>3, <1>4, ShownNext DEF IInv
  <2>4. ASSUME NEW i \in 1..n
        PROVE  Shown'[i] = Shown[i]
    <3>1. PICK p \in posts : p.id = i
      BY <1>1 DEF Numbers
    <3>2. Shown[i] = p.draft /\ Shown'[i] = p.draft
      BY <1>3, <3>1, ShownAt, ShownNext DEF IInv
    <3>3. QED
      BY <3>2
  <2>5. /\ Append(Shown, d) \in Seq(Drafts) /\ Len(Append(Shown, d)) = n + 1
        /\ \A i \in 1..n : Append(Shown, d)[i] = Shown[i]
        /\ Append(Shown, d)[n + 1] = d
    BY <1>4, <2>1, AppendProperties
  <2>6. \A i \in 1..(n + 1) : Shown'[i] = Append(Shown, d)[i]
    BY <2>3, <2>4, <2>5
  <2>7. QED
    BY <2>2, <2>5, <2>6, SeqEqual
<1>6. Told' = Told
  <2> DEFINE heard(p) == requests'[p.request].ok /\ requests'[p.request].heard = "answer"
  <2>1. ~heard(new)
    BY <1>2, <1>4 DEF IInv, Stored, Becomes
  <2>2. \A p \in posts : heard(p) <=> Reported(p)
    <3>1. ASSUME NEW p \in posts
          PROVE  p.request \in Requests
      BY DEF IInv, TypeOK
    <3>2. requests[r] \in RequestType
      BY RequestTyped DEF IInv, TypeOK
    <3>3. /\ requests'[r].ok = requests[r].ok
          /\ requests'[r].heard = requests[r].heard
      BY <1>2, <3>2 DEF Becomes, RequestType
    <3>4. QED
      BY <1>2, <3>1, <3>3 DEF Becomes, Reported
  <2>3. Told' = {p.id : p \in {q \in posts' : heard(q)}}
    BY DEF Told, Reported
  <2> HIDE DEF heard
  <2>4. {q \in posts' : heard(q)} = {q \in posts : Reported(q)}
    BY <1>3, <2>1, <2>2
  <2>5. QED
    BY <2>3, <2>4 DEF Told
<1>7. QED
  BY <1>3, <1>5, <1>6 DEF Log!Post, Shown, Told

\* The second save is the file of the newest post.
LEMMA AcceptIsAttach ==
  ASSUME IInv, Consecutive, NEW r \in Requests, Accept(r)
  PROVE  Log!Attach \/ UNCHANGED Log!vars
<1>1. /\ requests[r].stage = "saved" /\ posts' = posts
      /\ mapped' = IF requests[r].draft \in FileDrafts
                     THEN mapped \union {requests[r].id} ELSE mapped
  BY DEF Accept, At
<1>2. Silent
  BY AcceptStaged
<1>3. CASE requests[r].draft \notin FileDrafts
  BY <1>1, <1>2, <1>3, LogStutters
<1>4. CASE requests[r].draft \in FileDrafts
  <2>1. PICK n \in Nat : Numbers = 1..n /\ requests[r].id = n
    BY <1>1 DEF Consecutive
  <2>2. PICK p \in posts : p.id = n /\ p.draft = requests[r].draft
    BY <1>1, <2>1 DEF IInv, Stored
  <2>3. n \in 1..n /\ Shown[n] = requests[r].draft
    BY <2>1, <2>2, ShownAt DEF IInv
  <2>4. Len(Shown) = n /\ Shown # << >>
    <3>1. Shown \in Seq(Drafts) /\ Len(Shown) = n
      BY <2>1, ShownTyped
    <3>2. QED
      BY <2>3, <3>1
  <2>5. Shown' = Shown
    BY <1>1 DEF Shown, Numbers
  <2>6. Told' = Told
    <3>1. \A q \in posts : Reported(q)' <=> Reported(q)
      BY <1>2 DEF Silent, Acknowledged, Reported, IInv, TypeOK
    <3>2. QED
      BY <1>1, <3>1 DEF Told
  <2>7. mapped' = mapped \union {n}
    BY <1>1, <1>4, <2>1
  <2>8. QED
    BY <1>4, <2>3, <2>4, <2>5, <2>6, <2>7 DEF Log!Attach, Shown, Told
<1>5. QED
  BY <1>3, <1>4

\* A form hears that its post was accepted: the post is there with its file, and
\* nobody was told of this draft before.
LEMMA HearingIsTell ==
  ASSUME IInv, IInv', NEW f \in Forms, NEW r \in Requests,
         PostAccepted(f, r) \/ ThreadAccepted(f, r)
  PROVE  \E n \in Numbers : Log!Tell(n)
<1> USE DEF serverVars
<1>1. /\ posts' = posts /\ mapped' = mapped /\ requests[r].ok
      /\ requests[r].heard = "waiting" /\ Heard(r, "answer")
  BY DEF PostAccepted, ThreadAccepted, Answered, Awaits
<1>2. /\ \A q \in Requests : q # r => (Acknowledged(q)' <=> Acknowledged(q))
      /\ Acknowledged(r)' /\ ~Acknowledged(r)
  BY <1>1, HeardStaged DEF Acknowledged
<1>3. PICK p \in posts : p.request = r /\ (p.draft \in FileDrafts => p.id \in mapped)
  BY <1>1 DEF IInv, Stored
<1>4. \A q \in posts : q.request = r => q = p
  BY <1>3 DEF IInv, Numbered
<1>5. \A q \in posts : Reported(q)' <=> Reported(q) \/ q = p
  BY <1>2, <1>3, <1>4 DEF Acknowledged, Reported, IInv, TypeOK
<1>6. ~Reported(p)
  BY <1>2, <1>3 DEF Acknowledged, Reported
<1>7. Told' = Told \union {p.id}
  BY <1>1, <1>3, <1>5 DEF Told
<1>8. p.id \in Numbers /\ Shown[p.id] = p.draft
  BY <1>3, ShownAt DEF IInv
<1>9. ASSUME NEW m \in Told
      PROVE  Shown[m] # Shown[p.id]
  <2>1. PICK q \in posts : q.id = m /\ Reported(q)
    BY <1>9 DEF Told
  <2>2. Shown[m] = q.draft
    BY <2>1, ShownAt DEF IInv
  <2>3. q.draft # p.draft
    <3>1. AcceptedOnce'
      BY OnceNext
    <3>2. q # p /\ p \in posts' /\ q \in posts' /\ Reported(q)' /\ Reported(p)'
      BY <1>1, <1>3, <1>5, <1>6, <2>1
    <3>3. QED
      BY <3>1, <3>2 DEF AcceptedOnce, Reported
  <2>4. QED
    BY <1>8, <2>2, <2>3
<1>10. Shown' = Shown
  BY <1>1 DEF Shown, Numbers
<1>11. Log!Tell(p.id)
  BY <1>1, <1>3, <1>7, <1>8, <1>9, <1>10 DEF Log!Tell, Shown, Told
<1>12. QED
  BY <1>8, <1>11

\* Every step is a step of the log, or leaves it alone.
LEMMA LogSimulates ==
  ASSUME IInv, IInv', Consecutive, [Next]_vars
  PROVE  [Log!Next]_(Log!vars)
<1> USE DEF formVars, serverVars, countVars
<1>1. CASE \E f \in Forms : User(f) \/ Unload(f)
  BY <1>1, FormSteps, LogStutters DEF Staged
<1>2. ASSUME NEW f \in Forms, NEW r \in Requests, Hears(f, r) \/ ConnectionLost(f, r)
      PROVE  [Log!Next]_(Log!vars)
  <2>1. CASE UploadRefused(f, r) \/ ConnectionLost(f, r)
    BY <2>1, LostStep, LogStutters DEF Staged
  <2>2. CASE PostAccepted(f, r) \/ ThreadAccepted(f, r)
    <3>1. \E n \in DOMAIN Shown : Log!Tell(n)
      BY <2>2, HearingIsTell DEF Shown
    <3>2. QED
      BY <3>1 DEF Log!Next, Shown
  <2>3. QED
    BY <1>2, <2>1, <2>2 DEF Hears
<1>3. ASSUME NEW r \in Requests,
             Handles(r) \/ EnterSemaphore(r) \/ Refuse(r) \/ ServerFault(r)
      PROVE  [Log!Next]_(Log!vars)
  <2>1. CASE VerifyCaptcha(r) \/ CheckCooldown(r) \/ Refuse(r) \/ ServerFault(r)
    BY <2>1, ServerSteps, LogStutters DEF Staged
  <2>2. CASE EnterSemaphore(r)
    BY <2>2, EnterSilent, LogStutters DEF EnterSemaphore
  <2>3. CASE SavePost(r)
    <3>1. requests[r].draft \in Drafts
      BY RequestTyped DEF IInv, TypeOK, RequestType
    <3>2. PICK d \in Drafts : d = requests[r].draft
      BY <3>1
    <3>3. Log!Post(d)
      BY <2>3, <3>2, SaveIsPost
    <3>4. QED
      BY <3>3 DEF Log!Next
  <2>4. CASE Accept(r)
    BY <2>4, AcceptIsAttach DEF Log!Next
  <2>5. QED
    BY <1>3, <2>1, <2>2, <2>3, <2>4 DEF Handles
<1>4. CASE CooldownElapses \/ UNCHANGED vars
  <2>1. UNCHANGED <<requests, posts, mapped>>
    BY <1>4 DEF CooldownElapses, vars
  <2>2. Silent
    BY <2>1 DEF Silent, Acknowledged
  <2>3. QED
    BY <2>1, <2>2, LogStutters
<1>5. QED
  BY <1>1, <1>2, <1>3, <1>4 DEF Next

\* The posting forms and the web server keep a log: a list of posts without gaps
\* that grows at its end, with each file on the post that was the last when it came,
\* and a sender told of a stored post only, once for each draft.
THEOREM LogImplemented == Spec => ImplementsLog
<1>1. Init => Log!Init
  <2>1. SUFFICES ASSUME Init PROVE Log!Init
    OBVIOUS
  <2>2. posts = {} /\ mapped = {} /\ Numbers = {}
    BY <2>1 DEF Init, Numbers
  <2>3. Shown = << >> /\ Told = {}
    BY <2>2 DEF Shown, Told
  <2>4. QED
    BY <2>2, <2>3 DEF Log!Init, Shown, Told
<1>2. (IInv /\ Consecutive) /\ (IInv /\ Consecutive)' /\ [Next]_vars
      => [Log!Next]_(Log!vars)
  BY LogSimulates
<1>3. QED
  BY <1>1, <1>2, ConsecutiveAlways, PTL DEF Spec, ImplementsLog, Log!Spec

=============================================================================
