-------------------------------- MODULE Web --------------------------------
(***************************************************************************)
(* The browser: tabs, their histories and documents, the pool of decoded   *)
(* images, the one scratch snapshot, and the single transfer that loads    *)
(* pages and images (src/apps/outrun_web.c).                               *)
(*                                                                         *)
(* The program is one loop: it handles a user event if there is one, else  *)
(* it advances the transfer by one step.  What a server answers, and when  *)
(* the network or TLS fails, is the environment's choice; a passed         *)
(* deadline is one such failure.  A URL is a site and a path; a reference  *)
(* in a page is a URL or a path of its own site.                           *)
(***************************************************************************)
EXTENDS Integers, Sequences, FiniteSets, FiniteSetsExt, SequencesExt

CONSTANTS NTabs,      \* WEB_TABS
          NHist,      \* WEB_HIST
          NMarks,     \* WEB_MARKS
          NPool,      \* WEB_POOL_SLOTS
          Secure,     \* sites reached by https
          Content,    \* url -> [kind: "page", images, links] | [kind: "image"] | [kind: "moved", to]
          TypedIn,      \* urls the user types
          MaxHops,    \* redirects a transfer follows
          MaxEvents,  \* bound: user events
          MaxJobs     \* bound: transfers started

VARIABLES tab,      \* tab -> [used, url, hist, hpos, pending, image, secure, doc]
          active,   \* web_active
          taken,    \* slots of web_pool that are taken
          marks,    \* web_marks
          saved,    \* web_saved_page: <<>> or <<[url, hist, hpos, marks, doc]>>
          job,      \* web_current: [state, url, fd, tls, verified, hops, chain]
          jobTab,   \* web_job_tab, -1 without a transfer
          events, jobs

vars == <<tab, active, taken, marks, saved, job, jobTab, events, jobs>>

Tabs == 0 .. NTabs - 1
Idle == -1
None == <<>>   \* the empty address

-----------------------------------------------------------------------------
(* Data. *)

NoDoc == [from |-> None, links |-> <<>>, images |-> <<>>, owns |-> {}]

NoTab == [used |-> FALSE, url |-> None, hist |-> <<>>, hpos |-> 0, pending |-> FALSE,
          image |-> 0, secure |-> FALSE, doc |-> NoDoc]

NewTab == [NoTab EXCEPT !.used = TRUE]

NoJob == [state |-> "idle", url |-> None, fd |-> FALSE, tls |-> FALSE,
          verified |-> FALSE, hops |-> 0, chain |-> {}]

Init ==
  /\ tab = [i \in Tabs |-> IF i = 0 THEN NewTab ELSE NoTab]
  /\ active = 0
  /\ taken = {}
  /\ marks = <<>>
  /\ saved = <<>>
  /\ job = NoJob
  /\ jobTab = Idle
  /\ events = 0
  /\ jobs = 0

Https(u) == u[1] \in Secure

\* web_resolve: a reference as a URL, seen from a base.
Resolve(base, ref) == IF Len(ref) = 1 THEN <<base[1], ref[1]>> ELSE ref

\* web_html: the document a body is parsed to.  Anything is parsed; what is not
\* a page has no links and no images.
Parsed(u) ==
  IF Content[u].kind # "page" THEN [NoDoc EXCEPT !.from = u]
  ELSE [from |-> u, links |-> Content[u].links, owns |-> {},
        images |-> [i \in DOMAIN Content[u].images |->
                      [src |-> Content[u].images[i], loaded |-> 0, slot |-> -1]]]

\* web_history_push: entries after the present one are dropped, and the oldest
\* when the list is full.  hpos counts from 1 here, 0 is an empty history.
Pushed(t, u) ==
  IF t.hpos > 0 /\ t.hist[t.hpos] = u THEN t
  ELSE LET kept == SubSeq(t.hist, 1, t.hpos)
           h == Append(IF Len(kept) = NHist THEN Tail(kept) ELSE kept, u)
       IN  [t EXCEPT !.hist = h, !.hpos = Len(h)]

-----------------------------------------------------------------------------
(* User events. *)

\* web_navigate.  A transfer that is under way for the tab goes on.
Navigated(t, u, push) ==
  [(IF push THEN Pushed(t, u) ELSE t) EXCEPT !.url = u, !.pending = TRUE,
                                             !.image = 0, !.secure = FALSE]

Event == events < MaxEvents /\ events' = events + 1

At == tab[active]

Navigate(u) ==
  /\ Event
  /\ tab' = [tab EXCEPT ![active] = Navigated(@, u, TRUE)]
  /\ UNCHANGED <<active, taken, marks, saved, job, jobTab, jobs>>

Back(d) ==
  /\ Event
  /\ At.hpos + d \in DOMAIN At.hist
  /\ tab' = [tab EXCEPT ![active] =
               Navigated([@ EXCEPT !.hpos = @ + d], At.hist[At.hpos + d], FALSE)]
  /\ UNCHANGED <<active, taken, marks, saved, job, jobTab, jobs>>

\* web_click on a link of the document: it is resolved against the tab's address.
Click(i) ==
  /\ i \in DOMAIN At.doc.links /\ At.url # None
  /\ Navigate(Resolve(At.url, At.doc.links[i]))

FreeTabs == {i \in Tabs : ~tab[i].used}

Open ==
  /\ Event /\ FreeTabs # {}
  /\ tab' = [tab EXCEPT ![Min(FreeTabs)] = NewTab]
  /\ active' = Min(FreeTabs)
  /\ UNCHANGED <<taken, marks, saved, job, jobTab, jobs>>

Activate(i) ==
  /\ Event /\ tab[i].used /\ i # active
  /\ active' = i
  /\ UNCHANGED <<tab, taken, marks, saved, job, jobTab, jobs>>

\* web_close: the socket and the TLS context go.
Closed(j) == [j EXCEPT !.fd = FALSE, !.tls = FALSE]

Dropped(j) == [Closed(j) EXCEPT !.state = "idle"]

\* web_close_tab.  After the last tab everything starts over, bookmarks included.
Close ==
  LET left == {i \in Tabs : tab[i].used} \ {active}
      mine == jobTab = active
  IN
  /\ Event
  /\ taken' = taken \ At.doc.owns
  /\ tab' = IF left = {} THEN [i \in Tabs |-> IF i = 0 THEN NewTab ELSE NoTab]
            ELSE [tab EXCEPT ![active] = NoTab]
  /\ active' = IF left = {} THEN 0 ELSE Min(left)
  /\ marks' = IF left = {} THEN <<>> ELSE marks
  /\ job' = IF left = {} THEN NoJob ELSE IF mine THEN Dropped(job) ELSE job
  /\ jobTab' = IF left = {} \/ mine THEN Idle ELSE jobTab
  /\ UNCHANGED <<saved, jobs>>

\* The reload button: it stops a page that is loading and reloads one that is not.
Reload ==
  /\ Event
  /\ IF At.pending
     THEN /\ tab' = [tab EXCEPT ![active].pending = FALSE]
          /\ job' = IF jobTab = active THEN Dropped(job) ELSE job
          /\ jobTab' = IF jobTab = active THEN Idle ELSE jobTab
     ELSE /\ At.url # None
          /\ tab' = [tab EXCEPT ![active] = Navigated(@, At.url, FALSE)]
          /\ UNCHANGED <<job, jobTab>>
  /\ UNCHANGED <<active, taken, marks, saved, jobs>>

Bookmark ==
  /\ Event /\ At.url # None /\ At.url \notin Range(marks)
  /\ marks' = Append(IF Len(marks) = NMarks THEN Tail(marks) ELSE marks, At.url)
  /\ UNCHANGED <<tab, active, taken, saved, job, jobTab, jobs>>

\* A snapshot and what is restored from it own no pixels; the images count as
\* not fetched.
WithoutPixels(d) ==
  [d EXCEPT !.owns = {},
            !.images = [i \in DOMAIN d.images |-> [d.images[i] EXCEPT !.loaded = 0, !.slot = -1]]]

Save ==
  /\ Event
  /\ saved' = <<[url |-> At.url, hist |-> At.hist, hpos |-> At.hpos, marks |-> marks,
                 doc |-> WithoutPixels(At.doc)]>>
  /\ UNCHANGED <<tab, active, taken, marks, job, jobTab, jobs>>

Restore ==
  /\ Event /\ saved # <<>> /\ FreeTabs # {}
  /\ LET s == saved[1] IN
     /\ tab' = [tab EXCEPT ![Min(FreeTabs)] =
                  [NewTab EXCEPT !.url = s.url, !.hist = s.hist, !.hpos = s.hpos,
                                 !.doc = WithoutPixels(s.doc)]]
     /\ marks' = s.marks
  /\ active' = Min(FreeTabs)
  /\ UNCHANGED <<taken, saved, job, jobTab, jobs>>

-----------------------------------------------------------------------------
(* The transfer. *)

\* web_start: an address starts with a name lookup, or with the connection when
\* it is numeric; either may fail at once.
Starts(u) ==
  {[NoJob EXCEPT !.state = s, !.url = u, !.fd = s # "error", !.chain = {u}] :
     s \in {"lookup", "connect", "error"}}

\* web_pump without a transfer: the first pending tab's page.
Begin ==
  LET waiting == {i \in Tabs : tab[i].used /\ tab[i].pending}
      i == Min(waiting)
  IN
  /\ jobTab = Idle /\ waiting # {} /\ jobs < MaxJobs
  /\ jobs' = jobs + 1
  /\ \E j \in Starts(tab[i].url) :
       /\ job' = j
       /\ tab' = IF j.state = "error" THEN [tab EXCEPT ![i].pending = FALSE] ELSE tab
       /\ jobTab' = IF j.state = "error" THEN Idle ELSE i
  /\ UNCHANGED <<active, taken, marks, saved, events>>

\* A failed transfer is the end of the load it was part of.
Fail ==
  /\ jobTab # Idle /\ job.state \notin {"idle", "done"}
  /\ job' = [Closed(job) EXCEPT !.state = "error"]
  /\ tab' = [tab EXCEPT ![jobTab].pending = FALSE]
  /\ jobTab' = Idle
  /\ UNCHANGED <<active, taken, marks, saved, events, jobs>>

\* web_step up to the answer: name, connection, TLS with the verified name, request.
Advance ==
  /\ jobTab # Idle
  /\ \/ /\ job.state = "lookup"
        /\ job' = [job EXCEPT !.state = "connect"]
     \/ /\ job.state = "connect"
        /\ job' = [job EXCEPT !.state = IF Https(job.url) THEN "tls" ELSE "send",
                              !.tls = Https(job.url)]
     \/ /\ job.state = "tls"
        /\ job' = [job EXCEPT !.state = "send", !.verified = TRUE]
     \/ /\ job.state = "send"
        /\ job' = [job EXCEPT !.state = "read"]
  /\ UNCHANGED <<tab, active, taken, marks, saved, jobTab, events, jobs>>

\* Mutant: the scheme of the new address is not looked at.
AnyScheme(j, to) == j.hops + 1 <= MaxHops

Follows(j, to) == j.hops + 1 <= MaxHops /\ ~(Https(j.url) /\ ~Https(to))

\* An answer that points elsewhere is followed in the same transfer; the
\* redirects it has followed and its deadline are kept.
Redirect ==
  LET to == Resolve(job.url, Content[job.url].to) IN
  /\ jobTab # Idle /\ job.state = "read" /\ Content[job.url].kind = "moved"
  /\ Follows(job, to)
  /\ \E j \in Starts(to) :
       /\ j.state # "error"
       /\ job' = [j EXCEPT !.hops = job.hops + 1, !.chain = job.chain \cup {to}]
  /\ UNCHANGED <<tab, active, taken, marks, saved, jobTab, events, jobs>>

\* web_decode_image: a slot is claimed for a picture that parses; one that does
\* not, or finds the pool full, is not tried again.
Decoded(d, i, pool) ==
  LET free == (0 .. NPool - 1) \ pool
      s == IF d.images[i].slot >= 0 THEN d.images[i].slot
           ELSE IF Content[job.url].kind = "image" /\ free # {} THEN Min(free) ELSE -1
  IN  [d EXCEPT !.images[i] = [@ EXCEPT !.loaded = IF s >= 0 THEN 1 ELSE -1, !.slot = s],
                !.owns = IF s >= 0 THEN @ \cup {s} ELSE @]

\* The images before i that were not tried count as tried.
PassedOver(t, i) ==
  [t EXCEPT !.doc.images = [k \in DOMAIN @ |-> IF k < i /\ @[k].loaded = 0
                                               THEN [@[k] EXCEPT !.loaded = -1] ELSE @[k]]]

\* web_fetch_next_image: the first image that was not tried yet; one whose
\* transfer cannot be started is passed over.
Fetch(t) ==
  LET im == t.doc.images IN
  \/ /\ tab' = [tab EXCEPT ![jobTab] = [PassedOver(t, Len(im) + 1) EXCEPT !.image = 0]]
     /\ job' = [Closed(job) EXCEPT !.state = "done"]
     /\ jobTab' = Idle /\ jobs' = jobs
  \/ \E i \in DOMAIN im : \E j \in Starts(Resolve(t.url, im[i].src)) :
       /\ im[i].loaded = 0 /\ j.state # "error" /\ jobs < MaxJobs
       /\ tab' = [tab EXCEPT ![jobTab] = [PassedOver(t, i) EXCEPT !.image = i]]
       /\ job' = j /\ jobTab' = jobTab /\ jobs' = jobs + 1

\* The answer to an image transfer.
ImageDone ==
  LET t == tab[jobTab]
      d == IF t.image \in DOMAIN t.doc.images THEN Decoded(t.doc, t.image, taken) ELSE t.doc
  IN
  /\ jobTab # Idle /\ job.state = "read" /\ Content[job.url].kind # "moved"
  /\ t.image # 0
  /\ taken' = taken \cup d.owns
  /\ Fetch([t EXCEPT !.pending = FALSE, !.secure = job.verified, !.doc = d])
  /\ UNCHANGED <<active, marks, saved, events>>

Released(d) == d.owns

\* The answer to a page transfer: the old document's pixels are released, and the
\* tab's address becomes the one the transfer ended at.
PageDone ==
  LET t == tab[jobTab] IN
  /\ jobTab # Idle /\ job.state = "read" /\ Content[job.url].kind # "moved"
  /\ t.image = 0
  /\ taken' = taken \ Released(t.doc)
  /\ Fetch([t EXCEPT !.pending = FALSE, !.secure = job.verified, !.url = job.url,
                     !.doc = Parsed(job.url)])
  /\ UNCHANGED <<active, marks, saved, events>>

Next ==
  \/ \E u \in TypedIn : Navigate(u)
  \/ Back(-1) \/ Back(1)
  \/ \E i \in 1 .. 2 : Click(i)
  \/ Open \/ Close \/ Reload \/ Bookmark \/ Save \/ Restore
  \/ \E i \in Tabs : Activate(i)
  \/ Begin \/ Fail \/ Advance \/ Redirect \/ ImageDone \/ PageDone

Spec == Init /\ [][Next]_vars

-----------------------------------------------------------------------------
(* Properties. *)

Docs == {i \in Tabs : tab[i].used}

\* Every taken slot of the image pool belongs to exactly one document, and a
\* picture that is shown has a slot of its own document.
PoolExact ==
  /\ taken = UNION {tab[i].doc.owns : i \in Docs}
  /\ \A i, j \in Docs : i # j => tab[i].doc.owns \cap tab[j].doc.owns = {}
  /\ \A i \in Docs :
       LET im == tab[i].doc.images
       IN  /\ {im[k].slot : k \in DOMAIN im} \ {-1} \subseteq tab[i].doc.owns
           /\ \A k, l \in DOMAIN im : k # l /\ im[k].slot >= 0 => im[k].slot # im[l].slot

\* A transfer belongs to an open tab and holds a socket; without a transfer no
\* socket and no TLS context is left.
JobOwned ==
  IF jobTab = Idle THEN ~job.fd /\ ~job.tls ELSE tab[jobTab].used /\ job.fd

\* A transfer that has come to an https address never leaves https again.
StaysSecure == (\E u \in job.chain : Https(u)) => Https(job.url)

\* The position in a history is one of its entries, and a tab that has loaded
\* something is at an entry.
HistorySound == \A i \in Tabs : tab[i].hpos <= Len(tab[i].hist) /\ Len(tab[i].hist) <= NHist

WebSound == PoolExact /\ JobOwned /\ StaysSecure /\ HistorySound

\* "An image fetch finishing must NOT be parsed as a document": what a tab shows
\* as its page was never an image some page refers to.
ImageIsNoPage == \A i \in Tabs : tab[i].doc.from # None => Content[tab[i].doc.from].kind # "image"

\* The secure mark stands for a page that came over https.
MarkHonest == \A i \in Tabs : tab[i].secure => Https(tab[i].doc.from)
=============================================================================
