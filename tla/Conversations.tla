----------------------------- MODULE Conversations -----------------------------
(***************************************************************************)
(* The support widget of the browser SDK                                   *)
(* (packages/browser/src/extensions/conversations/external/index.tsx and   *)
(* its widget): one conversation at a time is shown, fetched by polls that *)
(* ask for what is newer than a cursor, while the user chooses another     *)
(* one, writes, or becomes somebody else, and the page hides the widget.   *)
(*                                                                         *)
(* The server (external) is a log of posts, numbered by created_at, and    *)
(* the principal that owns each ticket.  It reads the log at some time     *)
(* between a request and its answer.  Unread counts, resolved tickets, the *)
(* forms, the breaker (a poll that is not made) and restore links are left *)
(* out.                                                                    *)
(***************************************************************************)
EXTENDS Naturals, Sequences, SequencesExt

CONSTANTS
    MaxPosts,    \* bound: posts in all tickets
    MaxCalls,    \* bound: requests that are awaited together
    MaxActs      \* bound: what the user, the page and the limiter do

ASSUME ConversationsAssumption ==
    MaxPosts \in Nat \ {0, 1} /\ MaxCalls \in Nat /\ MaxActs \in Nat

VARIABLES
    owners,     \* the server's tickets: who owns each
    posts,      \* the server's posts: their ticket, and whether an agent wrote them
    principal,  \* who asks: 1 the widget session, 2 a verified identity
    page,       \* the manager: its ticket (0: none), its cursor, its view, its interval, ...
    widget,     \* the rendered widget: the tickets it lists, the agents' posts it shows,
                \* and isLoading, while a send is awaited
    saved,      \* the persisted ticket
    calls,      \* requests that are awaited
    soon,       \* timers that a send has left for a poll
    acts,       \* history: what the user, the page and the limiter did
    intended,   \* history: the last of show and hide was show
    missed,     \* history: posts that the answer to a send moved the cursor past
    crossed,    \* history: the conversation was left while a request could still change it
    undone,     \* history: the page was hidden or reset while a request could undo it
    unheard     \* history: the limiter dropped a request, whose callback never runs

cnVars == <<owners, posts, principal, page, widget, saved, calls, soon, acts, intended, missed,
            crossed, undone, unheard>>

--------------------------------------------------------------------------------
Principals == {1, 2}
TicketIds == 0..MaxPosts
Polls == {"poll", "tickets"}        \* _pollMessages, _pollTickets
Loads == {"poll", "load"}           \* requests of _loadMessages
Lists == {"tickets", "back", "init", "reconcile"}

\* since: the posts that the server had when it was asked; posted: the post that
\* a send became; mine: the widget that sent it is still there.
Call == [kind : Loads \cup Lists \cup {"send"}, who : Principals, ticket : TicketIds,
         after : 0..MaxPosts, since : 0..MaxPosts, posted : 0..MaxPosts,
         mine : BOOLEAN]

ConversationsTypeOK ==
    /\ owners \in Seq(Principals)
    /\ posts \in Seq([ticket : DOMAIN owners, agent : BOOLEAN])
    /\ principal \in Principals
    /\ page \in [ticket : TicketIds, cursor : 0..MaxPosts, view : {"messages", "tickets"},
                 interval : BOOLEAN, loading : BOOLEAN, listing : BOOLEAN,
                 starting : BOOLEAN, rendered : BOOLEAN, gone : BOOLEAN]
    /\ widget \in [up : BOOLEAN, list : SUBSET DOMAIN owners, shown : SUBSET DOMAIN posts,
                  sending : BOOLEAN]
    /\ saved \in TicketIds
    /\ calls \in Seq(Call) /\ Len(calls) <= MaxCalls
    /\ soon \in Nat /\ acts \in 0..MaxActs
    /\ {intended, crossed, undone, unheard} \subseteq BOOLEAN
    /\ missed \subseteq DOMAIN posts

NoWidget == [up |-> FALSE, list |-> {}, shown |-> {}, sending |-> FALSE]

\* Tickets in which agents have answered are there, and one may be saved.
ConversationsInit ==
    /\ owners \in {<<>>, <<1>>, <<1, 1>>}
    /\ posts = [t \in DOMAIN owners |-> [ticket |-> t, agent |-> TRUE]]
    /\ principal = 1
    /\ saved \in {0} \cup DOMAIN owners
    /\ page = [ticket |-> saved, cursor |-> 0, view |-> "messages", interval |-> FALSE,
               loading |-> FALSE, listing |-> FALSE, starting |-> FALSE, rendered |-> FALSE,
               gone |-> FALSE]
    /\ widget = NoWidget
    /\ calls = <<>> /\ soon = 0 /\ acts = 0 /\ intended = FALSE
    /\ missed = {} /\ crossed = FALSE /\ undone = FALSE /\ unheard = FALSE

--------------------------------------------------------------------------------
(* Requests *)

Acts == acts < MaxActs /\ acts' = acts + 1

NewCallOf(kind, ticket, after) ==
    [kind |-> kind, who |-> principal, ticket |-> ticket, after |-> after,
     since |-> Len(posts), posted |-> 0, mine |-> TRUE]

\* _send_request: made, or dropped by the limiter of answers that the server sent.
Request(others, call) ==
    /\ Len(others) < MaxCalls
    /\ \/ calls' = Append(others, call) /\ UNCHANGED unheard
       \/ calls' = others /\ unheard' = TRUE

\* _pollMessages: not while one is awaited, and not without a ticket.
MayLoad(p) == p.ticket # 0 /\ ~p.loading
PollMessages(p, others) ==
    /\ page' = [p EXCEPT !.loading = TRUE]
    /\ Request(others, NewCallOf("poll", p.ticket, p.cursor))

\* _poll: what the view shows.
MayPoll(p) == IF p.view = "messages" THEN MayLoad(p) ELSE ~p.listing
Poll(p, others) ==
    IF p.view = "messages" THEN PollMessages(p, others)
    ELSE /\ page' = [p EXCEPT !.listing = TRUE]
         /\ Request(others, NewCallOf("tickets", 0, 0))

Awaited(kinds) == \E i \in DOMAIN calls : calls[i].kind \in kinds

server == <<owners, posts>>

--------------------------------------------------------------------------------
(* The server *)

AgentPosts ==
    /\ Len(posts) < MaxPosts
    /\ \E t \in DOMAIN owners : posts' = Append(posts, [ticket |-> t, agent |-> TRUE])
    /\ UNCHANGED <<owners, principal, page, widget, saved, calls, soon, acts, intended, missed,
                   crossed, undone, unheard>>

\* A send reaches the server, which refuses another principal's ticket.
ServerPosts(i) ==
    /\ Len(posts) < MaxPosts /\ calls[i].kind = "send" /\ calls[i].posted = 0
    /\ LET asked == calls[i].ticket
           ticket == IF asked = 0 THEN Len(owners) + 1 ELSE asked
       IN  /\ asked # 0 => owners[asked] = calls[i].who
           /\ owners' = IF asked = 0 THEN Append(owners, calls[i].who) ELSE owners
           /\ posts' = Append(posts, [ticket |-> ticket, agent |-> FALSE])
    /\ calls' = [calls EXCEPT ![i].posted = Len(posts) + 1]
    /\ UNCHANGED <<principal, page, widget, saved, soon, acts, intended, missed, crossed,
                   undone, unheard>>

\* What the server answers when it reads after its first k posts.
PostedIn(ticket, after, k) == {i \in (after + 1)..k : posts[i].ticket = ticket}
TicketsOf(who, k) ==
    {t \in DOMAIN owners : owners[t] = who /\ \E i \in 1..k : posts[i].ticket = t}
Agents(s) == {i \in s : posts[i].agent}

--------------------------------------------------------------------------------
(* Answers *)

Settled(call) == [widget EXCEPT !.sending = @ /\ ~(call.kind = "send" /\ call.mine)]

answerKeeps == <<server, principal, soon, acts, intended, crossed, undone>>

\* A request fails, or times out.
CallFails(i) ==
    /\ calls[i].kind # "init"
    /\ calls' = RemoveAt(calls, i)
    /\ page' = [page EXCEPT !.loading = @ /\ calls[i].kind # "poll",
                            !.listing = @ /\ calls[i].kind # "tickets"]
    /\ widget' = Settled(calls[i])
    /\ UNCHANGED <<answerKeeps, saved, missed, unheard>>

\* Mutant: an answer is taken whatever the page shows by then.
IsCurrentUnchecked(call) == call.ticket \in TicketIds

\* _loadMessages: an answer about another ticket or for somebody else is stale.
IsCurrent(call) == call.who = principal /\ call.ticket = page.ticket

MessagesAnswered(i) ==
    LET call == calls[i]
        settled == [page EXCEPT !.loading = @ /\ call.kind # "poll"]
    IN  /\ call.kind \in Loads /\ call.ticket \in TicketsOf(call.who, Len(posts))
        /\ calls' = RemoveAt(calls, i)
        /\ \E k \in call.since..Len(posts) :
             LET got == PostedIn(call.ticket, call.after, k) IN
             IF IsCurrent(call) /\ got # {}
             THEN /\ page' = [settled EXCEPT !.cursor = CHOOSE m \in got : \A j \in got : j <= m]
                  /\ widget' = IF widget.up THEN [widget EXCEPT !.shown = @ \cup Agents(got)]
                               ELSE widget
             ELSE page' = settled /\ UNCHANGED widget
        /\ UNCHANGED <<answerKeeps, saved, missed, unheard>>

\* _loadTickets, for a poll or the way back to the list.
TicketsAnswered(i) ==
    /\ calls[i].kind \in {"tickets", "back"}
    /\ calls' = RemoveAt(calls, i)
    /\ page' = [page EXCEPT !.listing = @ /\ calls[i].kind # "tickets"]
    /\ \E k \in calls[i].since..Len(posts) :
          widget' = IF widget.up THEN [widget EXCEPT !.list = TicketsOf(calls[i].who, k)]
                    ELSE widget
    /\ UNCHANGED <<answerKeeps, saved, missed, unheard>>

\* _applyTicketsToState: several tickets are listed, the only one is opened, and
\* without any the view is that of a new conversation.
Applied(p, found) ==
    [p EXCEPT !.view = IF \E t, u \in found : t # u THEN "tickets" ELSE "messages",
              !.ticket = IF \E t, u \in found : t # u THEN 0
                         ELSE IF found # {} THEN CHOOSE t \in found : TRUE ELSE @]

\* _doInitializeWidget after its await, whose failures it takes for an empty list:
\* the widget is rendered and polled.
InitAnswered(i) ==
    /\ calls[i].kind = "init"
    /\ \E k \in calls[i].since..Len(posts), fails \in BOOLEAN :
         LET found == IF fails \/ calls[i].who # principal THEN {}
                      ELSE TicketsOf(calls[i].who, k)
             p == [Applied(page, found) EXCEPT !.rendered = TRUE, !.interval = TRUE]
             others == RemoveAt(calls, i)
         IN  /\ widget' = IF widget.up THEN widget
                          ELSE [NoWidget EXCEPT !.up = TRUE, !.list = found]
             /\ saved' = IF found # {} /\ p.ticket # 0 THEN p.ticket ELSE saved
             /\ IF ~page.interval /\ MayPoll(p) THEN Poll(p, others)
                ELSE page' = p /\ calls' = others /\ UNCHANGED unheard
    /\ UNCHANGED <<answerKeeps, missed>>

\* _loadTicketsAndReconcileView.
ReconcileAnswered(i) ==
    /\ calls[i].kind = "reconcile"
    /\ \E k \in calls[i].since..Len(posts) :
         LET found == TicketsOf(calls[i].who, k)
             p == Applied(page, found)
             others == RemoveAt(calls, i)
         IN  IF calls[i].who # principal
             THEN calls' = others /\ UNCHANGED <<page, widget, saved, unheard>>
             ELSE /\ page' = p
                  /\ widget' = IF widget.up THEN [widget EXCEPT !.list = found] ELSE widget
                  /\ saved' = IF found # {} /\ p.ticket # 0 THEN p.ticket ELSE saved
                  /\ IF p.view = "messages" /\ p.ticket # 0
                     THEN Request(others, NewCallOf("load", p.ticket, p.cursor))
                     ELSE calls' = others /\ UNCHANGED unheard
    /\ UNCHANGED <<answerKeeps, missed>>

\* sendMessage: the first message of a ticket makes it the current one, and the
\* cursor is now where the message is, past what an agent wrote since the last poll.
SendAnswered(i) ==
    /\ calls[i].kind = "send" /\ calls[i].posted # 0
    /\ LET posted == calls[i].posted
           ticket == IF calls[i].ticket = 0 THEN posts[posted].ticket ELSE page.ticket
       IN  /\ page' = [page EXCEPT !.ticket = ticket, !.cursor = posted]
           /\ saved' = IF calls[i].ticket = 0 THEN ticket ELSE saved
           /\ missed' = missed \cup (Agents(PostedIn(ticket, 0, posted)) \ widget.shown)
    /\ calls' = RemoveAt(calls, i)
    /\ soon' = soon + 1
    /\ widget' = Settled(calls[i])
    /\ UNCHANGED <<server, principal, acts, intended, crossed, undone,
                   unheard>>

--------------------------------------------------------------------------------
(* Timers *)

PollTimer ==
    /\ page.interval /\ MayPoll(page) /\ Poll(page, calls)
    /\ UNCHANGED <<answerKeeps, widget, saved, missed>>

\* _handleSendMessage polls a second later.
PollSoon ==
    /\ soon > 0 /\ soon' = soon - 1
    /\ IF MayLoad(page) THEN PollMessages(page, calls) ELSE UNCHANGED <<page, calls, unheard>>
    /\ UNCHANGED <<server, principal, widget, saved, acts, intended, missed, crossed, undone>>

--------------------------------------------------------------------------------
(* The user *)

actKeeps == <<server, soon, intended, missed, undone>>

\* _handleSendMessage of the widget: the customer's own message is shown at once.
SendMessage ==
    /\ Acts /\ widget.up /\ ~widget.sending /\ page.view = "messages"
    /\ UNCHANGED principal
    /\ widget' = [widget EXCEPT !.sending = TRUE]
    /\ Request(calls, NewCallOf("send", page.ticket, 0))
    /\ crossed' = (crossed \/ (page.ticket = 0 /\ Awaited({"init", "reconcile"})))
    /\ UNCHANGED <<actKeeps, page, saved>>

\* The widget shows nothing yet of the conversation it turns to.
Blank == [widget EXCEPT !.shown = {}]

\* One of these asked for what is newer than what was shown then.
Continues(some) == \E c \in some : c.after > 0

\* One of these asked which conversation to open.
Opens(some) == \E c \in some : c.kind \in {"init", "reconcile"}

\* _handleSelectTicket.
SelectTicket(t) ==
    /\ Acts /\ widget.up /\ page.view = "tickets"
    /\ UNCHANGED principal
    /\ page' = [page EXCEPT !.ticket = t, !.cursor = 0, !.view = "messages"]
    /\ saved' = IF t = page.ticket THEN saved ELSE t
    /\ widget' = Blank
    /\ crossed' = (\/ Awaited({"send", "init", "reconcile"})
                   \/ Continues({c \in Range(calls) : c.ticket = t}))
    /\ Request(calls, NewCallOf("load", t, 0))
    /\ UNCHANGED actKeeps

\* _handleNewConversation.
NewConversation ==
    /\ Acts /\ widget.up /\ page.view = "tickets"
    /\ page' = [page EXCEPT !.ticket = 0, !.cursor = 0, !.view = "messages"]
    /\ saved' = 0
    /\ widget' = Blank
    /\ crossed' = Awaited({"send", "init", "reconcile"})
    /\ UNCHANGED <<actKeeps, principal, calls, unheard>>

\* _handleBackToTickets.
BackToTickets ==
    /\ Acts /\ widget.up /\ page.view = "messages" /\ widget.list # {}
    /\ UNCHANGED principal
    /\ page' = [page EXCEPT !.view = "tickets"]
    /\ Request(calls, NewCallOf("back", 0, 0))
    /\ UNCHANGED <<actKeeps, widget, saved, crossed>>

--------------------------------------------------------------------------------
(* The page *)

\* show, and the start of the manager.
ShowWidget ==
    /\ Acts /\ ~page.gone /\ intended' = TRUE
    /\ UNCHANGED principal
    /\ IF page.rendered \/ page.starting THEN UNCHANGED <<page, calls, unheard>>
       ELSE /\ page' = [page EXCEPT !.starting = TRUE]
            /\ Request(calls, NewCallOf("init", 0, 0))
    /\ undone' = FALSE
    /\ UNCHANGED <<server, soon, missed, widget, saved, crossed>>

Orphaned == [i \in DOMAIN calls |-> [calls[i] EXCEPT !.mine = FALSE]]

\* hide.
HideWidget ==
    /\ Acts /\ ~page.gone /\ intended' = FALSE
    /\ page' = [page EXCEPT !.interval = FALSE, !.rendered = FALSE, !.starting = FALSE,
                            !.cursor = 0]
    /\ widget' = NoWidget /\ calls' = Orphaned
    /\ crossed' = (calls # <<>> \/ soon > 0)
    /\ undone' = Awaited({"init"})
    /\ UNCHANGED <<server, soon, missed, principal, saved, unheard>>

\* setIdentity and clearIdentity.
ChangeIdentity ==
    /\ Acts /\ ~page.gone
    /\ principal' \in Principals \ {principal}
    /\ page' = [page EXCEPT !.ticket = 0, !.cursor = 0,
                            !.view = IF widget.up /\ widget.list # {} THEN "tickets" ELSE @]
    /\ saved' = 0
    /\ widget' = Blank
    /\ LET mine == {c \in Range(calls) : c.who = principal'}
       IN  crossed' = (Awaited({"send"}) \/ ~widget.up \/ Continues(mine) \/ Opens(mine))
    /\ Request(calls, [NewCallOf("reconcile", 0, 0) EXCEPT !.who = principal'])
    /\ UNCHANGED actKeeps

\* reset: the manager is destroyed, with what is persisted.
ResetConversations ==
    /\ Acts /\ ~page.gone /\ intended' = FALSE
    /\ page' = [page EXCEPT !.ticket = 0, !.cursor = 0, !.interval = FALSE, !.gone = TRUE]
    /\ widget' = NoWidget /\ calls' = Orphaned
    /\ saved' = 0
    /\ undone' = Awaited({"send", "init", "reconcile"})
    /\ crossed' = (calls # <<>> \/ soon > 0)
    /\ UNCHANGED <<server, soon, missed, principal, unheard>>

ConversationsNext ==
    \/ AgentPosts
    \/ \E i \in DOMAIN calls :
          \/ ServerPosts(i) \/ CallFails(i) \/ MessagesAnswered(i) \/ TicketsAnswered(i)
          \/ InitAnswered(i) \/ ReconcileAnswered(i) \/ SendAnswered(i)
    \/ PollTimer \/ PollSoon
    \/ SendMessage \/ (\E t \in widget.list : SelectTicket(t)) \/ NewConversation
    \/ BackToTickets \/ ShowWidget \/ HideWidget \/ ChangeIdentity \/ ResetConversations

ConversationsSpec == ConversationsInit /\ [][ConversationsNext]_cnVars

--------------------------------------------------------------------------------
(* Properties *)

\* The widget shows one conversation, and of it everything up to the cursor that
\* the next poll asks from: what it lacks is still to be fetched.
NothingIsMissed ==
    /\ \A i \in widget.shown : posts[i].ticket = page.ticket
    /\ Agents(PostedIn(page.ticket, 0, page.cursor)) \subseteq widget.shown \cup missed

\* A widget that was hidden or destroyed stays so, with no poll and no ticket that
\* the next user would find.
StaysHidden ==
    /\ ~intended => ~widget.up /\ ~page.interval
    /\ page.gone => saved = 0

\* A flag that keeps a second request from being made falls with the first.
FlagsFall ==
    /\ page.interval => widget.up
    /\ page.loading => Awaited({"poll"})
    /\ page.listing => Awaited({"tickets"})
    /\ page.starting /\ ~page.rendered => Awaited({"init"})

(* Polls, selections, sends, identities and hides cross on their way; unless    *)
(* one could still change a conversation that was left, the page shows it whole *)
(* (index.tsx _loadMessages, _handleSelectTicket, hide, reset), and unless the  *)
(* limiter dropped a request it goes on asking.                                 *)
ConversationIsWhole ==
    /\ ~crossed => NothingIsMissed
    /\ ~undone => StaysHidden
    /\ ~unheard => FlagsFall
================================================================================
