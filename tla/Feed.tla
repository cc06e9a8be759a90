--------------------------------- MODULE Feed -------------------------------
(***************************************************************************)
(* From the stored incident to the screen: the runtime's tick publishes on *)
(* the event bus (packages/api), the bus feeds the stream and the outbound *)
(* event webhook, and the console (apps/console) keeps a filtered list, a  *)
(* detail page and counters out of fetches and pushed events.              *)
(***************************************************************************)
EXTENDS Naturals, Sequences, FiniteSets, SequencesExt, Functions

CONSTANTS
    Incidents,
    Public,          \* those whose agent anybody may read
    Page,            \* the incident a detail page may be open on
    Ticks,           \* timers' calls of tick(), overlapping or not
    Acks,            \* presses of acknowledge
    Modes,           \* what a behaviour lets loose; fixed by Init
    MaxConnections,  \* times the stream may be opened, at most
    MaxRequests,     \* lists the console may ask for, at most
    MaxWire,         \* events a connection holds when a tick may start
    MaxEvents,       \* events published when a webhook is configured
    Ceiling          \* maxInFlight

ASSUME FeedAssumption ==
    /\ IsFiniteSet(Incidents) /\ Public \subseteq Incidents /\ Page \in Public
    /\ MaxRequests \in Nat /\ Ceiling \in Nat
    /\ \A m \in Modes : m.filters \subseteq {"open", "acknowledged", "resolved", "all"}

VARIABLES
    mode,
    stored,     \* id -> what is stored of it
    changes,
    tick,       \* timer -> where its call of tick() is and what it holds
    diagnosed,  \* explained, or tried, since the process started
    ack,        \* press -> where it is and the row it read
    handler,    \* connection -> where the server's handler of it is
    wire,       \* connection -> events sent and not received
    client,     \* the console's stream: its state, its connection, opened before
    shown,      \* id -> the row in the list
    list,       \* listStatus, filters, the newest request's ticket
    asks,       \* request -> the list it brings
    asked,
    figures,    \* the counters on screen, and the answer on its way to them
    page,       \* the detail on screen, whether it ever loaded, the reads on their way
    hook        \* the event webhook's counters, and the posts really outstanding

fvars == <<stored, changes, tick, diagnosed, ack, handler, wire, client, shown, list, asks,
           asked, figures, page, hook>>

Absent == [status |-> "none", explained |-> FALSE]
Statuses == {"open", "acknowledged", "resolved"}
Filters == Statuses \union {"all"}
Connections == 1..MaxConnections
Requests == 1..MaxRequests
Slots == 1..2
Nothing == [i \in Incidents |-> Absent]
NoAsk == [at |-> "none", filter |-> "all", rows |-> Nothing]
NoRead == [at |-> "none", row |-> Absent]
Idle == [at |-> "idle", before |-> {}, after |-> <<>>, left |-> {}, of |-> Page, count |-> 0]

StoredIn(table) == {i \in DOMAIN table : table[i] # Absent}
IsSettled(r) == r.status \in {"resolved", "acknowledged", "none"}
OpenCount(table) == Cardinality({i \in Incidents : ~IsSettled(table[i])})
Matches(r, filter) == r # Absent /\ (filter = "all" \/ r.status = filter)
Readable(i) == i \in Public \/ mode.signedIn
Listing(filter) == [i \in Incidents |-> IF Matches(stored[i], filter) /\ Readable(i) THEN stored[i] ELSE Absent]

FeedInit ==
    /\ stored = Nothing
    /\ changes = 0
    /\ tick = [t \in Ticks |-> Idle]
    /\ diagnosed = {}
    /\ ack = [a \in Acks |-> [at |-> "idle", read |-> Absent, of |-> Page]]
    /\ handler = [c \in Connections |-> "none"]
    /\ wire = [c \in Connections |-> <<>>]
    /\ client = [state |-> "waiting", c |-> 0, opened |-> FALSE]
    /\ shown = Nothing
    /\ list = [status |-> "idle", filter |-> "all", ticket |-> 0]
    /\ asks = [k \in Requests |-> NoAsk]
    /\ asked = 0
    /\ figures = [shown |-> 0, at |-> "none", coming |-> 0]
    /\ page = [shown |-> Absent, loaded |-> FALSE, reads |-> [s \in Slots |-> NoRead]]
    /\ hook = [inFlight |-> 0, dropped |-> 0, ended |-> 0, posts |-> {}, offered |-> 0]

-----------------------------------------------------------------------------
(* The bus: every subscriber is told, a stream only of what its caller may   *)
(* read.  EventSource carries no session, so that caller is a stranger.      *)
Event(type, i, r) == [type |-> type, of |-> i, r |-> r, n |-> 0]
Figures(n) == [type |-> "stats", of |-> Page, r |-> Absent, n |-> n]
Tells(c, e) == handler[c] = "subscribed" /\ (e.type = "stats" \/ e.of \in Public)

\* deliver(), called for one event after another and nothing ending in between:
\* past the ceiling an event is dropped and counted, else it is posted.
Offered(events) == Cardinality({k \in DOMAIN events : events[k].type \in mode.types})
Posted(n) == IF hook.inFlight + n <= Ceiling THEN n ELSE Ceiling - hook.inFlight

Publish(events) ==
    /\ wire' = [c \in Connections |-> wire[c] \o SelectSeq(events, LAMBDA e : Tells(c, e))]
    /\ LET n == Offered(events)
       IN hook' = [hook EXCEPT !.inFlight = @ + Posted(n), !.dropped = @ + (n - Posted(n)), !.offered = @ + n,
                               !.posts = @ \union (hook.offered + 1 .. hook.offered + Posted(n))]

PostEndsUnreleased(k) ==
    /\ k \in hook.posts
    /\ hook' = [hook EXCEPT !.ended = @ + 1, !.posts = @ \ {k}]
    /\ UNCHANGED <<stored, changes, tick, diagnosed, ack, handler, wire, client, shown, list,
                   asks, asked, figures, page>>
\* The receiver answers one way or the other, or the connection fails.
PostEnds(k) ==
    /\ k \in hook.posts
    /\ hook' = [hook EXCEPT !.inFlight = @ - 1, !.ended = @ + 1, !.posts = @ \ {k}]
    /\ UNCHANGED <<stored, changes, tick, diagnosed, ack, handler, wire, client, shown, list,
                   asks, asked, figures, page>>

-----------------------------------------------------------------------------
(* Writers of the rows.                                                      *)

\* The recorder, a remediation or another process.
RowChanges(i, s) ==
    /\ changes < mode.changes
    /\ i \in mode.rows /\ stored[i].status # s /\ (stored[i] = Absent => s = "open")
    /\ stored' = [stored EXCEPT ![i].status = s]
    /\ changes' = changes + 1
    /\ UNCHANGED <<tick, diagnosed, ack, handler, wire, client, shown, list, asks, asked,
                   figures, page, hook>>

AckReads(a, i) ==
    /\ a \in mode.acks /\ ack[a].at = "idle" /\ Matches(stored[i], "all")
    /\ mode.signedIn  \* mayRemediateHere
    /\ ack' = [ack EXCEPT ![a] = [at |-> "read", read |-> stored[i], of |-> i]]
    /\ UNCHANGED <<stored, changes, tick, diagnosed, handler, wire, client, shown, list, asks,
                   asked, figures, page, hook>>

\* The whole row it read goes back.
AckSaves(a) ==
    /\ ack[a].at = "read"
    /\ LET saved == [ack[a].read EXCEPT !.status = "acknowledged"]
       IN /\ stored' = [stored EXCEPT ![ack[a].of] = saved]
          /\ ack' = [ack EXCEPT ![a].at = "saved", ![a].read = saved]
    /\ UNCHANGED <<changes, tick, diagnosed, handler, wire, client, shown, list, asks,
                   asked, figures, page, hook>>

AckPublishes(a) ==
    /\ ack[a].at = "saved"
    /\ Publish(<<Event("updated", ack[a].of, ack[a].read)>>)
    /\ ack' = [ack EXCEPT ![a].at = "done"]
    /\ UNCHANGED <<stored, changes, tick, diagnosed, handler, client, shown, list, asks,
                   asked, figures, page>>

-----------------------------------------------------------------------------
(* BlackboxRuntime.tick: what was there before, the recorder's work, the     *)
(* rows as they are after it, published; then an explanation of those that   *)
(* have none, and the counters.                                              *)
Goes(t, s) == [tick[t] EXCEPT !.at = s]
TickStep(t, from, next) == t \in mode.timers /\ tick[t].at = from /\ tick' = [tick EXCEPT ![t] = next]
RestOfFeed == <<changes, ack, handler, client, shown, list, asks, asked, figures, page>>

TickStarts(t) ==
    /\ TickStep(t, "idle", [Goes(t, "work") EXCEPT !.before = StoredIn(stored)])
    /\ \A c \in Connections : Len(wire[c]) <= MaxWire
    /\ mode.types # {} => hook.offered < MaxEvents
    /\ UNCHANGED <<stored, diagnosed, wire, hook, RestOfFeed>>

\* scanner.tick and recorder.tick have returned; what they wrote is RowChanges.
TickLists(t) ==
    /\ TickStep(t, "work", [Goes(t, "publish") EXCEPT !.after = stored])
    /\ UNCHANGED <<stored, diagnosed, wire, hook, RestOfFeed>>

TickPublishesNew(t) ==
    LET fresh == {i \in StoredIn(tick[t].after) : i \notin tick[t].before}
    IN /\ TickStep(t, "publish", [Goes(t, "explain") EXCEPT
             !.left = {i \in StoredIn(tick[t].after) : ~tick[t].after[i].explained} \ diagnosed])
       /\ Publish([k \in 1..Cardinality(fresh) |->
             LET i == SetToSeq(fresh)[k] IN Event("created", i, tick[t].after[i])])
       /\ UNCHANGED <<stored, diagnosed, RestOfFeed>>
TickPublishes(t) ==
    LET after == tick[t].after
        kind(i) == IF i \in tick[t].before THEN "updated" ELSE "created"
    IN /\ TickStep(t, "publish", [Goes(t, "explain") EXCEPT
             !.left = {i \in StoredIn(after) : ~after[i].explained} \ diagnosed])
       /\ Publish([k \in 1..Cardinality(StoredIn(after)) |->
             LET i == SetToSeq(StoredIn(after))[k] IN Event(kind(i), i, after[i])])
       /\ UNCHANGED <<stored, diagnosed, RestOfFeed>>

\* An id is marked before the model is asked, so a failure is not tried again.
ExplainBegins(t, i) ==
    /\ i \in tick[t].left
    /\ TickStep(t, "explain", [Goes(t, "asking") EXCEPT !.left = @ \ {i}, !.of = i])
    /\ diagnosed' = diagnosed \union {i}
    /\ UNCHANGED <<stored, wire, hook, RestOfFeed>>

Explained(t) == [tick[t].after[tick[t].of] EXCEPT !.explained = TRUE]

ExplainSaves(t) ==
    /\ TickStep(t, "asking", Goes(t, "saved"))
    /\ stored' = [stored EXCEPT ![tick[t].of] = Explained(t)]
    /\ UNCHANGED <<diagnosed, wire, hook, RestOfFeed>>

ExplainFails(t) ==
    /\ TickStep(t, "asking", Goes(t, "explain"))
    /\ UNCHANGED <<stored, diagnosed, wire, hook, RestOfFeed>>

ExplainPublishes(t) ==
    /\ TickStep(t, "saved", Goes(t, "explain"))
    /\ Publish(<<Event("updated", tick[t].of, Explained(t))>>)
    /\ UNCHANGED <<stored, diagnosed, RestOfFeed>>

TickCounts(t) ==
    /\ tick[t].left = {}
    /\ TickStep(t, "explain", [Goes(t, "counted") EXCEPT !.count = OpenCount(stored)])
    /\ UNCHANGED <<stored, diagnosed, wire, hook, RestOfFeed>>

TickEnds(t) ==
    /\ TickStep(t, "counted", Idle)
    /\ Publish(<<Figures(tick[t].count)>>)
    /\ UNCHANGED <<stored, diagnosed, RestOfFeed>>

\* A read or a write of the database failed: the tick is over, the next is not.
TickFails(t) ==
    /\ mode.faults /\ t \in mode.timers /\ tick[t].at \in {"work", "publish"} /\ changes < mode.changes
    /\ tick' = [tick EXCEPT ![t] = Idle]
    /\ changes' = changes + 1  \* bounded with the changes
    /\ UNCHANGED <<stored, diagnosed, wire, hook, ack, handler, client, shown, list, asks, asked,
                   figures, page>>

-----------------------------------------------------------------------------
(* The stream.  The server answers at once and subscribes once it knows who  *)
(* is calling; what is published in between is for nobody.                   *)
Now == client.c

StreamConnectsOnce ==
    /\ client.state = "waiting" /\ Now = 0 /\ Now < mode.connections
    /\ client' = [client EXCEPT !.state = "opening", !.c = @ + 1]
    /\ handler' = [handler EXCEPT ![Now + 1] = "resolving"]
    /\ UNCHANGED <<stored, changes, tick, diagnosed, ack, wire, shown, list, asks, asked,
                   figures, page, hook>>
StreamConnects ==
    /\ client.state = "waiting" /\ Now < mode.connections
    /\ client' = [client EXCEPT !.state = "opening", !.c = @ + 1]
    /\ handler' = [handler EXCEPT ![Now + 1] = "resolving"]
    /\ UNCHANGED <<stored, changes, tick, diagnosed, ack, wire, shown, list, asks, asked,
                   figures, page, hook>>

Subscribes(c) ==
    /\ handler[c] \in {"resolving", "gone"}
    \* A close that came before its listener was registered is never heard.
    /\ handler' = [handler EXCEPT ![c] = IF @ = "gone" THEN "left" ELSE "subscribed"]
    /\ UNCHANGED <<stored, changes, tick, diagnosed, ack, wire, client, shown, list, asks,
                   asked, figures, page, hook>>

\* Any connection but the last may be lost: the mode bounds the losses.
StreamDrops ==
    /\ client.state \in {"opening", "connected"} /\ Now < mode.connections
    /\ client' = [client EXCEPT !.state = "waiting"]
    /\ handler' = [handler EXCEPT ![Now] = IF @ = "subscribed" THEN "closed" ELSE "gone"]
    /\ wire' = [wire EXCEPT ![Now] = <<>>]
    /\ UNCHANGED <<stored, changes, tick, diagnosed, ack, shown, list, asks, asked, figures,
                   page, hook>>

-----------------------------------------------------------------------------
(* The console's store.                                                      *)

\* loadIncidents: only the newest request may write.
Loads(filter) ==
    /\ list.ticket < MaxRequests
    /\ list' = [list EXCEPT !.filter = filter, !.ticket = @ + 1,
                            !.status = IF @ = "ready" THEN "ready" ELSE "loading"]
    /\ asks' = [asks EXCEPT ![list.ticket + 1] = [NoAsk EXCEPT !.at = "sent", !.filter = filter]]

\* loadStats keeps no ticket; one answer on its way at a time here.
LoadsFigures == figures' = [figures EXCEPT !.at = "sent"]

StreamOpens ==
    /\ client.state = "opening"
    /\ client' = [client EXCEPT !.state = "connected", !.opened = TRUE]
    /\ IF client.opened THEN Loads(list.filter) /\ LoadsFigures
       ELSE UNCHANGED <<list, asks, figures>>
    /\ UNCHANGED <<stored, changes, tick, diagnosed, ack, handler, wire, shown, asked, page, hook>>

SetFilters(filter) ==
    /\ asked < mode.asked
    /\ list.ticket = 0 \/ filter # list.filter
    /\ asked' = asked + 1
    /\ Loads(filter)
    /\ UNCHANGED <<stored, changes, tick, diagnosed, ack, handler, wire, client, shown, figures,
                   page, hook>>

Refresh ==
    /\ list.ticket > 0 /\ asked < mode.asked
    /\ asked' = asked + 1
    /\ Loads(list.filter) /\ LoadsFigures
    /\ UNCHANGED <<stored, changes, tick, diagnosed, ack, handler, wire, client, shown, page, hook>>

ListIsRead(k) ==
    /\ asks[k].at = "sent"
    /\ asks' = [asks EXCEPT ![k].at = "read", ![k].rows = Listing(asks[k].filter)]
    /\ UNCHANGED <<stored, changes, tick, diagnosed, ack, handler, wire, client, shown, list,
                   asked, figures, page, hook>>

ListArrivesLate(k) ==
    /\ asks[k].at = "read"
    /\ asks' = [asks EXCEPT ![k] = NoAsk]
    /\ shown' = asks[k].rows /\ list' = [list EXCEPT !.status = "ready"]
    /\ UNCHANGED <<stored, changes, tick, diagnosed, ack, handler, wire, client, asked, figures,
                   page, hook>>
ListArrives(k) ==
    /\ asks[k].at = "read"
    /\ asks' = [asks EXCEPT ![k] = NoAsk]
    /\ IF k = list.ticket
       THEN shown' = asks[k].rows /\ list' = [list EXCEPT !.status = "ready"]
       ELSE UNCHANGED <<shown, list>>
    /\ UNCHANGED <<stored, changes, tick, diagnosed, ack, handler, wire, client, asked, figures,
                   page, hook>>

ListFails(k) ==
    /\ mode.faults /\ asks[k] # NoAsk
    /\ asks' = [asks EXCEPT ![k] = NoAsk]
    /\ list' = IF k = list.ticket THEN [list EXCEPT !.status = "error"] ELSE list
    /\ UNCHANGED <<stored, changes, tick, diagnosed, ack, handler, wire, client, shown, asked,
                   figures, page, hook>>

\* A fetch counts what its caller may read; the tick's event counts everything.
FiguresAreRead ==
    /\ figures.at = "sent"
    /\ figures' = [figures EXCEPT !.at = "read", !.coming = OpenCount(Listing("all"))]
    /\ UNCHANGED <<stored, changes, tick, diagnosed, ack, handler, wire, client, shown, list,
                   asks, asked, page, hook>>

FiguresArrive ==
    /\ figures.at = "read"
    /\ \/ figures' = [shown |-> figures.coming, at |-> "none", coming |-> 0]
       \/ mode.faults /\ figures' = [figures EXCEPT !.at = "none", !.coming = 0]
    /\ UNCHANGED <<stored, changes, tick, diagnosed, ack, handler, wire, client, shown, list,
                   asks, asked, page, hook>>

UpsertUnfiltered(e) == [shown EXCEPT ![e.of] = e.r]
\* upsert: a row that no longer belongs in the view is taken out of it.
Upsert(e) == [shown EXCEPT ![e.of] = IF Matches(e.r, list.filter) THEN e.r ELSE Absent]

FreeSlot == CHOOSE s \in Slots : page.reads[s] = NoRead
\* touch: the page that shows the incident reads it again, once it has loaded.
Touched(e) ==
    IF e.of = Page /\ page.loaded
    THEN [page EXCEPT !.reads[FreeSlot].at = "sent"] ELSE page

\* A page with both reads outstanding takes no event: Slots bounds them.
EventArrives ==
    /\ client.state = "connected" /\ wire[Now] # <<>>
    /\ \E s \in Slots : page.reads[s] = NoRead
    /\ wire' = [wire EXCEPT ![Now] = Tail(@)]
    /\ LET e == Head(wire[Now])
       IN IF e.type = "stats"
          THEN figures' = [figures EXCEPT !.shown = e.n] /\ UNCHANGED <<shown, page>>
          ELSE shown' = Upsert(e) /\ page' = Touched(e) /\ UNCHANGED figures
    /\ UNCHANGED <<stored, changes, tick, diagnosed, ack, handler, client, list, asks, asked, hook>>

-----------------------------------------------------------------------------
(* The detail page.  A read that fails before the first success leaves the   *)
(* page in its error: nothing reads it again.                                *)
PageOpens ==
    /\ mode.page /\ stored[Page] # Absent
    /\ page.shown = Absent /\ ~page.loaded /\ page.reads[1] = NoRead
    /\ page' = [page EXCEPT !.reads[1].at = "sent"]
    /\ UNCHANGED <<stored, changes, tick, diagnosed, ack, handler, wire, client, shown, list,
                   asks, asked, figures, hook>>

PageIsRead(s) ==
    /\ page.reads[s].at = "sent"
    /\ page' = [page EXCEPT !.reads[s] = [at |-> "read", row |-> stored[Page]]]
    /\ UNCHANGED <<stored, changes, tick, diagnosed, ack, handler, wire, client, shown, list,
                   asks, asked, figures, hook>>

PageArrives(s) ==
    /\ page.reads[s].at = "read"
    /\ page' = [page EXCEPT !.shown = page.reads[s].row, !.loaded = TRUE, !.reads[s] = NoRead]
    /\ UNCHANGED <<stored, changes, tick, diagnosed, ack, handler, wire, client, shown, list,
                   asks, asked, figures, hook>>

PageFails(s) ==
    /\ mode.faults /\ page.reads[s] # NoRead /\ changes < mode.changes
    /\ page' = [page EXCEPT !.reads[s] = NoRead]
    /\ changes' = changes + 1  \* bounded with the changes
    /\ UNCHANGED <<stored, tick, diagnosed, ack, handler, wire, client, shown, list, asks, asked,
                   figures, hook>>

-----------------------------------------------------------------------------
TickNext(t) ==
    \/ TickStarts(t) \/ TickLists(t) \/ TickPublishes(t)
    \/ \E i \in Incidents : ExplainBegins(t, i)
    \/ ExplainSaves(t) \/ ExplainFails(t) \/ ExplainPublishes(t)
    \/ TickCounts(t) \/ TickEnds(t)
AckNext(a) == AckSaves(a) \/ AckPublishes(a)
ListNext(k) == ListIsRead(k) \/ ListArrives(k)
PageNext(s) == PageIsRead(s) \/ PageArrives(s)
StreamNext == StreamConnects \/ StreamOpens \/ EventArrives \/ \E c \in Connections : Subscribes(c)

FeedNext ==
    /\ UNCHANGED mode
    /\ \/ \E t \in Ticks : TickNext(t) \/ TickFails(t)
       \/ \E i \in Incidents, s \in Statuses : RowChanges(i, s)
       \/ \E a \in Acks : AckNext(a) \/ \E i \in Incidents : AckReads(a, i)
       \/ StreamNext \/ StreamDrops
       \/ \E k \in Requests : ListNext(k) \/ ListFails(k)
       \/ \E f \in mode.filters : SetFilters(f)
       \/ Refresh \/ FiguresAreRead \/ FiguresArrive
       \/ PageOpens \/ \E s \in Slots : PageNext(s) \/ PageFails(s)
       \/ \E k \in hook.posts : PostEnds(k)

\* The timer fires again and again, requests and calls come back, and a lost
\* stream is opened anew.
FeedFairness ==
    /\ \A t \in Ticks : WF_<<mode, fvars>>(TickNext(t) /\ UNCHANGED mode)
    /\ \A a \in Acks : WF_<<mode, fvars>>(AckNext(a) /\ UNCHANGED mode)
    /\ \A k \in Requests : WF_<<mode, fvars>>(ListNext(k) /\ UNCHANGED mode)
    /\ \A s \in Slots : WF_<<mode, fvars>>(PageNext(s) /\ UNCHANGED mode)
    /\ WF_<<mode, fvars>>((FiguresAreRead \/ FiguresArrive) /\ UNCHANGED mode)
    /\ WF_<<mode, fvars>>(StreamConnects /\ UNCHANGED mode)
    /\ WF_<<mode, fvars>>(StreamOpens /\ UNCHANGED mode)
    /\ WF_<<mode, fvars>>(EventArrives /\ UNCHANGED mode)
    /\ \A c \in Connections : WF_<<mode, fvars>>(Subscribes(c) /\ UNCHANGED mode)

-----------------------------------------------------------------------------
FeedTypeOK ==
    /\ \A i \in Incidents : stored[i].status \in Statuses \union {"none"}
    /\ list.status \in {"idle", "loading", "ready", "error"}
    /\ client.state \in {"waiting", "opening", "connected"}
    /\ \A c \in Connections :
          handler[c] \in {"none", "resolving", "subscribed", "closed", "gone", "left"}

\* A list that says it is ready, and waits for no newer answer, shows only
\* what matches the reader's filter, whatever order fetches and events came in.
ShownAnswersTheFilter ==
    list.status = "ready" /\ (\A k \in Requests : k = list.ticket => asks[k] = NoAsk) =>
        \A i \in Incidents : shown[i] # Absent => Matches(shown[i], list.filter)

\* The webhook's counters say what really happened to every event offered: it
\* was dropped at the ceiling, has ended, or is one of the posts outstanding.
PostsAreCounted ==
    /\ hook.inFlight = Cardinality(hook.posts)
    /\ hook.inFlight <= Ceiling
    /\ hook.offered = hook.dropped + hook.ended + hook.inFlight

\* Once nobody writes any more, the console comes to show what is stored of
\* the incidents everybody may read, and goes on showing it: the list what
\* matches its filter, the detail page its incident, the counters the count.
\* A tick repairs whatever was lost, stale or out of order before it.
Caught(i) == shown[i] = IF Matches(stored[i], list.filter) THEN stored[i] ELSE Absent
FeedCaughtUp ==
    /\ \A i \in Public : Caught(i)
    /\ page.loaded => page.shown = stored[Page]
    /\ figures.shown = OpenCount(stored)
FeedCatchesUp == mode.connections > 0 /\ mode.timers # {} => <>[]FeedCaughtUp

-----------------------------------------------------------------------------
(* What the code does not keep; see the README.                              *)

\* A row its owner alone may read is in the list after a fetch, and no event
\* ever changes it there: the stream knows no session (app.ts:2092).
OwnersCatchUp ==
    mode.connections > 0 /\ mode.signedIn => <>[](\A i \in Incidents : Caught(i))

\* store/index.ts:363: a caller-scoped console "must pass its own list, or the
\* numbers describe other people's failures"; stats.updated passes none.
FiguresAreTheReaders == figures.shown <= Cardinality({i \in Incidents : Readable(i)})

\* A stream whose reader left while it was being resolved is subscribed for ever.
NoSubscriberIsLeft == \A c \in Connections : handler[c] # "left"

\* store.ts:19: "The list holds exactly the incidents matching the current filters".
ListIsOfTheFilter ==
    list.status = "ready" => \A i \in Incidents : shown[i] # Absent => Matches(shown[i], list.filter)
=============================================================================
