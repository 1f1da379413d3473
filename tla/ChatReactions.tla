---------------------------- MODULE ChatReactions ----------------------------
(***************************************************************************)
(* The reactions a browser shows (messageReactions of store.ts) and those  *)
(* the server stores.  A click changes the screen at once and calls the    *)
(* server; a failing call is undone by dropping the reaction; the server   *)
(* tells every member once it has committed, by an event that may be lost  *)
(* or repeated; and the list fetched whenever the conversation is loaded   *)
(* is appended to what the store has by then.                              *)
(*                                                                         *)
(* Which emoji are on offer is EmojiPicker's; any one may be found there.  *)
(***************************************************************************)
EXTENDS Naturals, Sequences, FiniteSets, SequencesExt

CONSTANTS
  Users, Me,     \* who may react
  Messages,      \* the messages of the conversation on screen
  Emojis,        \* what they may react with
  NoEmoji,       \* no reaction
  MaxChanges,    \* bound: changes made to the reactions, and further loads
  MaxCalls,      \* bound: own calls in flight
  MaxNews        \* bound: events on the WebSocket when one is repeated

ReactionsAssumption ==
  /\ Me \in Users /\ IsFiniteSet(Users)
  /\ NoEmoji \notin Emojis
  /\ MaxChanges \in Nat /\ MaxCalls \in Nat /\ MaxNews \in Nat

VARIABLES
  stored,      \* the server: the reaction of each user to each message
  unsaid,      \* changes committed whose broadcasting has not ended
  news,        \* events on the WebSocket, in order
  reacting,    \* own calls not answered yet
  reactions,   \* messageReactions: a sequence of [user, emoji] per message
  fetching,    \* the listings under way, one of each load: the messages
               \* answered, their reactions, and what changed on screen since
  deleting,    \* messages whose deletion is in flight
  gone,        \* messages deleted
  changes,     \* bound: changes so far
  disturbed    \* history: [msg, user] whose changes met one of the causes below

server == <<stored, unsaid>>
vars == <<stored, unsaid, news, reacting, reactions, fetching, deleting, gone, changes, disturbed>>

Pairs == [msg: Messages, user: Users]
None == [p \in Pairs |-> NoEmoji]
\* The listing of the n-th load, whose messages are all but those of S.
Listing(n, S) == [n |-> n, got |-> S, said |-> None, touched |-> {}]

Init ==
  /\ stored \in {[p \in Pairs |-> IF p.user = Me THEN NoEmoji ELSE e]: e \in Emojis \cup {NoEmoji}}
  /\ unsaid = {} /\ news = <<>> /\ reacting = {}
  /\ reactions = [m \in Messages |-> <<>>]
  /\ fetching = {Listing(0, {})}
  /\ deleting = {} /\ gone = {}
  /\ changes = 0
  /\ disturbed = {}

-----------------------------------------------------------------------------
(* updateReactionUI: the user's reactions to the message become e. *)

\* Positions in increasing order, and what a filter leaves of a sequence.
Increasing(S) == CHOOSE s \in SetToSeqs(S): \A i, j \in DOMAIN s: i < j => s[i] < s[j]
WithoutUser(rs, u) ==
  LET kept == Increasing({i \in DOMAIN rs: rs[i].user # u}) IN [k \in DOMAIN kept |-> rs[kept[k]]]

Touch(m, u) == fetching' = {[l EXCEPT !.touched = @ \cup {[msg |-> m, user |-> u]}]: l \in fetching}

\* mutant: the reaction the user had stays.
AddReactionUI(m, u, e) ==
  /\ reactions' = [reactions EXCEPT ![m] =
                     IF e = NoEmoji THEN WithoutUser(@, u) ELSE Append(@, [user |-> u, emoji |-> e])]
  /\ Touch(m, u)

UpdateReactionUI(m, u, e) ==
  /\ reactions' = [reactions EXCEPT ![m] =
                     IF e = NoEmoji THEN WithoutUser(@, u)
                     ELSE Append(WithoutUser(@, u), [user |-> u, emoji |-> e])]
  /\ Touch(m, u)

\* onToggleReaction: the reaction one already has is taken back, any other
\* one takes its place.
Toggle(m, e) ==
  LET rs == reactions[m]
      mine == {i \in DOMAIN rs: rs[i].user = Me}
      wanted == IF \E i \in mine: rs[i].emoji = e /\ \A j \in mine: i <= j THEN NoEmoji ELSE e
  IN  /\ m \notin gone \cup deleting
      /\ changes < MaxChanges /\ changes' = changes + 1
      /\ Cardinality(reacting) < MaxCalls
      /\ reacting' = reacting \cup {[msg |-> m, emoji |-> wanted, n |-> changes, served |-> FALSE]}
      /\ UpdateReactionUI(m, Me, wanted)
      /\ UNCHANGED <<server, news, deleting, gone>>

\* A second change of the user while the call or the event of the first is
\* under way: their order at the server, and that of the events, is open.
Overtaking(p, busy) == disturbed' = IF busy THEN disturbed \cup {p} ELSE disturbed

\* A quick reaction, a counter under the message, or an emoji of the picker.
React(m, e) ==
  /\ Toggle(m, e)
  /\ Overtaking([msg |-> m, user |-> Me],
                \/ \E c \in reacting: c.msg = m
                \/ \E x \in unsaid: x.msg = m /\ x.user = Me)

\* The message leaves the store with its reactions, and a failing call puts
\* only the message back.
DeleteMessage(m) ==
  /\ m \notin gone \cup deleting
  /\ deleting' = deleting \cup {m}
  /\ reactions' = [reactions EXCEPT ![m] = <<>>]
  /\ UNCHANGED <<server, news, reacting, fetching, gone, changes, disturbed>>

DeleteEnds(m, failed) ==
  /\ m \in deleting /\ deleting' = deleting \ {m}
  /\ IF failed THEN disturbed' = disturbed \cup {p \in Pairs: p.msg = m} /\ UNCHANGED gone
               ELSE gone' = gone \cup {m} /\ UNCHANGED disturbed
  /\ UNCHANGED <<server, news, reacting, reactions, fetching, changes>>

-----------------------------------------------------------------------------
(* The server: a row per message and user, then an event. *)

Commit(m, u, e) ==
  /\ stored' = [stored EXCEPT ![[msg |-> m, user |-> u]] = e]
  /\ unsaid' = unsaid \cup {[msg |-> m, user |-> u, emoji |-> e, n |-> changes]}

Serve(call) ==
  /\ ~call.served
  /\ stored' = [stored EXCEPT ![[msg |-> call.msg, user |-> Me]] = call.emoji]
  /\ unsaid' = unsaid \cup {[msg |-> call.msg, user |-> Me, emoji |-> call.emoji, n |-> call.n]}
  /\ reacting' = (reacting \ {call}) \cup {[call EXCEPT !.served = TRUE]}
  /\ UNCHANGED <<news, reactions, fetching, deleting, gone, changes, disturbed>>

OthersReact(m, u, e) ==
  /\ u # Me /\ e # stored[[msg |-> m, user |-> u]]
  /\ changes < MaxChanges /\ changes' = changes + 1
  /\ Commit(m, u, e)
  /\ Overtaking([msg |-> m, user |-> u], \E x \in unsaid: x.msg = m /\ x.user = u)
  /\ UNCHANGED <<news, reacting, reactions, fetching, deleting, gone>>

\* An attempt reaches the gateway; when its answer is late, another follows.
Broadcast(x, again) ==
  /\ again => Len(news) < MaxNews
  /\ unsaid' = IF again THEN unsaid ELSE unsaid \ {x}
  /\ news' = Append(news, x)
  /\ UNCHANGED <<stored, reacting, reactions, fetching, deleting, gone, changes, disturbed>>

\* The attempts fail, or the gateway reaches no socket of the browser: nobody
\* sends the event later.
Lose(x) ==
  /\ unsaid' = unsaid \ {x}
  /\ disturbed' = disturbed \cup {[msg |-> x.msg, user |-> x.user]}
  /\ UNCHANGED <<stored, news, reacting, reactions, fetching, deleting, gone, changes>>

\* addReaction only undoes what it did to the screen, as the reaction the user
\* had before is not remembered; removeReaction leaves the screen alone.
Answered(call, failed) ==
  /\ failed \/ call.served
  /\ reacting' = reacting \ {call}
  /\ IF failed /\ call.emoji # NoEmoji THEN UpdateReactionUI(call.msg, Me, NoEmoji)
                                       ELSE UNCHANGED <<reactions, fetching>>
  /\ disturbed' = IF failed THEN disturbed \cup {[msg |-> call.msg, user |-> Me]} ELSE disturbed
  /\ UNCHANGED <<server, news, deleting, gone, changes>>

\* reaction_added and reaction_removed
Receive ==
  /\ news # <<>> /\ news' = Tail(news)
  /\ UpdateReactionUI(Head(news).msg, Head(news).user, Head(news).emoji)
  /\ UNCHANGED <<server, reacting, deleting, gone, changes, disturbed>>

-----------------------------------------------------------------------------
(* A listing, one call per message, appended once all have been answered.   *)

\* The conversation is selected again with no message: the first load is on
\* its way, or a refresh or deletions emptied it. A message deleted is not
\* listed, nor one whose deletion is served.
LoadAgain ==
  /\ changes < MaxChanges /\ changes' = changes + 1
  /\ \E S \in SUBSET deleting: fetching' = fetching \cup {Listing(changes + 1, gone \cup S)}
  /\ UNCHANGED <<server, news, reacting, reactions, deleting, gone, disturbed>>

ListReactions(l, m) ==
  /\ m \notin l.got
  /\ fetching' = (fetching \ {l}) \cup
       {[l EXCEPT !.got = @ \cup {m},
                  !.said = [p \in Pairs |-> IF p.msg = m THEN stored[p] ELSE @[p]],
                  !.touched = {p \in @: p.msg # m}]}
  /\ UNCHANGED <<server, news, reacting, reactions, deleting, gone, changes, disturbed>>

\* The reactions that were listed, those of a message in any order.
Entries(l, m) ==
  SetToSeq({[user |-> p.user, emoji |-> l.said[p]]:
              p \in {q \in Pairs: q.msg = m /\ l.said[q] # NoEmoji}})

Listed(l) ==
  /\ l.got = Messages
  /\ fetching' = fetching \ {l}
  /\ reactions' = [m \in Messages |-> reactions[m] \o Entries(l, m)]
  /\ disturbed' = disturbed \cup l.touched
                    \cup {p \in Pairs: \E i \in DOMAIN reactions[p.msg]: reactions[p.msg][i].user = p.user}
  /\ UNCHANGED <<server, news, reacting, deleting, gone, changes>>

ListingFailed(l) ==
  /\ fetching' = fetching \ {l}
  /\ disturbed' = IF l.n = 0 THEN Pairs ELSE disturbed
  /\ UNCHANGED <<server, news, reacting, reactions, deleting, gone, changes>>

Next ==
  \/ \E m \in Messages, e \in Emojis: React(m, e)
  \/ \E m \in Messages: DeleteMessage(m)
  \/ \E m \in Messages, failed \in BOOLEAN: DeleteEnds(m, failed)
  \/ \E call \in reacting: Serve(call)
  \/ \E call \in reacting, failed \in BOOLEAN: Answered(call, failed)
  \/ \E m \in Messages, u \in Users, e \in Emojis \cup {NoEmoji}: OthersReact(m, u, e)
  \/ \E x \in unsaid, again \in BOOLEAN: Broadcast(x, again)
  \/ \E x \in unsaid: Lose(x)
  \/ Receive \/ LoadAgain
  \/ \E l \in fetching, m \in Messages: ListReactions(l, m)
  \/ \E l \in fetching: Listed(l) \/ ListingFailed(l)

Spec == Init /\ [][Next]_vars

-----------------------------------------------------------------------------
(* Properties *)

TypeOK ==
  /\ stored \in [Pairs -> Emojis \cup {NoEmoji}]
  /\ \A m \in Messages: \A i \in DOMAIN reactions[m]: reactions[m][i] \in [user: Users, emoji: Emojis]
  /\ deleting \subseteq Messages /\ gone \subseteq Messages
  /\ changes \in 0..MaxChanges /\ disturbed \subseteq Pairs

\* With no call, event or listing under way, the screen shows the reaction the
\* server has of each user, once: optimistic changes, their echoes and the
\* listings cancel out.  What breaks this is recorded: a failing call, a change
\* while one of the same user is under way, a lost event, a failing deletion or
\* first listing, and a listing applied over a reaction that is on screen
\* already (it shows twice) or changed since the listing was answered.
ReactionsAgree ==
  unsaid = {} /\ news = <<>> /\ reacting = {} /\ fetching = {} =>
    \A p \in Pairs \ disturbed:
      p.msg \notin gone \cup deleting =>
        LET rs == reactions[p.msg]
            of == {i \in DOMAIN rs: rs[i].user = p.user}
        IN  IF stored[p] = NoEmoji THEN of = {} ELSE \E i \in of: of = {i} /\ rs[i].emoji = stored[p]
=============================================================================
