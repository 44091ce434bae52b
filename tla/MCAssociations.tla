--------------------------- MODULE MCAssociations ---------------------------
(***************************************************************************)
(* The worlds of the runs of PostHandshake: a Listener with what reaches   *)
(* it, or an established pair with the calls its applications make and the *)
(* faults of its network.                                                  *)
(***************************************************************************)
EXTENDS PostHandshake

MCCIDs == {<<1>>, <<1, 1>>, <<2>>, <<3>>}
MCAddresses == {"a1", "a2"}

\* A Listener that has met nobody.
Alone ==
    [established |-> FALSE, address |-> "a1", cid |-> <<>>, generated |-> {<<>>},
     cids |-> {<<1>>, <<1, 1>>}, sessions |-> 1, max |-> 2, arrivals |-> 3, ends |-> 3,
     peer |-> FALSE, calls |-> {}, losses |-> 0, timeouts |-> 0, records |-> 12,
     fresh |-> {}, spares |-> <<>>, long |-> {}, ticketRequest |-> <<>>, maxData |-> 2,
     certificate |-> FALSE, required |-> FALSE, challenge |-> 1]
SomeIDs == {<< <<1>> >>, << <<1, 1>> >>}
TwoClients == [Alone EXCEPT !.sessions = 2, !.arrivals = 2, !.ends = 1]
WithClient == [TwoClients EXCEPT !.established = TRUE, !.cid = << <<1>> >>]
ListenerWorlds ==
    <<Alone,
      [Alone EXCEPT !.generated = {<< <<>> >>}],
      [TwoClients EXCEPT !.generated = SomeIDs, !.ends = 0],
      [TwoClients EXCEPT !.max = 1],
      [WithClient EXCEPT !.generated = {<< <<>> >>, << <<1, 1>> >>}],
      [WithClient EXCEPT !.sessions = 1, !.ends = 3]>>

\* An established pair, and what it does.
Pair ==
    [Alone EXCEPT !.established = TRUE, !.cid = << <<1>> >>, !.arrivals = 0, !.ends = 0,
                  !.cids = {}, !.peer = TRUE]
Tickets ==
    [Pair EXCEPT !.calls = {"ticket", "serverData", "take"}, !.losses = 1, !.timeouts = 1,
                 !.long = {"ticket"}]
TicketWorlds ==
    <<[Tickets EXCEPT !.losses = 0],
      [Tickets EXCEPT !.ticketRequest = <<1>>]>>
AuthWorlds ==
    <<[Pair EXCEPT !.calls = {"auth"}, !.losses = 1, !.timeouts = 1],
      [Pair EXCEPT !.calls = {"auth", "clientData", "read"}],
      [Pair EXCEPT !.calls = {"auth", "clientData"}, !.certificate = TRUE, !.records = 5],
      [Pair EXCEPT !.calls = {"auth"}, !.required = TRUE],
      [Pair EXCEPT !.calls = {"auth", "auth again"}, !.records = 7]>>
IDWorlds ==
    <<[Pair EXCEPT !.calls = {"requestCIDs", "useNext"}, !.losses = 1, !.timeouts = 1,
                   !.fresh = {<<1, 1>>, <<2>>}],
      [Pair EXCEPT !.calls = {"requestCIDs", "newCIDs", "useNext"}, !.timeouts = 1,
                   !.fresh = {<<2>>, <<3>>}],
      [Pair EXCEPT !.calls = {"newCIDs", "useNext"}, !.losses = 1, !.timeouts = 1,
                   !.fresh = {<<2>>, <<3>>}, !.long = {"newCID"}]>>
Roaming == [Pair EXCEPT !.calls = {"move", "clientData"}, !.spares = << <<4>> >>, !.records = 6]
PathWorlds ==
    <<[Roaming EXCEPT !.calls = @ \cup {"stray"}, !.losses = 1, !.records = 12],
      [Roaming EXCEPT !.calls = @ \cup {"stray"}, !.challenge = 4],
      [Roaming EXCEPT !.sessions = 2, !.arrivals = 1, !.generated = {<< <<2>> >>}],
      [Roaming EXCEPT !.calls = @ \cup {"close"}, !.ends = 1, !.records = 5]>>
Flood ==
    [Pair EXCEPT !.calls = {"serverData", "serverData again", "read", "close"}, !.losses = 1]
Held ==
    [Pair EXCEPT !.calls = {"ticket", "serverData", "serverData again"}, !.long = {"ticket"}]
TrafficWorlds ==
    <<Flood,
      Held,
      [Held EXCEPT !.maxData = 1],
      [Pair EXCEPT !.calls = {"keyUpdate", "serverData"}, !.losses = 1, !.timeouts = 1],
      [Pair EXCEPT !.calls = {"keyUpdate", "ticket"}, !.losses = 1, !.long = {"ticket"}],
      [Pair EXCEPT !.calls = {"keyUpdate", "auth"}]>>
MCWorlds ==
    ListenerWorlds \o TicketWorlds \o AuthWorlds \o IDWorlds \o PathWorlds \o TrafficWorlds

\* Nothing is lost and no timer runs out.
MCQuietWorlds == <<[Tickets EXCEPT !.losses = 0, !.timeouts = 0]>>
=============================================================================
