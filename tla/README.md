# A TLA+ verification of go-dtls

go-dtls is a DTLS 1.3 endpoint: a client and a server `Conn`, and a `Listener`
that multiplexes server connections over one UDP socket. Everything above the
datagram socket has to work over a network that loses, duplicates, delays and
reorders; everything inside a `Conn` is shared by the application's calls, one
reader goroutine and several retransmission goroutines. This directory models
the parts where those two facts make the code hard to test, checks the models
with TLC and proves their main invariants with TLAPS.

## The system and its parts

| Part | Code | State | Operations | What is hard |
|---|---|---|---|---|
| Record protection | `protected_record.go`, `replay.go` | next sequence, replay window, failure count | seal, open | truncated numbers, reordering, limits |
| Epochs and key updates | `traffic_update.go`, `epoch.go`, `post_handshake.go`, `conn.go`, `conn_dispatch.go` | sending and receiving traffic, pending update, deferred answer | SendKeyUpdate, automatic updates, ACK, retransmission | crossing updates, lost ACKs, two-bit epochs, write errors |
| Handshake flights | `flight.go`, `handshake_driver.go`, `handshake_inbox.go`, `handshake.go` | records sent and acknowledged, window, reassembly, inbox | send, retransmit, refragment, acknowledge, deliver | lost ACKs, MTU changes in mid-flight, messages out of order |
| Handshake state machines | `handshake_client.go`, `handshake_server.go` | stage, transcript, keys | one step per message | HelloRetryRequest, resumption, client authentication |
| Address validation | `amplification.go`, `cookie.go`, `hello_retry.go` | bytes received and sent | read, write, validate | silent suppression |
| Return routability | `return_routability.go` | phase, challenge, timer generation, budget | observe, challenge, response, expire | late timers, path changes in mid-check |
| Connection IDs | `connection_id.go` | local and peer IDs, pending flights | send, request, use, acknowledge | lost answers, retirement |
| Listener | `listener.go` | session table, CID table, accept queue | read loop, Accept, rebind, Close | close against accept, stale lookups |
| Connection lifecycle | `conn.go`, `early_io.go` | queues, deadlines, end state | Handshake, Read, Write, Close | all of them at once |
| Post-handshake authentication | `post_handshake_auth.go` | contexts, stage | request, answer | order against application data |
| Sessions and tickets | `session.go`, `external_psk.go` | caches, ticket flights | issue, store, take | single use, cache limits |
| Hello messages and negotiation | `hello.go`, `hello_retry.go`, `negotiate.go`, `auth_messages.go` | none of their own | encode, parse, choose | the choice made twice, before and after a retry |
| Encrypted Client Hello | `ech.go` | inner and outer hello, accepted or not | make, open, confirm | acceptance known only at the ServerHello |
| Certificates, key schedule | `auth_messages.go`, `raw_public_key.go`, `key_schedule.go`, ... | transcript, secrets | select, compute | mostly data |

`PROJECT.json` lists every component with its files and status, and the hazards
of each with the line where they bite.

The parts meet in four places. The `Listener` routes every datagram by connection
ID or address to the queue of a session, whose `Conn` reads it. `dispatchDatagramWithACK` opens a record with the
epoch its two wire bits select and hands it to the handler of its type, under
`dispatchMu`. Handlers and API calls that send hold `writeMu`, so each is atomic
with respect to the others. Retransmission goroutines wake up on timers, take
`writeMu` and look at the state they find.

## Modules

| Module | Models | Proofs |
|---|---|---|
| `KeyUpdate` | both ends of the KeyUpdate protocol | `KeyUpdateSteps`, `KeyUpdateProofs` |
| `Ratchet` | what that protocol promises, abstractly | `KeyUpdateProofs` (refinement) |
| `RecordCipher` | one direction of one epoch: sealing, opening, replay window | `RecordCipherProofs` |
| `HandshakeFlight` | the last two flights of a handshake | `HandshakeFlightProofs` |
| `HelloMessages` | the four hello messages as lists of extensions: encoding and parsing | |
| `Negotiation` | how both ends choose suite, group, PSK, protocol, types, IDs | |
| `Handshake` | the client's and the server's state machine, over the two above | `HandshakeSteps`, `HandshakeProofs` |
| `Listener` | the Listener, its sessions, and the life of their `Conn`s | `ListenerSteps`, `ListenerProofs` |
| `PostHandshake` | an established pair, whose server is a session of `Listener` | |
| `MCKeyUpdate`, `MCHandshakeFlight`, `MCHandshake`, `MCAssociations` | instances for TLC | |

### KeyUpdate

`tx[p]` is `sendingTraffic` with its cipher's counter: the epoch, the next record
number, the pending update with the numbers of all of its transmissions, the next
`message_seq`. `rx[p]` is `receivingTraffic` with its `epochSet`: the current
epoch, the epochs whose keys are held, the last update's `message_seq` and the
record numbers already opened. `timer[p]` says whether a retransmission goroutine
runs, and `responsePending[p]` is `keyUpdateResponsePending`.

The actions are `SendKeyUpdate`, the update requested after authentication
failures, `WriteDatagram` with its automatic update, the goroutine's three
outcomes when it wakes, the handlers of KeyUpdate, ACK and alert records with
their error paths, refused writes, and loss. Records stay in the network when
delivered, so every delivery can be repeated. A KeyUpdate fits one record; its
fragment, transcript and secrets are left out.

`Ratchet` has two variables per direction: the epoch the sender uses and the
newest one the receiver has. Install and Switch alternate. `RefinesRatchet` maps
`tx[p].epoch` and `rx[Other(p)].current` to them.

### RecordCipher

The sender counts; the receiver rebuilds a number from a truncated one, opens the
record under that number (the AEAD is external: it opens exactly under its own
number) and consults the window. Any record sealed so far may arrive at any time,
any number of times. `handed[n]` counts how often record n reached its handler.
`status` is the reason the receiver closed the connection, if it did. A failed
authentication near the limit requests fresh keys only if `canRequest`: not while
the handshake runs, whose receive loop requests nothing, and not while an update of
the receiver's own is pending; `hindered` counts the failures that found it so.

### HandshakeFlight

A flight is the fragmentation level, the records sent and acknowledged, and
whether it was retransmitted. The server's starts with a plaintext ServerHello,
which is never acknowledged. Record numbers are abstracted to the record and the
level: a `flightRecord` remembers all its numbers, and refragmenting forgets them.
`got[d][m]` are the bytes received of message m of d's flight; the reassembler and
the inbox (incomplete, ready, delivered) are functions of it.

The actions are sending a flight, a timeout (every third in a row lowers the MTU),
a record arriving at either end in each of the ways the receive loops tell apart
(before the keys, old, new, after the handshake), ACKs and the empty ACK, refused
writes, and loss. A record carries one fragment and a datagram one record, as
`buildProtectedFlight` and `writeFlight` make them. `failed` is set for both ends
at once: an end that returns an error sends an alert, and otherwise the other one
reaches its deadline.

### HelloMessages, Negotiation and Handshake

A hello is the sequence of its extensions. `marshal` puts in the extensions that
the code writes, under the code's conditions and in its order, and
`parseClientHello` rebuilds the fields and applies the parser's checks, so an
extension that is written but not understood, or dropped in the second hello and
expected by the server, shows. `Negotiation` has one operator per choice of
`negotiate.go`, `session.go`, `external_psk.go` and `raw_public_key.go`.

`Handshake` runs one client and one server with the configurations of a scenario.
`cl` and `sv` are `clientHandshakeState` and `serverHandshakeState` with what the
`Conn` keeps; `amp` is the `amplificationGuard`; `protector` and `now` are the
cookie keys and the clock they rotate by. There is one action per message each
end may read, one per timer, and early data. Every handler is a chain of steps of
which the first to fail decides the alert, as in the code. Keys, binders,
signatures and Finished values are the records of what they are computed from: two
ends that disagree on any input compute different values, and the message is
refused where the code would refuse it. A scenario also fixes the size of the
server's flight in ClientHellos, for the amplification limit, and how long the
second ClientHello is under way, for the age of its cookie. X.509 verification,
the verdict of the early-data replay cache and the age of a ticket (within the
tolerance, off, or negative, in which case the ticket is passed over once its binder
is verified) are inputs. Early data is counted in datagrams: those a blocking
`Handshake` buffers (`buffered`) and those in the queue of an early connection
(`queued`), which `ServerEarlyRead` takes out; the limits of
`queueEarlyApplicationData` apply in the code's order.

Two simplifications concern the amplification guard. A server's flight is one
write, sent or suppressed as a whole, where `amplificationConn` decides for each
datagram. Alerts are not charged to the guard; the code charges protected ones.

Delivery is reliable and in order here; loss, repetition, reordering and
fragments are `HandshakeFlight`'s.

### Listener

`table` holds `l.sessions`, `l.pending` and `l.cidSessions`; `sess[s]` is a
`packetSession` with its queue; `listener` is `closed`, the accept channel and
what `shutdown` has collected to close; `reader` is the datagram the read loop has
routed, with the sessions it still tries; `acceptor` is the session in `Accept`;
`conn[s]` is the `Conn` of a session: the stage of its handshake goroutine, its
record reader, the goroutines in `failConnection` and `Close`, and whether it has
traffic secrets. A step is what one goroutine does under one lock, so that the
send to a queue and the look at `closed` after it, the lookup of a session and the
push to it, the clearing of secrets and the close of the transport can each be
interrupted. The handshake itself is its outcome: validated, failed or timed out.

### PostHandshake

`end[e]` is a `Conn` after its handshake: the flights that wait for ACKs (ticket,
authentication request and answer, connection IDs, request for IDs) with all their
record numbers, the reassembler and the application data held back behind it, the
inbox of an authentication, the connection IDs, the path check with its timer
generations and budget, the key epochs and the ticket cache. `net` holds the
records. The server end is session 1 of the Listener: records reach it through the
tables, its new IDs are registered there and a proved path rebinds it there, while
the Listener goes on with other sessions.

Application data held back during reassembly is limited in records (`MaxPending`)
and bytes (`maxData` of a world), and the queue it is released into in datagrams and
bytes. A ticket beyond the requested number is acknowledged and not stored. A server
that requires a certificate fails on an answer without one.

Simplifications: a record of the client is routed, queued and dispatched in one
step; a message of an authentication answer is one record; a connection sends one
NewSessionTicket; an end does a single key update; the client answers every
challenge (the branch that drops it is there and never taken).

## Runs

| Run | Result | Shows |
|---|---|---|
| `keyupdate_epochs` | pass | keys held, ACK gate, retention, refinement through epoch 6 |
| `keyupdate_faults` | pass | types and limits, unique record numbers, every failure explained |
| `keyupdate_live` | pass | pending updates and deferred answers complete |
| `keyupdate_one_sided` | violated | two one-sided updates, neither with update_requested, end the association |
| `keyupdate_write_error` | violated | a refused first write leaves an update pending for ever |
| `record_cipher` | pass | at-most-once delivery, exact window, near records open, fresh keys requested before the failure limit closes the connection |
| `handshake_flight` | pass | sound ACKs, window, client completes last, inbox limit |
| `handshake_flight_live` | pass | the handshake completes after a loss |
| `handshake_flight_stall` | violated | lost ACKs of delivered records can stall a long flight |
| `handshake` | pass | agreement on everything negotiated, every failure explained, no mutual wait, early data, hidden inner hello, client authentication, amplification limit |
| `associations` | pass | live routes, no secrets or datagrams left behind, complete shutdown, validated replacement; routable IDs, proved paths, nothing forgotten, answered authentication, single-use tickets, every failure explained |
| `application_stall` | violated | a repeated fragment blocks application data without any loss |

Every property of a passing run has a mutant: a changed definition (a dropped
guard, an off-by-one, a forgotten reset) under which TLC finds it violated.

### What the properties allow

Some properties name the cases in which the code does less than one would like.
They are part of the result:

* `Handshake!FailuresExplained`: a client without a session cache, none of whose
  external PSKs fits the suite of the HelloRetryRequest, drops
  `psk_key_exchange_modes` with them, and the server refuses the changed hello
  (`LosesModes`). A second ClientHello that takes half a cookie lifetime or longer
  may find its key rotated out.
* `RequestedBeforeLimit`: failures during the handshake, or while an update is
  unacknowledged, can use up the whole margin; the limit then closes the connection
  without a request.
* `WindowRespected`: the window bounds what the network holds of the current
  fragments. `resizeProtected` forgets the records of the old size and opens a new
  window, whatever is still under way.
* `Handshake!FailuresExplained` also allows a server to fail when the client sends
  more early datagrams than the buffers hold (`ExceedsBuffers`): the allowance a
  ticket advertises may exceed them.
* `RoutesAreLive`: a rebind that comes after the close puts the closed session back
  into the table, and `Accept` may register the ID of a session that was displaced
  meanwhile. Both entries stay (`late`), although `Accept` says that closing a
  `Conn` "removes its association state from the Listener" (`listener.go:393`).
* `NothingForgotten`: a request for connection IDs whose answer could not be sent,
  because another NewConnectionId was unacknowledged or no ID was available, stays
  open for good, and the next request is refused.
* `PairFailuresExplained`: after a retransmission, application data can arrive
  between two fragments ("interleaved"), and an answer to an earlier authentication
  request can arrive during a later one ("context", "unexpected"); both are fatal.
  So are a second request while the first answer is unacknowledged ("overlapping"), a
  KeyUpdate that overtakes the fragments of another message of its sender, an ACK in
  an epoch below the record's after a one-sided update, more application datagrams
  than the queues hold ("limit"), and an answer without a required certificate.
* `PathProved`: without an answer, a path check goes on or ends only after the timer
  of its own challenge has fired. The timer of an earlier challenge, which may have
  fired and wait for its lock, changes nothing.
* `TicketOnce` is about clients that send `ticket_request`. Without it, a repeated
  NewSessionTicket puts a ticket back that `Take` has given out.

### Bounds

* `KeyUpdate`: three calls with the answers they request reach epoch 6, the first
  whose wire bits repeat an earlier one's; one loss, one spurious retransmission
  and one refused write each meet every state of the protocol. `keyupdate_faults`
  makes the AEAD limit three records and leaves one `message_seq`, so all limits
  are hit.
* `RecordCipher`: ranges of 6 and 12 stand for 2^8 and 2^16, twelve numbers for
  2^48, a two-bit bitmap for 64 bits. The range is passed, the window jumps by
  more than its width and the space is used up.
* `HandshakeFlight`: a window of 2 or 3 for 10, with flights longer than it; two
  fragment sizes, neither a multiple of the other in the safety run, so that old
  fragments straddle new ones; one buffered message, so that the inbox overflows.
  624,470 states. The violated run has one size: the MTU is at its floor.

* `Handshake`: two or three suites of two hashes, three groups of which one is
  hybrid, two external PSKs, one ticket in its variants. Eight families
  (cryptography, ECH, early data, small buffers, authentication, extensions, cookies,
  clients without a cache) each vary all the fields one part of the negotiation looks at;
  combinations across families beyond those are not covered. A cookie lives four
  ticks, so it can be fresh, rotated once or expired. 88,146 states. Deadlock is
  checked.
* `Listener` and `PostHandshake`: 26 worlds, each a start and a bound on calls,
  losses, timeouts, records, arriving datagrams and ends of connections; 520,928
  states. Two sessions, two addresses and a queue of one datagram are enough for an
  association to be replaced, displaced, moved and to overflow; connection IDs
  include one that is a prefix of another; `MaxConnectionIDs` is three. Of two
  application datagrams the byte limit or the queue takes one; the list of held-back
  records has the code's least size, eight, which they do not fill. `Span` only separates epochs in a
  record number.

Deadlock is not checked where bounded calls, losses and failures let every
behaviour end.

### Fairness

`KeyUpdate`: the reader goroutine reads for as long as the connection is open, and
a retransmission goroutine that runs wakes up (`time.Timer`); calls, losses and
errors are never assumed to happen. `HandshakeFlight`: a receive loop handles
whatever arrives and sets a read deadline before every read, so records, ACKs and
timeouts are each weakly fair; losses are bounded. A timeout is *spurious* while
the network still holds something for it; the number of those is bounded, other
timeouts are not.

## Proofs

The proofs hold for all values of the constants, under the assumptions named in
the modules: the ends differ, limits are naturals, a replay window fits its bitmap
and is smaller than half a truncated range, a failure limit is at least two,
fragments and messages are not empty, there is at least one session and a place in
its queue, a registered connection ID is not empty, and an association that is
established at the start has a known address and at most one ID. A
handshake's configurations satisfy what the code enforces: a `Config` does not
combine client authentication with external PSKs (`config.go:557`), and the
early-data allowance of a session is a natural number (`session.go:220`).

* **KeyUpdate.** `TypeCorrect` goes through one lemma per action
  (`KeyUpdateSteps` first describes what a step does to each half of an end).
  `AckGated` is not inductive by itself. `IInv` adds, for each direction, which
  KeyUpdates and ACKs may be in the network: an ACK of a pending update exists only
  if the receiver has installed the next epoch, and an update the receiver has not
  processed is the pending one. `KeysHeldAlways`, `AckGateHolds`,
  `RetentionBounded` and `Refinement` follow from it. `NumbersAreUnique` rests on
  a description of a step by what it seals: nothing, one record under the counter,
  or two under the counter and its successor, in the epoch of the sender; the
  invariant is that every number in the network is used up. For
  `FailuresAreExplained` the invariant says the same of each end that the property
  says of the pair, with the alert that carried the failure over.
* **RecordCipher.** `AtMostOnce` needs `WindowExact`: bit d is set exactly if
  record `latest - d` was handed over, so a number that passes `check` is new.
  `NearRecordsAlwaysOpen` is arithmetic on `reconstructSequence` at both ends of
  the space. `RequestComesFirst` counts: of the failures from the
  margin on, each either requested or was hindered, so without a request the margin
  was hindered as a whole.
* **HandshakeFlight.** `FlightInv` says of every ACK in the network, and of every
  record the server will still acknowledge, that the peer holds its bytes; with
  it, an acknowledged record of the current level was received (`AcksAreSound`),
  and a complete flight was received entirely (`ClientLast`). `WindowIsKept`
  counts: the records `nextUnsentWire` may send are the earliest of their flight,
  and at most as many of them as there are free places are new. A record of the
  current level in the network was sent by the flight as it now is.
  `InboxFailsOnlyWhenFull` is about the step that fails: its record has bytes the
  receiver lacks, and its message with the undelivered ones is more than the buffer
  takes.

* **Handshake.** `HandshakeInv` says where the two state machines can be relative
  to each other. It has six parts: the types and stages (`Shape`); until the server
  has read a hello it has sent nothing (`Starting`); while it waits for a second
  hello, the request for it or that hello is in flight (`Retrying`); its flight is
  held back as a whole, or the Finished at its end or the client's answer is in
  flight under its keys (`Flying`), so that `SomeoneAlwaysMoves`; the guard's counters
  (`Budgeted`), so that `AmplificationIsBounded`; and, at a server that requires
  certificates, that a PSK it has accepted is a ticket of an authenticated client
  and that nothing else completes without a certificate and its signature
  (`Authenticating`), so that `ClientIsAuthenticated`. `HandshakeSteps` says of each
  operation which fields it changes and of each kind of move why it keeps the
  invariant; `HandshakeProofs` goes through the actions. Nothing bounds the lists of
  suites, groups, PSKs and identities, or the size of the flight.

* **Listener.** `LInv` in `ListenerSteps` has eight parts. `ConnsOK` ties the stage
  of each goroutine of a `Conn` to its flags: secrets exist only while a handshake
  runs or before an end was published, which is what makes `SecretsCleared` hold
  whichever of handshake, `failConnection` and `Close` comes first. `SessionsOK`
  is `QueuesReleased` with the types of the queues. `StagesOK` and `PlacesOK` say
  that a `Conn` past validation has a validated session, and that a session is in
  the table under its own address: a pending one has proved nothing yet, hence
  `ReplacedByValidated`. `EntriesOK` is `RoutesAreLive` for both states of the
  Listener. `AcceptOK` says that a session waits for `Accept` once and has no
  `Conn` before. `OpenOK` says that an open session is in a table, in the list
  `shutdown` closes or held by the session that replaced it, which is
  `ShutdownClosesAll` once the Listener is closed. `ListenerSteps` proves the steps
  that leave the address tables alone, `ListenerProofs` the others and the
  theorems.

The theorems about the Listener are about `ListenerSpec`, whose connections are
independent. In the worlds of `associations` without a peer, `Spec` takes exactly
these steps; in the worlds with one, session 1 is also moved and given IDs by
`PostHandshake`, and the same properties are model-checked.

`LimitsAreKept` bounds the open associations, other than those their replacement is
about to close, by `MaxPendingConnections`. The tables themselves may hold one entry
more for a moment, when a closed session rebinds. The proof counts: an association
is made only while fewer are open, and a replacement is counted instead of the
association it replaces.

Only model-checked:

* liveness under fairness, which is outside the prover's reach;
* `Agreement`, `EarlyDataAgrees` and `InnerHelloHidden` of `Handshake`: they compare
  values both ends computed from messages, so their invariant has to say of every
  message in flight what it was made from and that parsing undoes encoding;
* `FailuresExplained` of `Handshake`, which says which failures a pair of
  configurations can produce: each of some forty checks would need the argument why
  it cannot fail otherwise;
* the properties of `PostHandshake`, whose operations fold over lists of records and
  need induction over them.

## Findings

1. **One-sided key updates** (`ack.go:182`). An end that updates twice without
   asking its peer to do the same receives the second ACK in epoch 3 for a record
   of epoch 4, refuses it and ends the association. `SendKeyUpdate` is documented
   to be reliable.
2. **A refused first write** (`conn.go:1357`). The update is pending, nothing
   retransmits it, and no other update can start, the automatic one included.
3. **Lost ACKs of delivered records** (`handshake_driver.go:465`). A record of a
   delivered message is not acknowledged again, so it keeps its place in the
   window. When every place is taken (with ServerHello's, which is never
   acknowledged) the rest of the flight is never sent.

4. **A repeated fragment blocks application data** (`conn_dispatch.go:130`). Any
   ACK of an incomplete post-handshake flight makes the sender repeat the rest at
   once, although it may just be in flight. The receiver keeps no trace of the
   messages it has completed and takes the repeat for the start of a new one, which
   never completes. Application data behind it waits until its buffer is full, and
   the connection then fails; a KeyUpdate fails it at once. `conn.go:702` says that
   the data "can be released in order once the message completes".

## Not modelled

* **Encodings and cryptography**: plaintext records, the bytes of messages, ACK
  sorting and splitting, certificate compression, delegated credentials, cached
  information, signatures, X.509 verification, HPKE, the key schedule's
  computations, ticket sealing and its key rotation. They are pure functions of
  bytes; where control depends on their result, the result is an input.
* **Caches with their own expiry**: the heap of the early-data replay cache and the
  eviction order of the session cache. Each is a sequential data structure behind
  one lock.
* **Write errors after the handshake**, except those of KeyUpdate: the ID
  registration that `SendNewConnectionIDs` takes back, and a request for a
  certificate that could not be sent.
* **Waiting callers**: deadlines, contexts and readiness channels of concurrent
  `Read`, `Write` and `Handshake` calls. They wake callers and change nothing else.
* **Composition**: `KeyUpdate` keeps the set of opened record numbers where
  `RecordCipher` keeps a window, and `Handshake` assumes the delivery that
  `HandshakeFlight` establishes; the pairs are not composed. The first flights
  (ClientHello, HelloRetryRequest) are neither lost nor repeated, except for the
  ClientHello that a client repeats when the amplification limit held the answer
  back.
* **Operating system**: error numbers, socket options, buffer pools.
* **The benchmark report tool**, which formats measurements.
