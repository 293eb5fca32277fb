# A TLA+ model of TikTok Live OBS Bridge

The repository is an OBS plugin (C++/Qt): a dock that opens TikTok LIVE sessions
through one of three providers, writes their stream keys into Aitum Stream Suite,
starts and stops outputs, signs video frames and keeps each profile's login. What
is hard in it is time: every slow operation is an asynchronous call whose answer
finds a dock that has moved on. This directory models that part, checks it
with TLC and proves its invariants with TLAPS.

## 1. The system

| Component | State | Operations | Talks to |
|---|---|---|---|
| LIVE lifecycle, `BridgeDock` (`bridge_dock*.cpp`) | `profiles_`, `outputs_preparing_` | Go LIVE, output buttons, End, Return, Resume, Reset, output selector; the callbacks of each | providers, Aitum bridge, signing manager, Qt timers, modal boxes |
| Profile rows (`profile.hpp`, `profile_live_session.cpp`) | flags, identity and output of a profile | `reserve`, `mark_uncertain`, `clear`, `clear_output_assignment` | the dock |
| Persistence (`profile_repository.cpp`, `load_profiles`, `reconcile_previous_sessions`) | the profile INI | save, load, recover | the dock, providers |
| Aitum bridge (`aitum_bridge.cpp`) | phase, retries, dialogs | `update_async` and its polls | Aitum's settings dialogs |
| Aitum outputs (`aitum_outputs.cpp`) | none (reads Aitum) | start, stop, is active | OBS |
| Output signing (`output_signing_manager.cpp`) | pending and attached sessions, shared batches | prefetch, attach, refresh, detach | OBS encoder threads, RapidAPI workers |
| SEI metadata session (`sei_metadata.cpp`, `frame_signing.cpp`) | the cadence of one stream, a cache of signatures by second | sign a packet, merge a batch, reset | the signing manager, OBS encoder threads |
| Token store (`token_store.cpp`) | keyring entries, two alternating cookie sets | save, load, remove | keyring |
| LIVE Studio login (`bridge_dock_tiktok_studio_account.cpp`, `providers/tiktok_studio_provider.cpp`) | requests with the login they were sent with, a generation per profile | QR login, browser import, refresh, delete | token store, LIVE Studio client |
| QR sign-in (`tiktok_studio_login_dialog.cpp`, `begin_qr_login`, `poll_qr_login`) | the dialog's flags and timer; `login_`, `login_generation_` | ask for a code, poll it, cancel, renew | TikTok, the user's phone, worker threads |
| LIVE Studio client (`tiktok_studio_client.cpp`) | besides the sign-in, none kept between calls | start, find, resume, end, heartbeat, over up to three regional hosts | TikTok, worker threads |
| Streamlabs login (`login_in_browser` and `verify_account` of `streamlabs_client.cpp`, the login form of `bridge_dock_profiles.cpp`) | one token per profile; one waiting browser login with its verifier and local server | verify, search the PC, log in in the browser, add and delete profiles, change provider | token store, Streamlabs, the browser |
| Other providers and clients (`providers/`, the rest of `streamlabs_client.cpp`) | none kept between calls | create, end | Streamlabs, worker threads |
| Catalogues, localisation, widgets | dialogs | - | - |

All handlers of the dock run on the Qt event loop, one at a time. A provider call
runs on a detached thread and its callback is queued back; an Aitum transaction
is a chain of 25 ms timers; a start waits 250 ms and is then verified every 500 ms
up to 20 times; a prefetch runs on a worker. A message box runs a nested
event loop: clicks are blocked while callbacks still run. Callbacks capture
a profile id, and sometimes an output and a session, and look the row up again.

What makes each component correct:

- *lifecycle*: an account and an output are held by one profile at a time; a
  session opened at the platform is held, or known to somebody who will end it,
  until the platform closed it; LIVE means that the output is active; an answer
  acts on the session it was asked for; no profile is disabled for ever;
- *Aitum bridge*: one transaction, one answer, success only if Aitum saved;
- *signing*: an output of a signing profile never starts without its packet
  callback; one callback per output, no callback of a dead session; signatures
  are refreshed before they run out;
- *metadata session*: each slot of the cadence is filled once and in order, whatever gaps, restarts and late packets the stream has; a
  signature in use is about as old as its packet; a cut comes only when no signature was to be had;
- *token store and login*: whatever write fails or crashes, a saved login is read back whole,
  and its device identity is stable until it is deleted; a login shared by profiles goes with the last of them (for good, but for the late answers of section 3);
- *QR sign-in*: only a code shown in the dialog and confirmed by the phone that scanned it signs in; no late answer of an earlier
  code or dialog counts; a confirmation is seen; a registered device is not registered again;
- *Streamlabs login*: a token that is refused does not replace one that works; an answer that comes after its profile was deleted, or
  for another login, changes nothing;
- *LIVE Studio client*: a failing or lost request neither opens a second room nor hides one, and
  what the room's own host decides is what the dock is told.

`PROJECT.json` lists the hazards of this code line by line.

## 2. Modules

| Module | What it is |
|---|---|
| `ProfileSession` | the fields of `Profile` the lifecycle uses (`Row`), the functions of `ProfileLiveSession`, the two reservation tests |
| `LiveSession` | the lifecycle of the dock: handlers, callbacks, environment |
| `LiveSessionProperties` | its invariants, action properties, fairness and liveness |
| `LiveSession_proofs` | its theorems: flags and their calls; the reservations under a patient user; LIVE is verified |
| `MCLiveSession` | instances for TLC: which profile has which provider and account |
| `OutputUpdates` | abstract specification: what the dock may rely on when it asks for an update of an output |
| `AitumBridge` | the bridge's polls against Aitum's dialogs, clicks, timers and the user |
| `AitumBridge_proofs` | its inductive invariant, that it implements `OutputUpdates` and refuses settings the user has open |
| `MCAitumBridge` | instances for TLC: which request wants which output |
| `OutputSigning` | the signing manager: prefetch, attach, refresh, rebind, packets, fatal errors, against time and OBS's outputs |
| `OutputSigning_proofs` | its inductive invariant and theorems |
| `MCOutputSigning` | instances for TLC: which session is for which output and batch |
| `SeiFeed` | abstract specification: the payloads TikTok is to receive with a signed stream |
| `SignedSei` | one metadata session: the cadence, the cache of signatures, packets, restarts and the clock; implements `SeiFeed` |
| `SignedSei_proofs`, `MCSignedSei` | that it implements `SeiFeed`, that restarts are noticed and signatures stay current; an instance for TLC: five slots per cycle |
| `SavedLogin` | abstract specification: what secure storage promises of a saved login |
| `TokenStore` | the keyring entries of one login, written and removed one by one |
| `StudioAccount` | everyone who saves or deletes that login: provider, QR dialog, import, usage figures, deletion of profiles; extends `TokenStore` |
| `StudioAccount_proofs` | that `TokenStore` implements `SavedLogin` and leaves no stale chunk, that `StudioAccount` uses `TokenStore` as specified, that a shared login stays and a deletion leaves nothing of it |
| `MCStudioAccount` | an instance of both for TLC: how many entries each cookie jar fills |
| `QrLogin` | the sign-in dialog, its timer and the client's QR requests over the hosts, against the phone and late answers |
| `QrLogin_proofs`, `MCQrLogin` | its theorems; an instance for TLC |
| `StudioRoom` | the client's search for a room, create, heartbeat and end over the regional hosts |
| `StudioRoom_proofs`, `MCStudioRoom` | its theorems; an instance for TLC |
| `StreamlabsLogin` | the tokens of the profiles, their verifications, and the browser login, against late answers, deletion, provider changes and restarts |
| `StreamlabsLogin_proofs`, `MCStreamlabsLogin` | its theorems; an instance for TLC |

`LiveSession` uses of `AitumBridge` what `OutputUpdates` says (one transaction, `Busy` for
others, one answer each); `AitumBridge` is proved to implement it. The two are not composed: the
answer is the only thing they share. In the same way `LiveSession` knows of a prefetch only that it is
answered, dropped or refused and whether a callback is attached; `OutputSigning` is what happens behind that, and `SignedSei` what one attached session does with packets and batches: `OutputSigning` says when
a batch is merged and that one is there in time (`InTime`), which `SignedSei` assumes unless its fault `late` is on. The calls of `LiveSession` to
a provider are answered with or without a room and an error; `StudioRoom` is what LIVE Studio does for that answer.
`TokenStore` and `StudioAccount` are composed: each action of a caller that begins a save or a removal is an action of the store.
`StudioAccount` knows of the QR dialog only the login it is opened on and hands back; `QrLogin` is what happens while it is open.

### From the code to LiveSession

`profile[p]` is a row of `profiles_`; `outputsPreparing` is `outputs_preparing_`;
`attached` the outputs with a packet callback; `calls` the set of pending callbacks,
each with what it captured (`op`, profile `p`, output `o`, session `s`, and
`start`, the flag `start_aitum_output`); `encoders` and `rooms` are
the outputs in OBS and the sessions at the platforms.

A handler of the C++ code calls others and returns. It is written here as a function
on a record `[row, calls, prep, signed, enc]`, one operator per C++ function
(`Start`, `Begin`, `Activate`, `RequestUpdate`, `Fail`, `End`, `FinishEnd`...), so a chain
of calls is a composition and one action is the whole of what runs until the
event loop is reached. Each user action and each answered callback is one
action of `Next`; an answer chooses among the outcomes the caller distinguishes.
`Faults` names which failures a run allows.

The three modal boxes that stand before further work (`failed`, `unsigned`,
`reset`) are pending calls too: while one is open, `Blocked` refuses clicks
and other callbacks still run. A box that is the last statement of a handler is not
modelled.

Names the code gives are kept where they fit: `Reserve`, `MarkUncertain`,
`ClearLive` (`clear_live_session`), `OutputInUse`, `AccountActive`,
`EndUnstarted`, `VerifyOnce`.

### From the code to AitumBridge

`phase`, `opened`, `retries`, `own` and `found` are `phase_`, `opened_settings_`, `retries_`,
`stream_dialog_` and `settings_dialog_`; `current` stands for `credentials_` and `completion_`;
`timers` counts pending single-shot timers, which may outlive their transaction. `Advance` is one
timer: it runs the handler of the current phase (`FindSettings`, `FindTargetOutput`, `FindEditor`,
`WaitAfterSave`, or nothing when idle) with every early return, and each ends in `Again`
(`schedule_next`) or `Finish`. `start_settings` and `open_target_editor` are called
by `find_settings` and are part of its action; a failing `start_settings` finishes the transaction
and the timer is armed all the same.

Aitum is external and modelled from how the bridge uses it: a click is queued and runs later
(`SettingsClick`, `OutputClick`, `SaveClick`); a click that opens a dialog runs the dialog's loop; `accept()` and
`reject()` hide the dialog, and what it holds is taken over when its loop returns
(`EditorReturns` into `draft`, `SettingsReturn` into `stored`), inner loop first. The Output page is built late, an editor
is created, then a child, then visible, and a closed one may stay as a hidden child.
`users` says that the user opened the settings; he may do so at any time they are closed, also when the bridge has clicked
and the click has shown nothing. `find_settings` cannot tell the two apart: what is shown once `opened_settings_` is set is the
bridge's to work in and to close.
`Faults` names what Aitum and the user may do wrong in a run.

### From the code to OutputSigning

A session `s` is one call of `prepare_and_attach` with the `Session` object it makes. `sessions` and `pending`
are `sessions_` and `pending_`; `bound[s]` is `session->output`; `hooked` is OBS's list of packet callbacks,
the raw pointer included; `batches` is `shared_batches_`; `jobs` are workers and calls queued to the event
loop. `answer[s]` says what became of the completion: `detach` drops it untold.

Times are what is left, in some unit: `cache[s]` of the newest signature of a session, `batches[k]` of a shared batch, a
job's `left` of the batch it will bring (counted from its request, as the code asks for timestamps from then on),
`timer` of the refresh timer. `Elapse` lets one unit pass, and only if no timer is due, no call is queued and no request
has reached its timeout, so each is served within the unit it falls due. A cache with 0 left has no signature
`transform_packet` accepts.

Each handler is one action, the answers of a worker another. A packet callback is one step:
OBS holds the mutex of its callback list around it, `remove_packet_callback` waits for that mutex, and what it shares with the
event loop, the cache and `fatal`, is guarded or atomic. `reset_stream` touches fields the callback uses without a lock; OBS sends
`STREAMING_STARTING` before packets flow, so the two do not meet. `mainObject` is the object OBS uses for its main
output; it may become another one while that output does not run, and `StartMain` rebinds first. Objects of named outputs
are taken as stable. `spoiled`, the sessions whose last refresh failed, is not in the code; only `InTime` reads it.
A released session's fields are reset, since no code reads them again.

### From the code to TokenStore and StudioAccount

The native keyring is a map from names to small values. `metadata` is the entry `.../account` of one login, reduced to its
device and to `cookie_chunks` and `cookie_set`; `cookies[<<set, i>>]` is entry `i` of a set, as the jar whose chunk it holds.
`Size[jar]` is `CredentialChunks::count` of the jar. `save_tiktok_studio_account` is `BeginSave` (size check, kept device, other set),
`WriteChunk` for each entry, `WriteMetadata`, and `ClearNext` for each removal after it; `WriteFails` is each of its failing branches with its
clean-up. `remove_tiktok_studio_account` is `BeginRemove`, `ClearNext` for each entry there can be, `RemoveMetadata`. A crash may come before
each entry. Removals may be refused by the keyring, which the code ignores; `refused` remembers which. `JarRead` is the loader; it
gives `Garbled` for entries of different jars, and the type of `Promise` forbids that value. In `Promise`, `SavedLogin` sees the store as
what a load returns (`Loaded`), the login the save under way is to leave (`ToSave`, fixed when the save begins) and whether a removal is under way:
its `Commit` is the write of the metadata and can leave only that login, and until then, or if the save fails or crashes, the old one stays.

In `StudioAccount`, `requests` are the callbacks that hold a login, with `newest` for the generation the browser import compares.
`kind` says what a deletion knows of them: `awaited` (create, end, recover) set a flag `delete_selected_profile` tests, `loose` (refresh, game
list, heartbeat) do not. `dialog` is the QR dialog with the copy of the login it was opened on. The store runs on the dock's
thread, so nothing else happens until its call returns; `waiting` is what its caller does then (`Return`). Profiles survive a crash as
last saved, requests and dialogs do not.

### From the code to StudioRoom

`knows[r]` are the hosts that know an open room. A call of the dock is a worker (`start_live_sync`, `continuable_live_sync`)
or a closer (`heartbeat`, `end_live`), which may overlap; each HTTP request is one step. The nested loops over `webcast_hosts` become `step`, `host`
and, for the create loop, `target`. `blind` is not in the code: the hosts of this pass that gave no usable answer, which the properties
allow for. `denied` is `confirmed_no_active_room`, `login` says that the login was refused. The requests for a room's owner and the advisory
`anchor_pre_finish` change nothing and are left out; the order of hosts is fixed for a call, where the code reads it from cookies that an answer may
change; the account's rooms are opened by this client only.

### From the code to QrLogin

`dialog` is the one `TikTokStudioLoginDialog` that can be open (it is modal): `view` what it shows, `timer` `poll_timer_`, `inFlight`
`poll_in_flight_`, `closing` `closing_`, `confirmed` the code of `result_`, `device` the device in `account_`, `done` that `exec` has been told
to return. A `QPointer` guard is a comparison of `id` (`Current`). `generation` and `login` are the client's; a code is named by the number of the
start that asked for it, and so is a device registered on the way. `begins` and `polls` are the requests whose worker is running or
whose answer is queued: `step` says how far, and the workers (`begin_login_sync`, `poll_login_sync`) go host by host, with a poll beginning at
the host the code is from. Any number may be outstanding: closing a dialog or renewing a code cancels the counting of an answer, not the request.

`sealed` is that `begin_login_sync` keeps a client secret and expects it back, `ours` that TikTok gives it back, which it does
when a phone scanned our picture and the address could carry the secret. A host other than the code's own may know less of it
(fault `lagging`). `Cancel` and Escape (`Reject`) only end `exec`; the close button (`CloseWindow`) cancels first; `Returned` is the dock going on, with the
destructor cancelling. Between `Reject` and `Returned` the timer and answers still run, so a confirmation may come in. The dock
saves the dialog's account either way (`Saved`).

Left out: a missing RapidAPI key (a guard without a state), `shutting_down_`, failing keyring writes (`TokenStore`), cookies, and what
`account_info_sync` reads, which cannot undo a confirmation.

### From the code to SignedSei

`stream` holds the fields `reset_stream` resets: `base` and `last` are `base_stream_ms_` and `last_stream_ms_`, `slot` is `next_slot_`,
`index` `sei_index_`, `startup` `startup_done_`, `sign` the second `sign_result_` was made for, `select`
`next_signature_select_stream_ms_`. `cache` are the keys of `signatures_`. `Packet` is the whole of `packet_callback` with
`transform_packet`: `Entered` the cadence check, `Due` and `Payloads` the loop that collects slots, `Ensured` the first choice of a signature, `Inject` the payloads built
one by one, of which the first `current` one may choose the signature again (`Refreshed`), and `Cut` each `fail`, after which the manager
stops the output. `sent` is what the packet carried.

A packet carries the time since the first one of its run, up to `Lag` behind the clock: OBS counts from the encoder's start, and the
differences are all the code uses. `Merge` is `merge_signatures`; a batch holds one signature for each second of its `Life`, up to `Slack` of them past. `Elapse` lets time pass, and
unless `late` is a fault only while the cache reaches the new second. `Restart` is the output stopped and started; for OBS's main output
`rebind_main_output` resets the stream, for the others nobody does and the times of the packets have to tell.
Codec, dimensions, bit packing and the text of a payload decide only whether the packet can be signed (`BadPacket`).

### From the code to StreamlabsLogin

`token[p]` is what `TokenStore` holds, `username[p]` the account the row shows, a token standing for the account it logs in to. `jobs` are the
callbacks of `refresh_account` under way, those of `verify_token_for_profile` with the token they store back (`previous`) and those of
`refresh_selected_account`, which store the answer's token again; both are `Request`, and `Verdict` is what either callback does. `searches` are the threads that
look for Streamlabs Desktop, `login`, `verifier` and `listening` are `token_callback_` with its profile, `verifier_` and `callback_server_`; `sockets`
connections accepted and not yet read, `exchanges` codes `exchange_code` has sent. A login is named by a number, its code and verifier
by the same: Streamlabs accepts a code with the verifier of its own login (PKCE).

`accepted` and `disturbed` are not in the code; only `AcceptedIsStored` reads them. Which profile is selected is not followed, so any profile's form
may be used and a restart may check any; the guards that refuse a click on a busy profile only remove behaviours of the rechecks. Deleting a profile is
one step, as it is on the dock's thread, and its `TokenStore::remove` is taken to succeed. A wrong token needs no kind of its own, since any token may be refused.

### Abstractions

- What a request does at the platform happens in the step of its answer,
  except that a restart may leave requests in flight carried out.
- Identical requests in flight are one element of `calls`. The only requests of
  this kind are account refreshes, of which the code keeps the last (a generation
  counter), and repeated clicks the guards refuse.
- Heartbeats are one action: the third answer in a row that says the room is gone.
- The 20 verification attempts are one choice, to go on or to give up.
- A failed save to the keyring after an update takes the continuation of a failed
  update or signature, and is covered by those faults.
- After a restart any outputs may already be active; Aitum is taken to be there when the dock looks at a manual profile's output.
- Aitum is installed; topic and game checks, Dual Layout, profile creation and deletion,
  provider changes (for logins see `StreamlabsLogin`), and the rewriting of an output name by `populate_outputs` are left out.
  Start-all and end-all are loops of modelled handlers around a modal choice.
- The bridge: credentials are the request that brought them; a queued click is delivered before a
  timer armed after it; the user discards an editor the bridge has given up and does not
  press its Save button; the trace file is left out. A loop that has ended
  returns before another timer runs, except with the fault `nested`: a message box of the
  dock above Aitum's dialog keeps the loop below from returning.

## 3. Runs

| Run | Instance | Question | Result |
|---|---|---|---|
| `LiveSession_four` | a LIVE Studio, two Streamlabs profiles of one account and a manual one; 2 outputs, 2 sessions | exclusive outputs, accounts and transactions; every open session is known, and held or being ended until it is closed; LIVE knows its session and means active output | holds |
| `LiveSession_impatient` | one LIVE Studio profile, a click while a call is pending, every fault, one restart, fair answers | the `ending` flag has its call; preparing, recovering and ending end | holds |
| `AitumBridge_faults` | 2 requests for 2 outputs, every fault but `dismiss` | no stranded transaction; no dialog of its own left open; the settings the user has open at the first poll are refused and stay; `OutputUpdates` is implemented | holds |
| `AitumBridge_success` | 3 requests, 2 for one output, Save Output works, fairness | each accepted request is answered; a success reaches the live profile | holds |
| `OutputSigning_faults` | two sessions of the main output, one of another that shares a batch; every fault but `restart`; fair answers | callbacks owned and on the running object; signatures in time; fatal errors stop the output; prefetches completed or dropped | holds |
| `SignedSei_faults` | 5 slots per cycle, main and other outputs, gaps, restarts, late packets and batches, unsignable packets | the payloads are those of the cadence; a restart is noticed; signatures are current; a cut only without signatures | holds |
| `StudioAccount_shared` | 2 profiles of one account, a request under way, jars of 1, 2 and 3 entries, 2 per set, 2 devices; failing writes, a refused removal, crashes | a save leaves its login or the old one (`SavedLogin`); no stale chunk behind a saved jar; a shared login outlives one profile; the last deletion leaves nothing, and only an answer nobody waits for saves again | holds |
| `StudioAccount_late` | one profile, a request under way, no faults | a deleted login does not come back | violated |
| `StudioRoom_faults` | 2 hosts, 2 rooms, 2 calls, every fault, rooms open at the start | no second room, none overlooked, first host decides | holds |
| `QrLogin_faults` | 2 hosts, 2 codes, 2 dialogs, failing requests, unreadable pictures, lagging hosts, fair answers | polls what is shown; accepts only our confirmation; takes and keeps the device an answer brings; does not miss a confirmation | holds |
| `StreamlabsLogin_faults` | 2 profiles, 2 tokens, 2 browser logins, two of verifications, searches, codes and connections at a time; refused tokens and writes, restarts | a deleted token stays deleted; the token accepted last is stored and shown; a code that arrives completes only the login that asked for it | holds |
| `LiveSession_running` | End during a start | End leaves the encoder stopped | violated |

Every component's module has a type invariant; it is no run's property but a theorem (section 4).

**Bounds.** Four profiles give each provider one, and two that conflict by their account; the conflicts the code tests are
pairwise. Two outputs give a profile a free one while the other is held; two sessions let a profile get a second one while the first is
still being ended. Sessions and outputs are symmetric. `MaxPending` bounds impatience: with 0 the user acts on a profile
only when none of its calls is pending, with 1 also over one pending call; other profiles' calls never hold him up.
`MaxRestarts` bounds restarts. The properties of `LiveSession_four` are checked for a
patient user without restarts: an impatient End during a start refutes
those of sessions, accounts and outputs (the start chain is not cancelled and reserves the session again, see
`LiveSession_running` and the notes below), a failing end request breaks
exclusive outputs (section 3, notes), and after a restart an unconfirmed
session is not reserved, because the profile file has no field for it. A lost create
answer breaks `SessionTracked` by design: nobody can know the room. The fault `remote`, a room TikTok closes, is left to
`LiveSession_impatient`, because the instance becomes three times as large with it; its properties hold there too (5.3 million states).
`AitumBridge_success` may deadlock: its requests are used up.

For the bridge, two requests give a transaction and its successor, which is where left-over
timers, clicks, editors and dialogs matter; `MaxPolls` = 3 and `Grace` = 1 stand for 200
and 8 and keep their order, with polls before, at and after the grace. The fault `dismiss`, the user closing the settings while the
bridge works on them, is left out of `AitumBridge_faults`: the editor above them then stays
open, `find_stream_output_dialog` takes it for the editor of the next transaction, and the output of the first request gets
the credentials of the second (TLC refutes `UpdatesSpec`). `SuccessStored` leaves out the faults under which
the code reports success for an editor that saved nothing (`disabled`, `retained`, `cancel`,
`dismiss`) and `nested`, where the `reject()` of a later transaction can undo an `accept()` whose loop
has not returned.

For signing, `Life` = 4, `Due` = 2, `Fresh` = 3, `Tick` = 1, `Timeout` = 1 keep the order of the code's 300, 60, 90, 30 and 30
seconds and its tight spot, `Tick + Timeout = Due`; a unit less in `Due` refutes `InTime`. Two sessions of one output give a
successor to every late answer, and the third shares a batch with the first. The fault `restart`, an output started again after a fatal
error, is left out: it refutes `FailsClosed` (notes).

For the store, two entries per set are the fewest at which a jar can be half written, half removed, shorter than its predecessor or
too large; the code's 128 entries behave alike, and the theorems are for any number. `MaxRefused` bounds the removals the keyring
refuses; one leaves a stale entry behind. One request under way is enough for an answer to meet a deletion, a dialog or a later login.
Keyring reads are assumed to succeed (notes). Both runs may deadlock when the last
profile is gone.

For rooms, two hosts are what a saved session has, its own and a fallback; with two rooms one may be open where another is
created. Two calls give a start after a start that lost its answer, or a start beside an end; the run stops when they are used up. Three calls
were checked as well and take minutes. The theorems are for any number of hosts, rooms and calls.

For the sign-in, two codes give a renewed code with answers of the first still out, or a second dialog after the first was
closed, which is as far as one answer can be late; two hosts give a home and one that lags. A code moves on only while it is on
the screen or polled, since nothing else looks at it. The run stops when the last dialog is closed.

For the metadata session, a tick is about half a second: `Second` = 2, `Cycle` = 3, `Gap` = 4, `Interval` = 5 keep the order of the code's 1, 2, 10 and 30 seconds,
so that a gap holds more than a cycle and less than an interval, and a packet can skip a cycle without a break. The five slots keep the order of the code's kinds and offsets, with two pairs
at one time. `Cap` = 7 is one more than a batch of `Life` = 5 with its `Tolerance` = 1 needs, so that entries are
dropped. `Horizon` = 20 is where the clock stops: three intervals and almost two batches after the start.

For the Streamlabs logins, `MaxPending` = 2 counts verifications, searches, codes and connections together: a late answer and its successor, on one profile or on two. Two
`Logins` are those something is left of at once; a name is free again when nothing knows it. The theorems are for any number of both.

**Fairness.** `FairSpec` assumes weak fairness of the answer of each pending call,
by profile and kind, and of the last verification attempt. The code justifies
it: HTTP requests have timeouts, Qt timers fire, the Aitum bridge polls at most
200 times, verification stops after 20 attempts, and the user closes message boxes.
Nothing is assumed of other clicks, of outputs or of the platform. For the bridge it is strong fairness of `Advance`,
since a due timer may be held up by a returning loop again and again, and weak fairness of queued clicks, of an editor's
appearance and of the return of ended loops, all of which the Qt event loop and `exec()` guarantee; the page need not be built and the user need not act. For signing it is weak fairness of
`PrepareAnswered`: a request ends by its answer or its timeout. For the sign-in it is weak fairness of the timer and of polls, each request
having a timeout, and strong fairness of `HomeAnswers`: the host of a code, asked again and again, does not fail for ever. The user, the phone and other hosts need do nothing. When verification
gives up and its end request fails too, `end_unstarted_aitum_session` leaves `preparing` set and the user has to press End; `PreparingResolves`
therefore says that a start completes or comes to rest with its buttons enabled.

**Mutants.** Each property of a passing run has, in `PROJECT.json`, a mutant of one
mapped operator (a dropped guard, a missing reset, an early return) under which TLC
finds it violated. Their operators stand, marked, before the definition they mutate.

### What the violated runs show

`LiveSession_running`: End stops an output only if it is active at that moment, and
the start timer is not cancelled. The comment at `bridge_dock_streams.cpp:1146` says that End never leaves the profile's encoder running.

`StudioAccount_late`: docs/PRIVACY.md:88 says that deleting a profile removes its account's credentials when no other profile uses it. The provider
saves the login of an answer before the dock looks whether the profile still exists (`providers/tiktok_studio_provider.cpp:84`), and
`delete_selected_profile` waits for create, end and recover only: a refresh, game list or heartbeat that answers afterwards
writes the credentials back. `ErasedAtLast`, which holds, says that nothing else does: no dialog, import or answer that is waited for.

Noted while modelling, without a run of its own:

- settings the user opens after the bridge's click, when the click shows nothing, are taken for the bridge's own: it works in them, and
  `finish` accepts or rejects them (`aitum_bridge.cpp:260`, 403), although the comment at line 226 says not to attach to a dialog the user
  already has open. `UsersDialogKept` speaks of the settings that are open at the first poll, as the check does;
- the answer of an account refresh that was sent before a start may refuse LIVE access during it, and takes the output and the
  signing away from the profile that is going LIVE (`bridge_dock_tiktok_studio_account.cpp:219`);
- `bind_tiktok_qr_client_secret` returns an address without `next_url` unchanged, and `begin_login_sync` still expects the secret back
  (`tiktok_studio_client.cpp:725`): the confirmation of such a code would never be accepted, and the dialog waits until the code expires. Whether TikTok
  sends such an address the code does not say; `ConfirmationSeen` speaks of codes whose secret comes back;
- a device registered while the dialog is closed is lost, as `begin_qr_login` drops the answer of a cancelled login; the comment at
  `bridge_dock_tiktok_studio_account.cpp:88` promises to preserve it. `DeviceKept` speaks of answers the dialog gets, those with an error included;
- after Cancel, but before `exec` has returned, a confirmation already queued still sets `result_`, and the dock completes the sign-in;
- one round of polls that fails at every host ends the attempt, without a button to try again (the dialog's own choice, `show_retry`);
- a profile that is `uncertain` reserves its output and account, yet the output selector is enabled for it and checks no
  conflict (`bridge_dock_streams.cpp:134`): with a failing end request two profiles can hold one output (docs/ARCHITECTURE.md, invariant 2);
- `fail_tiktok_studio_start` takes `preparing` back and sets `ending`, which no reservation test reads, before the session has
  ended (invariant 3). The weaker `KeptOrEnding` holds in `LiveSession_four`, and by `SessionsKept` with failing ends and lost answers too;
- `prepare_tiktok_studio_output` starts a named output of a LIVE Studio profile, for which signing is required, without a
  prefetch (`bridge_dock_tiktok_studio_native.cpp:480`; invariant 7 and docs/ARCHITECTURE.md:66);
- `fatal` is never reset: when an output that a fatal error stopped is started again with its session attached,
  `packet_callback` returns at once and the stream is unsigned, without an error (`output_signing_manager.cpp:400`; invariant 7);
- the generation of an account request protects the row of the dock, not the keyring: a refresh that answers after a newer login of the same
  account overwrites its cookies with its own;
- the QR dialog saves, when it is closed, the cookies it was opened with or got since, over what an answer saved meanwhile;
- a failing read of the keyring looks like an absent entry: `save_tiktok_studio_account` then takes the device offered and the set that may be
  in use;
- the "Delete TikTok login" of docs/PRIVACY.md:44 is offered by no code; a login goes with its last profile only;
- entries a crash leaves in the unused set stay until a later save or deletion, which removes them;
- heartbeats and finish requests ask the hosts in the order of the cookies, not the host the room was found at: a first host that does not know
  the room answers that it is stale, and the dock takes the room for closed (`FirstDecides` allows for it);
- `find_continuable_live` reports "no room" without an error as soon as one host denied it, whatever the others failed to say
  (`NoneUnseen` allows for it), and a create answer without room and stream identifiers is an error whose room nobody knows;
- the end callback of `end_profile_live` captures the profile only and clears whatever session the row holds when
  it runs (`bridge_dock_streams.cpp:1189`; so does the confirmation of Reset, line 578): after Reset and a new start, the
  answer for the old session clears the new one;
- `find_editor` goes to `WaitAfterSave` without resetting `retries_`: if the editor took more than eight polls to
  appear, `retries_ == 8` is never true and the `accept()` the comment at `aitum_bridge.cpp:381` describes is not reached;
- the comment at `bridge_dock_profiles.cpp:516` says an invalid token cannot replace a working login. It does when verifications overlap: a bad token is pasted and the
  row is clicked before the answer, so the recheck takes the bad token for the one to keep; a refused older one also writes its previous token over one accepted
  since. So does OBS stopping before the answer, or a store that refuses to take the previous token back. `AcceptedIsStored` leaves these out (`disturbed`);
- a code that is being exchanged when the next browser login begins is delivered to the newer asker (`OwnCodeOnly` speaks of codes that arrived
  while a login waited); the earlier asker is never told, and its button keeps waiting. A connection of an earlier page, read late, closes the newer login's server, and its code is refused, so the newer
  login fails (`streamlabs_client.cpp:241`);
- the answer to a verification is applied to the row although the profile's provider changed meanwhile, and a manual profile takes a token found for it
  unverified (`bridge_dock_profiles.cpp:528`, 884);
- the search for Streamlabs Desktop and the browser login capture plain pointers to buttons of a form that may be rebuilt
  (`bridge_dock_profiles.cpp:884`); what the widgets do then is outside the model;
- docs/ARCHITECTURE.md:80 says that a due slot takes "a prefetched signature for the current wall-clock second". The session keeps one for 30 seconds of stream time, and longer by up to two gaps, if the stream
  stands still, and two waits for a slot that selects (a second each): `SignatureCurrent` states the bound;
- a named output started again after a run of a single packet is not noticed, as its first packet has the time of the last; `Restart` follows runs of more than one packet;
- docs/ARCHITECTURE.md:85 says batches refresh "before their final minute"; the refresh starts at a tick
  with 60 seconds or less to go, so within it.

## 4. Proofs

`LiveSession_proofs` proves, for any profiles, outputs, sessions, providers, accounts,
faults, impatience and number of restarts:

- `TypeCorrect`: `Spec => []TypeOK`
- `EndingCovered`: `Spec => []EndingHasCall`
- `RecoveringCovered`: `Spec => []RecoveringHasCall` (no run checks it separately)
- `TransactionsApart`: `Spec => []OneTransaction`
- `PrefetchesApart`: `Spec => []OnePrefetch` (likewise)

from the named assumptions on the constants alone (the "no value" constants lie outside
their sets; `MaxRestarts` is a natural number). The invariant of these five is `IInv`, the conjunction of
the five: `EndingHasCall` is not inductive without the types, and taking a
call away is safe only because each callback that discharges `ending` takes
the flag back or issues the next call in the same step.

The argument follows the code's own structure. `Sound(h, p)` says of a handler's record
what `IInv` says of the state, for one profile; `Keeps(h, g)` that no call but a
prefetch is dropped. Each primitive (`With`, `Issue`, `Unmark`, `Detach`) and then each
C++ function has one lemma: from a sound record to a sound record, keeping the calls.
`TakeSound` says what is left when a callback is taken off, `CommitInv` carries a sound
record over to the state, and `UserInv`, `CallbackInv`, `EnvironmentInv` have one step per action.

Also without a hypothesis:

- `LiveIsVerified`: `Spec => VerifiedLive`

`AllProper` says what each pending start callback finds on its row (`Waits`: a chain that may still set `live` belongs
to a row that is preparing and holds its output); the one handler that sets `live` does so after the output was
seen active.

The reservations are theorems about a patient user, `MaxPending = 0`: he acts on a profile only when none of its calls
is pending. `Firm` says that the faults `end` and `lost` are left out (an end request fails; a create is lost
on its way back), `Steady` that `MaxRestarts = 0`, `OwnLogins` that no other profile has a LIVE Studio profile's account,
`LoginsApart` that only LIVE Studio profiles may share one, and `Calm` is `Firm /\ OwnLogins /\ Steady`:

| Theorem | Hypotheses | Statement |
|---|---|---|
| `Patient` | `MaxPending = 0` | `Spec => []PatientInv`, the invariant below |
| `SessionsKnown` | `MaxPending = 0` | `Spec => []LiveKnowsSession` |
| `AccountsApart` | `MaxPending = 0`, `Firm` | `Spec => []AccountExclusive` |
| `OutputsApart` | `MaxPending = 0`, `Calm` | `Spec => []OutputExclusive` |
| `SessionsTracked` | `MaxPending = 0`, `Calm` | `Spec => []SessionTracked` |
| `SessionsKept` | `MaxPending = 0`, `Steady`, `LoginsApart` | `Spec => KeptOrEnding` |

Why each hypothesis is there was tried on the runs, with one hypothesis dropped at a time:

- `MaxPending = 0`: a click while an answer is awaited, an End during a start for one, refutes all of them.
- `Firm`: a profile whose end failed is uncertain and may select an output or an account in use, and the room of a lost create
  is known to nobody; either refutes `AccountsApart`, `OutputsApart` and `SessionsTracked`. `SessionsKept` does not need it.
- `Steady`: after a restart an unconfirmed session is not reserved, which refutes the last three. `AccountsApart` holds across restarts.
- `OwnLogins`: three LIVE Studio profiles with one login refute `OutputsApart`. For `SessionsTracked` no counterexample
  was found with two profiles; there the proof asks for more than may be necessary.
- `LoginsApart`: a Studio and a Streamlabs profile of one account, and an end that fails, refute `SessionsKept`: the search of
  the one finds the room of the other.

Signing, Aitum and start faults, late prefetches, several profiles per account of other
providers and any number of profiles, outputs and sessions are covered throughout.

`PatientInv` says that a profile has at most one call pending (the boxes and a prefetch included) and, kind by kind, what its row
looks like meanwhile: which flag is set, that the call's output and session are the row's, that an idle row has no
session it is answerable for. From one call at a time follows that an answer meets the row its request left. `Careful` is
what a step of one profile may do to the rest: it takes no output and no account that another holds, keeps
or hands on the sessions it carries, and closes only its own rooms. Each handler is shown careful once (`StartCareful`, `OutcomeCareful`,
`CommitCareful`...), and `AccountsApart`, `OutputsApart` and `SessionsTracked` follow from it. `SessionsKept` needs one more invariant,
`RoomsInv`, which a step keeps because it is careful: the searches of one account are those of one profile, as a start takes its
account before it searches; the room a create opens is then the only one of its account; and so a search that finds a room finds the
one its own row names, and never makes a row change from one open session to another.

`AitumBridge_proofs` proves, for any requests, outputs, targets, poll bounds and faults
other than `dismiss`:

- `TypeCorrect`: `Spec => []TypeOK`, with `retries` never above `MaxPolls + 1`
- `TransactionArmed`: `Spec => []Armed`
- `SettingsClosed`: `Spec => []NothingLeftOpen`
- `ImplementsUpdates`: `Spec => UpdatesSpec`, the refinement of `OutputUpdates` (`result` and
  `stored` map to themselves)

and, for every fault, `dismiss` included,

- `UsersSettingsStay`: `Spec => UsersDialogKept`, because before its first poll a transaction has not asked for the settings
  (`Unasked`), so that what it finds then is not its own.

Its `IInv` says who owns what. `Turn`: the only pending request is `current`, which makes `Busy` an abstract `Refuse` and
every `Finish` an `Answer`. `ClicksInPhase` and `OwnDialog`: a queued click meets the phase that waits for it, and beyond
`FindSettings` the dialog shown is one the bridge asked for, its own or the user's that came instead, so that `Finish` always closes it. `Quiet`, `OwnEditor`, `Drafted`
and `Confirmed` follow the credentials: typed only by their own request, drafted only for its target, and confirmed only when it was
answered with success; `Confirmed` is what makes `SettingsReturn` an abstract `Commit`. `Bounded` is needed for the types, as a
timer of an older transaction may still poll. One lemma per handler outcome (`StopInv`, `GoOnInv`,
`SucceedInv`) carries the invariant through the four phases. `dismiss` breaks `OwnDialog`.

`OutputSigning_proofs` proves, for any outputs, sessions, batch keys and faults, and any times with
`Tick + Timeout <= Due < Fresh <= Life` and `Due + Timeout < Life`:

- `TypeCorrect`: `Spec => []TypeOK`
- `CallbacksOwned`: `Spec => []CallbackOwned`
- `RunningOutputsHooked`: `Spec => []RunningHooked`
- `RefreshesUnderWay`: `Spec => []RefreshingHasJob` (no run checks it separately)
- `SignedInTime`: `Spec => []InTime`
- `FailsClosedUnlessRestarted`: `"restart" \notin Faults` implies `Spec => []FailsClosed`

Its `IInv` has three parts. `Attachment` says which session an output has (`Registered`), to which object it is bound
(`Placed`: while the main output runs, to the object that runs) and that a session not yet attached is fresh. `Supply`
carries the argument about time: a session that is not refreshing has more left than reaches the next tick with `Due` minus one tick to
spare (`cache + Tick > Due + timer`), and one that is refreshing more than its request will take
(`cache > left - (Life - Timeout)`); a tick turns the first into the second because `Tick + Timeout <= Due`, an answer the
second into the first because `Due + Timeout < Life`. `Closed` is `FailsClosed` without restarts. One lemma per action; the three
that detach (`Detach`, `Destroy`, `Prefetch`) share `Released` and `ReleaseKeeps`.

`StudioAccount_proofs` proves, for any devices, cookie jars and sizes, number of entries per set, profiles, requests and faults:

- `StoreKeepsPromise`: `SpecStore => SavesInOneStep`, the refinement of `SavedLogin`
- `StoreTypes`: `SpecStore => []TypeOK`
- `StoreKeepsIdentity`: `SpecStore => IdentityKept` (no run checks it separately)
- `AccountsUseStore`: `Spec => SpecStore`, so that both hold of the accounts (`AccountsKeepIdentity`)
- `DeletionErases`: `Spec => ErasedAtLast`
- `StoreSavesCleanly`: `SpecStore => []SavedCleanly`, and `AccountsSaveCleanly` the same of `Spec`
- `SharedLoginsStay`: `Spec => SharedLoginKept`

`StoreInv` is the types and three facts: the set the metadata names holds one whole jar (`Readable`), a save under way writes the other
set and its entries so far are its own (`Writes`), and removals outside a deletion stay off the set in use (`Spares`). With them every
write but that of the metadata leaves `Loaded` alone, and that one is `Commit`, which leaves what the save began with (`Switch`); in a deletion the
first removal is `LoseCookies` and the last `Forget`. `Owned` says that only the caller a store call belongs to is waiting. For the deletion, `Erasure` says that while
the last profile is being removed each entry is gone, refused or still to be removed, and that nothing is when the profile goes; `DeletedSaves` goes
through everyone who saves and finds that without a profile only the answer to a `loose` request can.
`Settled` follows a save that has
returned: the set in use holds its chunks, and what lies behind them, or in the other set, is still to be removed or was refused.
`Ordered` says that the store removes a login only for a deletion, which begins when one profile is left.

`StudioRoom_proofs` proves, for any rooms, number of hosts, faults and calls, `TypeCorrect`, `NoSecondRoom` (`Spec => []CreatedUnseen`),
`NoRoomOverlooked` (`[]NoneUnseen`) and `FirstHostDecides` (`[]FirstDecides`). `Searching` says that each host already asked in this pass
that knows an open room is in `blind` (`Swept`), which the last host turns into `Unseen`; rooms only close (`Shrinks`), except in a create,
after which the pass starts over. `Closing` says that a closer beyond the first host has seen it fail, and what its first finish request
decided.

`QrLogin_proofs` proves, for any number of hosts, codes and dialogs and any faults, `TypeCorrect`, `PollsTheScreen`
(`Spec => []PollsWhatIsShown`), `AcceptedOnlyOurs` (`[]ConfirmedByUs`) and `DeviceStays` (`DeviceKept`, of the answer that brings a device and of every step after it). None of the three is inductive: late answers
matter. `Beginning` says of each outstanding request for a code that nobody knows its code yet (`Unknown`), and that if its generation is the
current one, then the dialog that sent it is open, waits, and has no other device (`Awaited`), so that its answer may set `login_` and the timer
without a second look. `Linked` says that a login belongs to an open dialog, that every poll for it is this dialog's and for the code on the screen, and that
its `polling` flag has a poll outstanding; `Timed` is `PollsWhatIsShown` without the poll. `Seen` carries a confirmation from the worker to the dialog: a code once
confirmed stays so, which is all a late or repeated answer can rely on.

`StreamlabsLogin_proofs` proves, for any profiles, tokens, logins and number of requests under way, `TypeCorrect`, `DeletedForGood`
(`Spec => []DeletedStaysDeleted`), `LoginKept` (`[]AcceptedIsStored`) and `CodesApart` (`OwnCodeOnly`). The invariant is the types with three facts about
requests: a verification marked alone is the only one of its profile (`AloneHolds`); while one is under way for a profile that is not disturbed, it
is alone, and its token is stored, and its `previous` is the accepted one (`UndisturbedHolds`); a profile that was not added or was deleted has no token
(`AbsentHolds`). `Free` gives requests distinct numbers, so that two of one content do not pass for one. `CodesApart` needs `CodeHolds`: the verifier is
that of the login that waits, and a code is sent with the verifier of the login that waited when it arrived.

`SignedSei_proofs` proves, for any cadence that starts with a `reuse` slot at 0, is ordered and has a `current` slot, any times with `Slack < Life` and
`Life + Tolerance <= Cap`, and any faults, `TypeCorrect`, `ImplementsFeed` (`Spec => FeedSpec`, the refinement of `SeiFeed`), `RestartsNoticed`
(`RestartNoticed`), `CutsOnlyUnsigned` (`CutOnlyUnsigned`) and `SignaturesCurrent` (`SignatureCurrent`). `Caught` says of a session that is not cut that every slot due so far was sent, none
behind it is due yet, and the next continues the last payload; `Ready` is what is left of that when a packet has come. `DueInterval` turns it into numbers: targets grow with
their slots (`TargetGrows`), so the due slots are an interval, and their number is bounded by the cycles a gap can hold. `Following` ties the stream to the output's run,
which is why a run that starts at 0 is seen to go back. `Supply` says that the last batch is in the cache whole and its first second has come; the cap keeps it (`Trimmed`,
`MergeInv`), so a second that some batch reached finds a signature near (`Nearest`).
`Fresh` is the age of the signature in use: at some stream time it was selected for the second it has (`Held`), the next selection is due
at most an interval, a wait and a gap later, and a `current` slot that will make it is still to come within a `Wait` (`Awaits`).

Only model-checked is liveness, which is out of the prover's reach: `Answered` and `SuccessStored` of the bridge, `Completed` of the prefetches,
`ConfirmationSeen` of the sign-in, and `EndingResolves`, `RecoveringResolves` and `PreparingResolves` of the lifecycle. `EncoderStopped` and
`DeletedForGood` are refuted. Every other property of a run is a theorem, under the hypotheses named above.

## 5. Plan

1. *Lifecycle* (done): `ProfileSession`, `LiveSession`, first invariants proved.
2. *Aitum bridge* (done): `OutputUpdates`, `AitumBridge`, the refinement proved.
3. *Login* (done): `SavedLogin`, `TokenStore`, `StudioAccount`, the refinement and the deletion proved.
4. *Output signing* (done): `OutputSigning`, its safety invariants proved; `SeiFeed` and `SignedSei`, the refinement proved.
5. *Rooms and sign-in* (done): `StudioRoom`, `QrLogin`, `StreamlabsLogin`, their invariants proved. Left: the game list, whose concurrent
   requests share one answer.
6. *Profiles* (mostly done, in `StreamlabsLogin`): creation, deletion, provider change, verification and its roll-back. Left: start-all and end-all, manual credentials.
7. `LiveContract`: the provider state machine of docs/FUTURE_PROVIDER_CONTRACT.md,
   per profile, implemented by `LiveSession`.
8. *Theorems* (done for every safety property of the runs). Left: the refinement of `LiveContract`.

Not planned: HTTP, parsing, request signatures, localisation and
widgets. They keep no state between events and the repository unit-tests them.
