# xcin in TLA+

A verification development for **xcin** (the XIM input-method server in this
repository): TLA+ modules for the server, for the protocol library it speaks
through, for its windows and for its input methods; TLC configurations that
check them on small instances; and TLAPS proofs for every instance.  Paths are
relative to the repository root, which is `src/` beside this directory;
`xim.c:273` means line 273 of `src/src/xim.c`, and a name that begins with
`i18n` is in `src/src/lib/IMdkit/`.

- [1. The system](#1-the-system): components, state, interaction, hazards
- [2. Modules](#2-modules): what models what, and how
- [3. Runs](#3-runs): questions, bounds, fairness, answers
- [4. Disagreements with the documentation](#4-disagreements-with-the-documentation)
- [5. Proofs](#5-proofs)
- [6. What is not modelled](#6-what-is-not-modelled)
- [7. Plan](#7-plan)

## 1. The system

xcin is one single-threaded process.  `gui_loop()` (gui.c:353-398) takes X
events; IMdkit turns some of them into XIM protocol messages and calls
`im_protocol_handler()` (xim.c:828-899).  That function runs the handler of the
message, then `check_ic_exist()` (garbage collection of ICs) and
`gui_update_winlist()` (which window to show).  A signal runs `sighandler()`,
hence `xim_close()`, between any two steps.

| Component | Code | State it keeps | Operations | Makes it correct |
|---|---|---|---|---|
| XIM protocol handlers | xim.c | `xccore->ic`, `icp`, `xcin_mode`, `default_im`, `im_focus`, flags of IC and IMC | one handler per XIM message, `change_IM`, `circular_change_IM`, `change_simd`, `xim_close` | module bindings are valid whenever they are called through; connection and focus flags agree with the input mode; the exit completes |
| IC and IMC manager | xim_IC.c, IC.h | IC list, IMC list, free lists, `icid` counter, `ic_rec` of each IC | `new_IC`, `delete_IC`, `ic_create`, `ic_destroy`, `ic_clean_all`, `ic_set_values`, `ic_get_values`, `check_ic_exist` | a client's icid names its own IC; no pointer to a deleted IC; one IMC per IC or one for all; ICs of clients that are gone are collected, and another one only as a double; a value is answered as it was set |
| cinput table | module.c, imodule.h | per entry: free, named, loaded | `load_module`, `get_cinput`, `get_cinput_next`, `free_cinput` | an entry in use stays loaded; a search of the table ends |
| Functional keys | fkey.c | key tables, trigger table | `make_trigger_keys`, `search_funckey`, `get_trigger_key` | whatever code comes out of the half-written table does no harm |
| Start, signals | xcin_main.c | configuration, `xcin_mode` | `load_default_cinput`, `load_default_sinmd`, `sighandler` | the defaults are loaded |
| GUI loop and window list | gui.c, gui_main.c, gui_main2.c | window records and their free list, the two main windows, the font cache | `gui_loop`, `gui_new_win`, `gui_freewin`, `gui_winmap_change`, `gui_create_fontset`, `gui_free_fontset`, `gui_update_winlist` | a window draws with an open fontset; lists and X windows agree; no candidate window or title of another IC stays up |
| Candidate window | gui_overspot.c | its font, what it was placed from | `gui_overspot_init`, `_draw`, `update_IC_fontset` | it is placed from a live IC |
| GUI requests | xim_IC.c, gui_menusel.c | request array of an IMC | `greq_register`, `greq_query`, `greq_unregister` | references into the array survive its shifts |
| Input methods | Cinput/gen_inp, Cinput/zh_hex, Cinput/im_comm | keystroke buffer, preedit, candidates (inpinfo, iccf), tables | `xim_init`, `keystroke`, `show_keystroke`, `xim_end`, table search | the buffers are strings with room for the next key; the candidates are those of the buffer; lists are freed once; what is shown is what will be composed |
| Table compiler | util/cin2tab, lib/xcintool/stable_sort.c | the units and arrays of a table | `cin_chardef`, `stable_sort` | what gen_inp finds for a keystroke is what the table source says |
| IMdkit: frames | FrameMgr.c, i18nIMProto.c | a frame instance: position, sizes, iterators, the buffer | `FrameMgrGetToken`, `PutToken`, `SetSize`, `GetTotalSize`, `IsIterLoopEnd` | a reply is laid out in a buffer of the announced size; a request is read back field by field |
| IMdkit: messages | i18nPtHdr.c, i18nIc.c, i18nAttr.c | attribute and extension tables | one procedure per message, nested lists of attributes, negotiation | each request is answered once; values come back in order |
| IMdkit: clients | i18nUtil.c, i18nX.c, i18nMethod.c | client records, free list of ids, the queue of keys and the `sync` flag of each, `ims->sync` | `_Xi18nNewClient`, `_Xi18nDeleteClient`, `AddQueue`, `ProcessQueue`, `xi18n_forwardEvent`, `xi18n_preeditStart` | an IC finds its own client; keys are handled in order and none stays behind; the event mask agrees with the connection |
| Tools, siod, testprog | lib/xcintool, lib/siod, util/testprog | - | files, words, the rcfile; a demonstration client | - |

How they interact.  A handler reads and writes the IC, its IMC and the global
`xccore`; `change_IM` calls `xim_init`/`xim_end` of the modules through the
IMC's `imodp`, and loads modules through the cinput table; the window code
reads what the handlers left (`xccore->ic`, `icp`, `winchange`, the IMC and its
`ic_rec` pointer) at the end of every message and on every Expose, and asks the
X server about the client's windows.

A message procedure of IMdkit reads its frame from the client's bytes, calls
the handler of xcin with the decoded fields, and sends the reply if the handler
agrees.  Handlers call back into IMdkit: to give a key back to its client
(`IMForwardEvent`, after which the client owes an answer), to commit text, and
to change the client's event mask when an IC is connected or disconnected.

An input method module sees an IC only through the inpinfo of its IMC.  gen_inp
keeps there the keys typed so far, their names for the preedit and the page of
candidates; it searches a table that cin2tab, another program, sorted and
packed.  The two agree only by the layout of the arrays and the key codes of
keymap.c.

What is hard here.

- *Identity.*  icids are recycled (xim_IC.c:148-161), so a late message may name
  somebody else's IC; pointers to ICs are kept in `xccore->ic`, `xccore->icp`
  and `imc->ic_rec`, and ICs are deleted on three paths.  So are client records
  (i18nUtil.c:53) and window records (gui.c:262).
- *Sharing.*  `XCIN_SINGLE_IMC` makes all ICs share one IMC; `reset_inpinfo`
  (xim.c:269-279), the focus handlers and `ic_create` all treat it specially.
  Windows share fontsets, counted by hand.
- *Order.*  Focus-out of one IC and focus-in of another arrive in any order;
  keys overtake the event masks that switch a client between trigger keys and
  forwarded keys; keys wait in a queue while other messages of their client are
  handled; clients die without a message; their windows vanish first.
- *Partial failure.*  A module may fail to load in the middle of a switch; its
  entry is then freed from the table the circular keys walk.  A handler may
  refuse a request the client waits for.
- *Time.*  Garbage collection depends on two clocks (`last_check`,
  `exec_time`) and on who sends the message.
- *Exit.*  `xim_close()` waits for an answer of a client that may be dead, and
  may be run again by a second signal.
- *Layouts.*  The binary search of gen_inp relies on the order in which cin2tab
  sorted; the memory model decides how many keys of a keystroke count.  A counter
  in a frame comes before the list it counts, and a pad depends on both.
- *Parallel strings.*  gen_inp keeps a buffer, a preedit and two copies of the
  candidates in step by hand, through keys, Delete and restarts; zh_hex keeps two
  copies of its digits.
- *What is on the screen.*  Windows are redrawn by flags that each handler sets;
  an IC may leave the focus, or disappear, without the message that hides its
  window.

PROJECT.json lists each hazard at its line with the properties that cover it.

## 2. Modules

The modules of the server stack by EXTENDS; each is a layer of the C code.

| Module | Models | Holds |
|---|---|---|
| `XcinState` | xccore_t, IC, IMC, cinput_t; start-up | the record type `Memory` and `StartMemory` |
| `ImSwitch` | `change_IM`, `circular_change_IM`, `change_simd`, `call_xim_init/end`, the part of module.c they drive | operators on a memory |
| `XimIC` | xim_IC.c | operators on a memory |
| `XimHandlers` | what the handlers of xim.c and the window code do | operators on a memory |
| `XimServer` | `gui_loop`, `im_protocol_handler`, signals, clients, windows, time | VARIABLES, Init, one action per message, Next, Spec |
| `XimProperties` | - | the properties and the fair specification |
| `MCXimServer` | - | values of the constants for TLC |
| `XimServer_proofs` | - | types, pointers, ownership: lemmas and theorems |
| `XimHandlers_proofs` | - | what each handler does to the input modes: lemmas |
| `XimModes_proofs` | - | theorems on bindings, focus, connection, the candidate window's IC, the circular keys, and the lifetime of ICs and of their ids |

The protocol library:

| Module | Models | Holds |
|---|---|---|
| `FrameMgr` | FrameMgr.c | the items of a frame, the walk over it, sizes, tokens, iterators: operators |
| `IMProto` | i18nIMProto.c, and how the procedures walk its frames | the frame of each message read or written |
| `FrameSession` | one message, a token a step | VARIABLES, one action per call of the frame manager; `LaidOut`, `ReadBack` |
| `AttrValues` | i18nIc.c, i18nAttr.c, the attributes of xim_IC.c, the input styles of xim.c | operators from request to IC record to reply |
| `Negotiation` | extensions and encodings of i18nPtHdr.c | operators |
| `AttrSession` | a client that negotiates, sets and asks | composes `FrameSession`, `AttrValues`, `Negotiation`; `ValuesKept` |
| `KeyChannel` | - | the abstract promise: keys of a client are handled one by one in the order typed |
| `Xi18n` | i18nPtHdr.c, i18nIc.c, i18nMethod.c, i18nUtil.c, i18nX.c | VARIABLES, one action per message procedure, the clients, Spec, FairSpec |
| `Xi18nProperties` | - | the properties, and `Channel`, the instance of `KeyChannel` that Xi18n implements |
| `Xi18n_proofs` | - | queues, records and answers: lemmas and theorems |
| `Xi18nOrder_proofs` | - | the refinement of `KeyChannel`, and the event masks |
| `MCAttrSession`, `MCXi18n` | - | values of the constants for TLC |

The windows:

| Module | Models | Holds |
|---|---|---|
| `Memory` | linked lists | operators: walk, members, first of a kind |
| `FontCache` | `gui_create_fontset`, `gui_free_fontset`, `update_IC_fontset` | operators on the cache |
| `WinList` | window records and lists of gui.c, the requests of xim_IC.c | operators on a memory |
| `Windows` | gui_main.c, gui_main2.c, gui_overspot.c, gui_menusel.c, `gui_update_winlist`, the handlers as far as they change what is shown | VARIABLES, one action per message and event; its properties |
| `Windows_proofs` | - | lists, fonts, whose a window is and what is up: lemmas and theorems |
| `MCWindows` | - | values of the constants for TLC |

The input methods:

| Module | Models | Holds |
|---|---|---|
| `KeyCodes` | keymap.c | keys, codes, packing of keystrokes |
| `CharCode` | charcode.c | characters and their indices |
| `BSearchChar` | `bsearch_char`, `cmp_icvalue` of gen_inp.c | VARIABLES, one action per branch of the two loops; what the search promises |
| `GenCin` | `%chardef` of gencin.c, stable_sort.c | VARIABLES, one action per line and one for the end of the block |
| `TabMatch` | what is read at the index found | operators on a table |
| `GenTable` | cin2tab, then gen_inp on the same table | composes `GenCin`, `BSearchChar` and `TabMatch`; the properties that relate source and answer |
| `GenInp` | `gen_inp_xim_init`, `_xim_end`, `_keystroke` | VARIABLES, one action per call; its properties |
| `ZhHex` | `zh_hex_xim_init`, `_xim_end`, `_keystroke`, `_show_keystroke` | extends `GenInp`: an IMC is bound to one of the two; `HexAsShown` |
| `MCGenTable`, `MCGenInp` | - | values of the constants for TLC |
| `BSearchChar_proofs`, `GenInp_proofs` | - | lemmas and theorems |

The server has one thread, so a C function is an *operator from memory to
memory* (or to the set of memories it may leave, when an outcome is not
determined), and an action is one uninterrupted piece of the loop.

### The server

`pc` says which piece of `im_protocol_handler()` is next: `idle` (in
`gui_loop()`), `check` (about to run `check_ic_exist()`), `winlist` (about to
run `gui_update_winlist()`), `exited`, or `killed` by an X error.  A signal, a
tick of the clock, a dying client or a vanishing window may come between pieces.

- `m` is the memory.  An IC pointer is the icid, 0 is NULL: `new_IC()` gives a
  recycled struct its old id back, so id and address are interchangeable.  An
  IMC is named by its icid as well; a module pointer is the cinput index.
- The free list is a LIFO list in the code; `new_ids` lets `new_IC()` take any
  free id.  A deleted IC keeps only the windows and the style of its `ic_rec`,
  which a shared IMC may still point to.
- `exec_time` and `last_check` are kept as ages, capped one tick past the
  constant they are compared with, which is all that the code can tell apart.
- `inited` and `reinit` are history: which `xim_init()` prepared the inpinfo and
  whether one ran on an inpinfo nobody had released.
- `overspot_win` says that the candidate window of the IMC is in the window list.
- `clients`, `alive`, `held`, `owed` are the world outside: running clients, X
  windows that exist, the icids a client holds, the clients that owe IMdkit a
  `XIM_SYNC_REPLY`.

### The protocol

- `FrameMgr`: a frame is a sequence of items (the C array of `XimFrameRec`), an
  instance walks it and keeps per item what it was told (`ChainMgr`'s extra
  data).  Bytes are numbers; `area` is the buffer and its length the size that
  was announced.  The item a list repeats is a field of the item, where the
  array has it in the entries that follow.
- `FrameSession` writes or reads one message, one call a step.  The right layout
  (`Lay`) is defined from the protocol, independently of the frame manager:
  fields in order, a counter the bytes of its list, a pad filling up what is
  before it.
- `AttrSession` follows what is in the frames, now read and written at once as
  `FrameSession` shows they are: `order` says that the client has the other byte
  order, `rec` is the `ic_rec`, `want` what the client has set.
- `Xi18n`: `clients` maps connect ids to records, `free_clients` is the list of
  ids to be used again, `processing` the client whose `ProcessQueue` loop runs.
  `toServer` and `toClient` are the messages on their way, in order per client,
  as X events are.  `lib` is the client's Xlib: the stage of the connection, the
  request it waits for, whether it owes an answer (`mark`), the event mask it was
  last told.  The handlers of xcin are reduced to what the protocol sees: which
  IC exists, whether it is connected, whether the key is kept, committed, given
  back or ends the input mode.  A client owes an answer (`mark`) to a key given back
  and to a commit alike, since `xi18n_commit` always sets `XimSYNCHRONUS`.
- One message is one step, except that `ProcessQueue` takes a key a step, since
  each calls the whole handler and may end the loop.

### The windows

- The window records and the fontset cells are sequences, and a pointer is a place
  there, 0 being NULL: `malloc` appends a struct and a `next` links it (`Memory`).
  An X window is a number that was never given before.  Every IC has an IMC of its
  own here, so `IC[i]` holds the fields of both.
- `asked` (the font a window was given), `drawn` (the title drawn last), `unseen`
  (the current IC changed and nothing has been redrawn) and `left` (the ICs that
  lost the focus while there was no current one) are history.
- A step is a message with the `gui_update_winlist()` that follows, an event of
  the loop, or a signal.
- `start` fixes what the rcfile sets and what clients do in the whole behaviour.

### The input methods

In `GenInp` a step of `keystroke(k)` is one call of `gen_inp_keystroke()`; the
matching functions map a record of `inp` (the inpinfo_t), `iccf` and `live` to
the next.  Arrays keep their cells, indexed from 0, and what a string does not
reach stays in them, as in the code; `live` counts the lists that are allocated.
`GenInp` takes the first index of a code from `BSearchChar`'s promise
(`first_match`), and `GenTable` shows that promise on the tables `GenCin` writes.
In `BSearchChar` the arrays are variables that no step of the search changes;
`loadtab` of `GenTable` puts those that cin2tab wrote in their place.
`ZhHex` adds `hex`, the inpinfo and iccf of zh_hex, and `bound`, the module of the
entry, which stays for a behaviour.

Definitions whose comment begins with *Slip* are faulty variants of the
definition below them.  No module uses them; PROJECT.json names them as mutants,
and each property is shown to fail when one of them replaces the right one.

### What is assumed of the world outside

All of these are deliberate.

- A handler is one step; a signal inside a handler is not modelled, and windows
  do not vanish in the middle of a sweep.
- XIDs are not reused, and the windows of a client that died stay gone.  A client
  that sent XIM_CLOSE may open the input method again; a dead one stays dead.
- In `XimServer` IMdkit is an environment, whose parts the modules of the protocol
  model: `xim_connect()` succeeds (trigger keys are registered), a
  `XIM_SYNC_REPLY` reaches the handler only after `IMSyncXlib()` asked for it, and
  the handler of `XIM_CREATE_IC` sees icid 0.  Sending to a dead client is an X
  error only in `xim_close()` there; `Xi18n` has it everywhere, and it ends xcin,
  which installs no handler for it.
- A key that the input method does not absorb goes back to the client, with or
  without a sync; composing characters is not modelled in `XimServer`.
- The real on-keys are ZHEN, IMN and QPHRASE.  `make_trigger_keys()`
  (fkey.c:338-395) leaves slots of the table unwritten, so in the run `Switch`
  any functional key may come out of it.
- A client of `Xi18n` is Xlib: it makes one request at a time, sends keys while its
  mask says so, and answers the keys given back to it once for all of them,
  between requests.  It opens one connection and has one IC at a time, and little
  endian byte order (byte order is `AttrSession`'s and `FrameSession`'s subject).
- The sweep and the windows follow every message; they are `XimServer`'s and
  `Windows`' subject and left out of `Xi18n`.
- A table source has one `%chardef` block; keys are ASCII and a key name is one
  byte (`char tchar`, gen_inp.c:653, cuts longer ones).  The units that `realloc()`
  adds hold any word of `Garbage`.  `loadtab()` refuses an empty table, and look-ups
  have at most `n_max_keystroke` keys, as the buffer.
- `GenInpAssumption` takes a longest keystroke of up to `INP_CODE_LENGTH` keys, the
  most gencin.h:46 allows.  cin2tab does not check this.  With eight the end of the
  preedit falls on no cell (section 4), which the model leaves without effect.
- `keystroke()` is called only between `xim_init()` and `xim_end()`; on the server's
  side `ImReady` and `SharedImAgree` say so.
- `IMKEY_BACKSPACE`, which gen_inp.c:734 returns, is defined nowhere in the
  repository (module.h:144-153) and `process_IMKEY()` has no case for it; it is a
  result of its own here.  gen_inp never returns `IMKEY_COMMIT`, so what `cch`
  holds is not committed by xim.c.
- zh_hex takes encodings of two bytes (`HexAssumption`); its own comment says so.

## 3. Runs

`Tables` and `FiveKeyTable` use `MCGenTable`, `Telex` `MCGenInp`, `Frames`
`MCAttrSession`, `Protocol` and `Answers` `MCXi18n`, `Windows` `MCWindows`, the
others `MCXimServer`.

| Run | Settings | Properties | Result |
|---|---|---|---|
| `Multi` | 2 clients in step, 2 ICs, 2 input methods, restyling, GC off, own IMCs | TypeOK, HandlesValid, ImcOwnership, ConnectionMatchesMode, ChineseFocus, SpotRecLive | hold (1.08 M states) |
| `Switch` | 1 client, keys at any time, any trigger code, table with a hole and an entry that does not load, any defaults | ImReady, CirclesUndo, NewIcFollowsFocus | hold (51 k) |
| `Shared` | as `Switch`, `XCIN_SINGLE_IMC`, 2 ICs | SharedImAgree | holds (612 k) |
| `GC` | 2 clients that may die, one of which may name its window as the focus window of several ICs, clock, garbage collection on | PointersLive, IcLifetime, StaleOnlyBySweep, OrphansCollected | hold (446 k) |
| `Exit` | signals, close button, dying clients, vanishing windows | ExitCompletes | holds (101 k) |
| `Tables` | 7 lines over 5 keystrokes of up to 6 keys, sources of up to 5 lines in any order, encoding of 4 characters | FirstFound, ReadsInside, FindsOwnChars, RecallsKeystroke | hold (521 k) |
| `Telex` | gen_inp: 10 keys in any order, 9 definitions, pages of 2 candidates, one remapped keystroke; zh_hex: some digits, editing keys | BufferConsistent, ListsOwned, CandidatesOfBuffer, ComposedKeyByKey, HexAsShown | hold (6.3 k) |
| `Frames` | every frame read and written, both byte orders; a client that negotiates, sets values in nested lists and asks for them | LaidOut, ReadBack, ValuesKept | hold (56 k) |
| `Protocol` | a client that types and one that comes and goes, either may die, xcin may exit | WireTypeOK, NoKeyStranded, AnswerOwed, MaskAgrees, IcFindsClient | hold (2.09 M) |
| `Answers` | one client, every request and notice, 3 keys | KeysInOrder (refinement of `KeyChannel`), KeysHandled, RequestsAnswered | hold (192 k) |
| `Windows` | 2 or 3 ICs, 9 settings of rcfile and clients | FontsOpen, WindowsLive, NoStaleCandidates, MainWindowsAgree, TitleOfCurrent | hold (78 k) |
| `FiveKeyTable` | sources of 2 lines with keystrokes of 2 and 5 keys | OwnChars | violated |

Bounds and why they are enough.

- *2 clients, 2 ids* (`MaxIC`, which bounds the `icid` counter): recycling, an
  id going from one client to another, two ICs with one IMC, and an IC that is
  not the current one all need two and no more.  No code looks at three ICs at
  once.
- *Cinput tables* of 2 entries, and in `Switch` one with a free entry and one
  that fails to load, so the circular keys must skip both kinds.
- *TIMECHECK_STEP = 1, IC_IDLE_TIME = 2* ticks: the real values (300 and 600
  seconds, xim_IC.c:585-586) matter only through their comparisons; both "not yet" and "elapsed"
  occur for each, in either order.
- *ICs of one focus window* (`GC`): one client may make two for its window, so a
  sweep takes the other one while the window exists; the id goes to the other client,
  whose IC the first one deletes when it destroys its own too late; and when the other
  client dies first, the first goes on to use an icid that is the dead one's.  All
  three happen in the run.  It has no vanishing windows of clients that live; the
  theorems on the lifetime of ICs are about those too.
- *Tables* of five lines: one unit more than the encoding has characters, so a unit
  that was not cleared; arrays of length 1 to 5, in which the search meets both
  ends and every pattern of equal neighbours; keystrokes of 1, 2, 5 and 6 keys, so
  both memory models, keystrokes that share the first word, and one line outside
  the encoding.  `FindsOwnChars` leaves out the tables whose longest keystroke has
  five keys (`FiveKeyTable` is about those) and those with a unit not cleared.
- *Telex*: keystrokes of 1, 2 and 3 keys, the last being the longest of the
  table; one with more candidates than a page, one with exactly a page, one
  remapped, one that is a beginning of two others; a key that ends a word, one with
  no code (Tab), one that matches nothing, and all the editing keys.  `Digits` are a
  few whose codes are, and whose codes are not, characters of the encoding.
- *Frames*: lists of 0 to 3 elements (a list that is read has at least one: see
  section 6) and arrays of 0, 1, 2, 3 and 5 bytes, so that every pad from 0 to 3
  bytes occurs.  Values of each type, in lists of one and two, asked for alone, in
  pairs, and all in either direction; each kind of list of extensions and encodings
  (some known, in another order, none); `LongSize = 4`, the build the attribute code
  is right for.
- *Protocol, Answers*: `MaxKeys` 2 and 3, so that a key waits behind a key while
  another is handled; `MaxWire` bounds what a client has under way when it speaks,
  and 2 is enough for a key to overtake a mask and to wait behind a request.
  `Makes` has the requests of each client: in `Protocol` the lives of two clients,
  whose record one takes over from the other, in `Answers` everything.
- *Windows*: a setting has 2 ICs, as above, or 3, so that one can be stranded and
  another left after it; `MaxReq = 1`, though no input method of the repository
  registers even one; `MaxRef = 3`
  stops only menus from being opened once three windows share a font, since a menu
  never gives its font back.  Each of the `Plays` puts one thing to the test.  Records,
  cells and X windows are not bounded, and what they are called does not matter: the
  `View` of `MCWindows`, by which TLC tells states apart, names them by their places on
  the lists, and leaves out the structs that nothing leads to any more.
- `SYMMETRY` exchanges the two clients with their windows, only in `Multi`, a run of
  invariants.

Fairness.  `FairSpec` of `XimProperties` (`GC`, `Exit`): `WF(Server)`, the loop and
the rest of `im_protocol_handler()` never stop by themselves; `WF(Tick)`, time
passes; `SF(SyncReply(c))` while `c` runs: Xlib answers a sync before it does
anything else and the X server delivers events in order, so the answer is
handled even though `gui_loop()` is between two messages only now and then; weak
fairness would not do, since SyncReply is disabled while the server is in
`check`.  No client is assumed to send anything else: `OrphansCollected` has the
use of an IC whose client runs as its premise, because a server nobody talks to indeed
never collects.

`FairSpec` of `Xi18n` (`Protocol`, `Answers`): `WF(ProcessQueue)` and
`WF(Receive(a))`, xcin handles what comes; `WF(Hear(a))`, a client that lives
reads; `SF(SyncReply(a))`, it answers the keys given back to it, strong because it
does so only between two requests.  Nobody is assumed to type or to ask.

`Tables`, `Telex`, `Frames` and `Windows` check invariants only and assume none.

`CHECK_DEADLOCK FALSE` in the runs of the server and of the protocol: a server that
stopped, or clients that are all gone, legitimately do nothing more; in `Windows`,
where the server may have exited; in `Tables`, where one search is made; and in
`Frames`, where one message is read or written.  `Telex` checks for deadlock.

Every property of a passing run has a mutant in PROJECT.json that breaks it under
the same cfg.

## 4. Disagreements with the documentation

Confirmed by a run, with the quoted line in PROJECT.json "findings":

- `FiveKeyTable` - a word holds four keys (keymap.c:163), but tables of up to five
  keys get one word per keystroke (gencin.c:212), so the fifth is not kept.

Met while modelling and left to this list.  The first six were found by TLC on
these modules, by a property that the note names or that was narrowed since.

- doc/vi/structer.En:476 says "The IC has its lifetime, which is the same as that of
  its cooresponding XIM window".  A sweep deletes every IC that names the focus window
  of the IC just used (xim_IC.c:629-633), so of two ICs of one window the one not
  used goes while the window exists: the disjunct `Doubled` of `IcLifetime`.
- `ic_destroy()` trusts the icid alone (xim_IC.c:548); the client is not told of a
  sweep, and when the id has been recycled its late XIM_DESTROY_IC deletes the IC of
  another client, whose window exists: the disjunct `StaleAsked`.  Without either
  disjunct `GC` fails.
- The candidate window is placed with `XTranslateCoordinates` on a window that may
  have vanished (gui_overspot.c:71), with no error handler installed: xcin ends.
- Focus-out clears IM_2BFOCUS and focus-in does not restore it (xim.c:509, 579).
- With a single IMC, deleting the IC that the shared IMC's `ic_rec` points to leaves
  the pointer (xim_IC.c:205), and the candidate window is placed from it:
  `SpotRecLive`, checked in `Multi` with an IMC per IC, fails there (doc/vi/structer.En:492
  says ic_rec is to "point to the current IC resource").
- The name of a key is written one cell too far (gen_inp.c:704), so the preedit
  lags behind the buffer until it restarts.  With keystrokes of `INP_CODE_LENGTH`
  keys, "max # of keys in a keystroke" (gencin.h:46), the end that follows the eighth
  name is written to s_keystroke[9], one past the array (gen_inp.c:375, 705): see
  `BufferStaysInside`.
- Under `XCIN_SINGLE_IMC` with GC or re-entry, `xim_init()` may run again without
  `xim_end()` (xim.c:273 against include/module.h:238-240).
- `new_IMC()` stores the id of a new IC in the shared IMC although that IC does not
  have the focus (xim_IC.c:94); the comment at xim.c:514-516 says "we only allow
  the focus-in IC to set its id to IMC".
- A new IC under RUN_2B_FOCUS alone is connected without any input mode
  (xim.c:530 against doc/en/Usage.En:591-593).
- doc/vi/structer.En:446-448 says exec_time is set at each use of an IC; the code
  sets it only inside sweeps.
- A phrase key sent as a trigger makes another IC the current one and redraws
  nothing, so the titles and the main windows stay those of the IC before until the
  next redraw (`unseen` in `Windows`).
- If the current IC is deleted while another one still has the focus, the focus-out
  of that one hides nothing (gui.c:507-514), and its candidate window stays up while
  others are current (`left` in `Windows`), until it gets the focus or is deleted.
- Linking a font cell never sets `prev`, so unlinking one that is not the head of
  its list drops every cell before it (gui.c:70-72 takes the lists for the place to
  search); a cell recycled for a name that cannot be loaded is lost.  Fontsets leak;
  none is used after it is closed, which is what `FontsOpen` shows.
- A new font for the current IC that comes while it is in no input mode is
  forgotten, as `gui_update_winlist()` clears `ic_value_update`
  (doc/en/Usage.En:298-302 "xcin will use the font specified by the XIM client").
- `greq_query()` answers the request number of the first element for each.
- The opcode of XIM_EXTENSION is unknown to `im_protocol_handler()` (xim.c:888),
  although the extensions are offered: a key sent by XIM_EXT_FORWARD_KEYEVENT is
  swallowed.  IMdkit does not queue such a key either.
- ims->sync is one flag: the answer of any client ends the wait of `xim_close()`
  (i18nPtHdr.c:569).
- The memset at i18nPtHdr.c:1404 clears the list of encodings instead of the list of
  infos; with both, the choice of an encoding compares with NULL.  It also returns
  place 0 when no encoding of the client is known.
- A request for no extension in particular asks for all of them (i18nPtHdr.c:345,
  "query all extensions"), but the loop that reads the list never ends on an empty
  one, so such a request is not read.
- Of the attribute values: the coordinates of a spot are not swapped for a client of
  the other byte order, nor are values outside a nested list; an answer with a fontset
  is up to two bytes longer than what is reserved for it; on a build with longs of
  eight bytes a card is answered with length 8, for which nothing is written; the
  length of PreeditState is never set; the separator of a nested list is answered as
  an attribute; an attribute id that is unknown is not skipped.  `ValuesKept` leaves
  the first four out, and no client of the run sends the others.
- `setup_input_styles()` (xim.c:956) takes the bytes of its array for its elements.

## 5. Proofs

Every theorem holds for all values of the constants that satisfy the named
assumptions of the modules, and each hypothesis beyond them is stated in the
theorem.  Two ways of proof recur.  *One predicate for each function*: what a
function of the code does is summed up once, in a predicate on the memory before and
after it, so that an invariant is proved from the predicates and no function is
expanded twice.  *Steps before invariants*: a lemma says what each action amounts
to, and each invariant is then a case for each of those few forms.

### The server: types, pointers and ownership

`XimServer_proofs` assumes `StateAssumption` and `ServerAssumption`: any number of
clients, windows, ids and input methods, shared IMC or not, garbage collection on
or off, any subset of events.

| Theorem | Statement | Run on a small instance |
|---|---|---|
| `Invariance` | `Spec => []IInv` | - |
| `TypeCorrect` | `Spec => []TypeOK` | `Multi` |
| `PointersAreLive` | `Spec => []PointersLive` | `GC` |
| `ImcsAreOwned` | `Spec => []ImcOwnership` | `Multi` |

The argument.  `TypeOK` is not inductive: a handler writes
`m.IMC[m.IC[i].imc]`, which is well typed only if a listed IC has an IMC.
`IInv` adds `Attached`: listed ids do not exceed the counter, a listed IC has a
listed IMC, `ic` and `icp` are NULL or listed (`Pointed`), and the two lists
correspond (`Owned`); under a single IMC `Owned` also says that the list of IMCs
is empty only before the first IC, which is why the single IMC always has id 1.
`Sound(a)` is "a is a memory and Attached".

Most handlers do not touch the lists or the pointers: `Steady(a, b)` says so,
composes (`SteadyTrans`) and keeps a memory sound (`SteadySound`).  So there is
one lemma per operator: *Steady* for switching, keys, modes, attributes, window
list, exit and clock; `Attach` for the three handlers that make an IC current
(`SetFocusSound`, `UnsetFocusSound`, `TriggerSound`); and `CreateSound`,
`DeleteSound`, `SweepSound` where the lists change.  `NextIInv` has one step per
action.  `StartSound` needs that the default input method exists: the first
loadable entry is the least element of a non-empty set of naturals
(`LeastElement`, from the well-foundedness of `<`).

### The server: input modes, focus and connection

`XimModes_proofs`, on the lemmas of `XimHandlers_proofs`, under the same assumptions.

| Theorem | Statement | Hypotheses | Run |
|---|---|---|---|
| `ReadyInvariance` | `Spec => []ReadyInv` | none | - |
| `ImBindings` | `Spec => []Bindings` | none | - |
| `ImsAreReady` | `Spec => []ImReady` | an IMC each | `Switch` |
| `SharedImAgrees` | `Spec => []SharedImAgree` | a shared IMC | `Shared` |
| `NewIcsFollowFocus` | `Spec => NewIcFollowsFocus` | none | `Switch` |
| `SpotRecsLive` | `Spec => []SpotRecLive` | an IMC each | `Multi` |
| `ChineseFocusKept` | `Spec => []ChineseFocus` | an IMC each, `InStep` | `Multi` |
| `ConnectionsMatchModes` | `Spec => [](Exiting \/ ConnectionMatchesMode)` | an IMC each, `InStep`, triggers in `OnCodes`, `NoIMFocus \/ NoWide` | `Multi` |
| `CirclesAreUndone` | `Spec => []CirclesUndo` | none | `Switch` |

The argument.  `Ready` says what `change_IM()` relies on when it switches half of an
IMC and calls into a module: the entries that the default, the IM focus and the
display name are loaded (`Table`), and each listed IMC `Fits`, which is three
things: the focus flags go with their modes (`FlagsFit`), the IMC is in English or
in Chinese mode as a whole (`Bound`), and its inpinfo was prepared by the module
it is bound to and by no other (`History`, which has a case of its own for the
shared IMC: there `reset_inpinfo()` skips the second `xim_init`).  None of the
three is inductive alone: that a circular key does not leave an IMC half bound
needs the entries to be loaded, and they stay so because the entries in use are
what is bound.

For each function there is a predicate: `EntersIM`, `EntersEnglish` and `Leaves` for
the three pieces of `change_IM()`, `Switched` for the whole, `Turns` for a key that
switches, `Acts` for one that the client forwards, and for the handlers
`SetsFocus`, `UnsetsFocus`, `Creates`, `Calm` (the rest).  `Local(a, b, i)` says
that a message for one IC touches that IC and its IMC only.  `NextMoves` sums up
the next-state relation as `Moving`: *Calm*, or, until the server exits, one of
the four things the server does for a client (`Serving`).  Each theorem then adds
one conjunct to `ReadyInv`: `SpotFits` (the record behind a candidate window is
that of the IMC's own IC), `Lit` (Chinese focus), `Told` (connection).

The hypotheses are those of the runs, and each is needed, as section 4 says of
most.  *An IMC each*: with a shared one a deleted IC leaves its `ic_rec` behind, and
`Lit` and `Told` speak of the modes of another IC.  `InStep`: a client sends keys
only for its IC that has the focus and in the way its connection says, as Xlib
does; a trigger for another IC makes that one current.  `OnCodes` are the codes
that `make_trigger_keys()` registers to be sent by a client that is not
connected.  `NoIMFocus \/ NoWide`: a new IC that gets the focus
while the focus of the wide ASCII mode runs is connected without any mode
(xim.c:530), and that focus runs only where both settings meet.  `Exiting` is a
disjunct, not a hypothesis: `xim_close()` disconnects the current IC whatever its
mode.

`CirclesAreUndone` adds no conjunct: it is about what the two circular keys *would*
do in a state that is `Ready`.  A first accepted entry exists within one turn,
because the entry the IC is in is accepted (`ModeAccepted`, from `Bound`), and the
least such distance is the only outcome (`CircleIs`, `LeastElement`).  Trying an
entry loads it or frees it, and either way it is accepted afterwards exactly if it
was before (`SameTable`).  Turning back by u after t steps is turning t - u
(`CircleBack`), so the way back meets the skipped entries in reverse, skips them
again, and stops at the old one (`WayBack`).  The display key tries the whole table,
where the default entry is loaded (`SimdOnce`).

### The server: lifetime of ICs

The last part of `XimModes_proofs`, with the garbage collection on or off and whatever
windows the clients name.

| Theorem | Statement | Hypotheses | Run |
|---|---|---|---|
| `IcsLastLong` | `Spec => IcLifetime` | none | `GC` |
| `HandlesLostBySweeps` | `Spec => StaleOnlyBySweep` | none | `GC` |
| `HandlesOfCarefulClients` | `Spec /\ []Kept => []HandlesValid` | none | - |
| `HandlesStayValid` | `Spec => []HandlesValid` | the collection is off | `Multi` |

`IcLifetime` says which steps delete an IC whose window exists: its own client asks; a
sweep on a message for another IC finds it to name the same focus window; or a client
gives up an icid that is not its own any more (`Stale`).  The last is only possible
after one of the first kind, and `StaleOnlyBySweep` says so: a client loses an IC
behind its back only to a sweep, as a double or because its window has gone, or to
another client that had lost its own IC of that icid.  So recycling, the order of
messages, XIM_CLOSE and dying clients cost nobody an IC by themselves.  `Kept` is what
spares the clients all this under a collection that runs: the windows of the ICs of
clients that live exist, and no other IC names the focus window of one of them.

The argument.  `Known` says that a client with an icid runs, and that, until xcin is
told to exit, a client which runs holds the id of each listed IC that carries its
connection.  It is the direction that survives a sweep, since that takes ICs from the
list and tells no client; the other one, that what is held is listed, is what `Stale`
denies.  `HeldInv` is `ReadyInv` with `Known`.  Each step keeps it, explains the ICs it
deletes (`Explained`) and traces the icids that get stale to such an IC (`Traced`);
most steps do so by leaving list and owners alone (`Quiet`), those that shorten the
list by `Less`.  `SweepIs` says what a sweep takes, from the code of
`check_ic_exist()`, and that it spares the IC it was called for.

### The protocol: queues, records and answers

`Xi18n_proofs` is about any set of clients, any number of keys and messages, any
requests and events; it assumes `BoundAssumption` only.

| Theorem | Statement | Run on a small instance |
|---|---|---|
| `WireTypes` | `Spec => []WireTypeOK` | `Protocol` |
| `KeysNotStranded` | `Spec => []NoKeyStranded` | `Protocol` |
| `AnswersOwed` | `Spec => []AnswerOwed` | `Protocol` |
| `IcsFindClients` | `Spec => []IcFindsClient` | `Protocol` |

The argument.  `Typed` adds to `WireTypeOK` the types of the queues and of the
clients; with it `NoKeyStranded` is inductive.  The other two are not, because
nothing in xcin keeps a client from having two records: the record is found by the
window of the connection, made when a connection comes and deleted when one goes.
What keeps them apart is how a client behaves.  `OneAtATime`: it has one request
under way, or its reply.  `Meets`: it connects once, before it has a record.
`Ends`: from the time its CLOSE was handled it has no IC and none is asked for, so
no IC names a record that DISCONNECT frees.  `Records`: no two records have one
window, and no id is twice on the free list.  From these `Finds`, which is
`IcFindsClient` with the pieces that carry it.  `AnswerOwed` needs `Records` too:
the answer of a client clears the flag of the right record.

Every message procedure and every act of a client would have to be taken through
each conjunct.  Instead `Handled(a, op)` says once what any
procedure does to the queues and the records (types are kept, at most one reply goes
to the request, `SameRecords` except for XCONNECT and DISCONNECT, `KeepsIcs` except for
CREATE_IC), and the procedures are shown to do no more; clients ask, tell, hear or die
(`Asks`, `Tells`, `Hears`, `Dies`).  The conjuncts are then proved from these forms.

### The protocol: order of keys and masks

`Xi18nOrder_proofs`, under the same assumption.

| Theorem | Statement | Run on a small instance |
|---|---|---|
| `KeysHandledInOrder` | `Spec => KeysInOrder`, that is `Channel!Spec` | `Answers` |
| `MasksAgree` | `Spec => []MaskAgrees` | `Protocol` |

`KeysHandledInOrder` is the refinement of `KeyChannel`: the queue of a client there
is the keys that wait in its record followed by those on the connection, and every
step of `Xi18n` is a step of the channel or leaves it alone.  What `keys_of` makes of
an extended or shortened queue (`KeysAppend`, `KeysTail`) is shown without induction
on the queue: its recursive function is unfolded to `Walk`, the sequence of its values,
and any two walks agree, since the least place where they differ cannot exist
(`WalkIsKeys`).  The steps are `Typing`, `Handling`, `GivingUp` and `Rests` (`Moved`);
which one a step is depends on facts of the clients: a client that waits for a reply
says nothing more, so a request is the last message of its queue, and no key
follows DISCONNECT (`Behaves`).  And a key is handled as number `handled + 1`
because the numbers on the way count on from there (`Counted`).

`MasksAgree` needs what the messages on their way will make of the client's mask.
`Turns(v, s, on)`: a client whose mask is v has the mask on when it has heard s;
it composes (`TurnsJoin`) and loses its head (`TurnsTail`).  `Steered(a, op)` is what
a procedure does to the masks: it turns the mask of its client to what it makes of
`IC_CONNECT`, and sends none to a client that has no IC, unless the request was one
that only a client with an IC makes.  `Masked` is inductive with the three clauses
of `Agrees`, of which the third does the work: a reply that leaves its client
without an IC is the last word on its mask.

### The search of gen_inp

`BSearchChar_proofs` is about the search in arrays of any length, for codes of one
or two words.  It assumes that they are sorted (`Sorted`), which cin2tab sees to:
`FirstFound` in `Tables` fails when its sort is broken.

| Theorem | Statement | Run on a small instance |
|---|---|---|
| `Invariance` | `Spec => []IInv` | - |
| `SearchFindsFirst` | `Spec => []FirstFound` | `Tables` |
| `SearchStaysInside` | `Spec => []ReadsInside` | `Tables` |

`FirstFound` speaks of the last step only.  `IInv` adds what holds on the way: every
index left of `head` is below the code and every one from `end` on is above it
(`Bounds`), so when the bounds meet the code is nowhere; and the index the first
loop hits holds the code.  `EqualBetween` (indices that hold a code are
neighbours) is why going back one by one finds the first.

### The input methods

`GenInp_proofs` is about every table, key set, remapping and page size that
satisfies `GenInpAssumption` and `TableAssumption` (the arrays of a table have one
length), and for zh_hex about every encoding of `HexAssumption`.

| Theorem | Statement | Run on a small instance |
|---|---|---|
| `Invariance` | `Spec => []IInv` | - |
| `TypeCorrect` | `Spec => []TypeOK` | - |
| `BufferStaysInside` | `Spec => [](BufferConsistent /\ keystroke_len + 1 \in Cell /\ (n_max_keystroke < INP_CODE_LENGTH => PreeditFits))` | `Telex` |
| `ListsFreed` | `Spec => []ListsOwned` | `Telex` |
| `CandidatesAreOfBuffer` | `Spec => []CandidatesOfBuffer` | `Telex` |
| `BufferGrowsByKeystrokes` | `Spec => []ComposedKeyByKey` | `Telex` |
| `HexShownAsTyped` | `InpSpec => []HexAsShown` | `Telex` |
| `GenInpUndisturbed` | `InpSpec => Spec` | - |

`Good(s)` says that the record has its shape and that its buffer is a string of
`keystroke_len` keys, `Owned(s)` that the list allocated is the one held, `Roomy(s)`
that the next key fits.  Each function has a lemma: match and commit leave the
buffer alone (`SameBuffer`), reset and restart make it roomy, `put_key` may fill it.
That a full buffer is always emptied in the same call is what makes `Roomy`
inductive, and is where the bound on the longest keystroke is used.
`BufferStaysInside` makes three claims for keystrokes of up to eight keys: the buffer is
a string still to be completed; the cells of the keystroke that the next key writes
exist; and those of the preedit (`PreeditFits`), which go one further, exist if the table
has no keystroke of eight keys.  With one they do not, after seven keys: that last
hypothesis is the boundary of the code's own overrun, not of the proof.
`Faithful(s)` is the rest: the candidates are those of the buffer (`Shown`) and
every beginning of it is in the table (`Stepwise`).  A key breaks it in the middle
of a call and the call mends it at its end, so the lemmas say which function
establishes it and which needs it: a match establishes `Shown` from nothing, and
`put_key` with a match that succeeds extends `Stepwise` by one.

For zh_hex `HexInv` says that the two copies of the digits are alike (`Alike`),
that a full buffer which was not committed codes no character (`FullIsNone`), and
that the digits computed back from a committed character are those of the buffer
(`CommitShows`), which is arithmetic on two bytes of two nibbles each.
`GenInpUndisturbed` is why the theorems on gen_inp, which speak of its own
specification, hold of an IMC that may be bound to either.

### The windows

`Windows_proofs` is about any number of ICs, of fonts that load or do not, of input
methods, and any settings, with one request per IMC at a time (`MaxReq = 1`).

| Theorem | Statement | Run on a small instance |
|---|---|---|
| `WindowsSound` | `Spec => []WindowsInv` | - |
| `WindowsKeepTheirFonts` | `Spec => [](Closing \/ FontsOpen)` | `Windows` |
| `WindowListSound` | `Spec => [](Closing \/ WindowsLive)` | `Windows` |
| `CandidatesFollowFocus` | `Spec => []NoStaleCandidates` | `Windows` |
| `MainWindowNeeded` | `Spec => []MainWindowsAgree` | `Windows` |
| `TitlesStayTrue` | `Spec => []TitleOfCurrent` | `Windows` |

The hypothesis is that of the program as it is: `MAX_GREQ_CNT` allows more, but no
input method of the repository registers a request, and with two `WindowsLive` is
false (section 6).  `Closing` is a disjunct of the second and third because
`xcin_mainwin_destroy()` frees the windows of an IC and leaves its pointers to them
as they are; what is still true of the list and of the fonts then is checked by the
run and not proved.  The other three properties speak of a server that runs.

The argument.  None of the five is inductive.  `WindowsInv` says that the memory is
`Good` until xcin is told to exit:

- `Base` is what never depends on the update.  `Heap`: `winlist` and `free_win` are
  lists that share no record, the records on the first are not marked to exit,
  their X windows are different and are all there are, and the font cache serves
  them.  `Own`: each record is one of the main windows, the candidate window of a
  live IC or the menu of its request, and the IC knows it; and whatever window an IC
  knows of is there.  `ICs`: the focus flags go with their modes.
- `Up`: a window of an IC is up only while that IC has the focus or is one of
  `left`, and for the current IC only while it takes keys.
- `Fixed`: which main windows exist, which are always up and which never.
- `Told`: unless a phrase key came last, the main windows are up and titled as
  the current IC calls for (`Seen`); and if one did, that IC takes no keys.

Lists are walked by a function, and TLAPS has no induction over it.  `IsList` says
instead that there is a sequence of different structs of which each names the
next; what the walk visits is then one equation (`WalkOfChain`), and pushing,
dropping and searching are lemmas on the sequence (`ListPushed`, `ListDropped`,
`FirstFound`).

The fonts: `FontsSound(F, H, A)` says of the cache F, with H the font that each
window draws with and A the name it was given, that the lists of fonts in use and of
idle ones share no cell, that a font in use has at least as many references as
windows and is open, and that an idle one has no window.  "At least", because a menu
never gives its font back.  It has one lemma per way to answer who wants a font
(`SharingSound`, `RevivingSound`, `RecyclingSpares`, `AllocatingSpares`), and
`FreeingSound`.

The update: a handler leaves the memory `Ready`, which is `Good` with `Up` weakened to
`UpBefore` (the windows of the IC that was left may still be up) and `Told` only if the
titles are not flagged for drawing.  `Updated` shows that `gui_update_winlist()` makes
a Ready memory Good, one lemma per function it calls: the menus (`RequestsShown`), the
candidate window that is left and the one that is drawn (`CandidateLeft`,
`CandidateDrawn`), the wide window and then the small one, which looks at the wide
one (`MainsDrawn`).  `Drawn(t, u, N, W)` keeps these short: u is t with windows
drawn, so that only the fields N differ and no window but those of W came up or
went.  Each handler has a lemma that it leaves the memory Ready, by what it sets
(`Tuned`), the windows it makes (`MenuOwned`, `SpotOwned`) and those it frees
(`Ended`, `Erased`, `Gone`).  That the deletion of a set of ICs, a fold, does so needs
the recursive function behind the fold to exist: it is built for the sets of at most
n ICs, for every n (`UptoAny`).  A window that is exposed between two messages is
drawn without an update; it stays Good because the flags leave it nothing to
change (`Exposed`).

Once xcin is told to exit only that is kept: a message changes the mode no more
(`Same`), and a main window that is closed always tells it (`ClosedSound`).

### Only model-checked

- The liveness properties (`OrphansCollected`, `ExitCompletes`, `KeysHandled`,
  `RequestsAnswered`), which are out of the prover's reach.
- What recursive definitions compute: the frame manager (`LaidOut`, `ReadBack`,
  `ValuesKept`) and cin2tab's sort (`FindsOwnChars`, `RecallsKeystroke`), whose modules
  declare RECURSIVE operators.
- Of the windows, what is left of `FontsOpen` and of `WindowsLive` once xcin is told
  to exit.

## 6. What is not modelled

- Drawing, colours, geometry, text of messages, locale, the rcfile (siod), finding
  and opening module files: I/O and wording, no control state.
- In the server, what an input method composes, quick phrases, and committing a
  string to the client: reduced to whether the key goes back.  In `Xi18n` a key, and a
  phrase key sent as a trigger, may commit a string or not.  The modules of
  gen_inp and zh_hex stand beside the server and are tied to it by what they assume.
- The guimode bits, the beep modes and the resources of gen_inp that
  `gen_inp_keystroke()` does not read; parsing of tables and of KEYSTROKE_REMAP;
  reading the configuration of zh_hex.
- Of IMdkit: how the bytes of a message travel (client messages or properties), the
  race of two servers for XIM_SERVERS (i18nMethod.c:497-655), the callbacks of
  i18nClbk.c, which xcin never makes though their frames are among those of `Frames`,
  `Xi18nXWait`, IMValues.c, and the sample in doc/.  The reader of connect_fr stops
  before its list, whose sub-frame has no end in the table; `commit_both_fr` is
  written with an empty string by nobody; `FrameMgrIsIterLoopEnd()` never ends an
  empty list, so the lists that are read have an element.
- Two X requests in flight, hence late X errors (xim_IC.c:594): the models have no
  request queue.
- In `Windows`: the shared IMC (there the base font of a deleted IC stays in use), the
  IM focus mode, more than one request of an IMC, closing the main window while
  another is being freed.  With two requests the window of the second keeps the number
  1 after the first is withdrawn, and its next redraw would go through a NULL pointer
  (xim_IC.c:718); nothing in the repository calls `greq_register()`.
- The syntax of functional keys in the rcfile and the layout of the trigger table:
  `Switch` lets any code come out of it.
- Full width characters and quick phrases (im_comm), the wildcard match and word
  splitting of xcintool, bimscin.c and syscin.c of cin2tab.
- util/testprog, a demonstration client, and siod, a Scheme interpreter.

## 7. Plan

Done: the core of the server with all its safety properties proved; cin2tab
and gen_inp with theirs; the protocol, from bytes to clients, with the safety
properties and the refinement proved; the windows and the font cache, proved for a
server that runs; zh_hex.

What is left, in this order:

1. The windows of a server that exits: an invariant over records that may be on both
   lists or on none.
2. `XimServer` and `Xi18n` composed: the sweep and the connect ids in one model.
3. The configuration of the cinput table (SETKEY, xcin_main.c:483) and the layout of
   the trigger table; quick phrases and full width characters; the wildcard match.
