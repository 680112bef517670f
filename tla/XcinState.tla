----------------------------- MODULE XcinState -----------------------------
(***************************************************************************)
(* The memory of the xcin server that its XIM side works on: the fields of *)
(* xccore_t (xcin.h), of the IC and IMC structures (IC.h) and of the       *)
(* cinput table (imodule.h), as one record m.  The server is a single      *)
(* thread, so every C function of the modules that extend this one is an   *)
(* operator from a memory to a memory.                                     *)
(*                                                                         *)
(* Pointers: an IC struct keeps its id for ever (new_IC hands a recycled   *)
(* struct its old id back), so a pointer to an IC is its id, and 0 is the  *)
(* NULL pointer.  An IMC is named by its id likewise.  A pointer to an     *)
(* input-method module (imodule_t) is the index of its cinput entry.       *)
(***************************************************************************)
EXTENDS Integers, FiniteSets

CONSTANTS
    Client,         \* connections, by the connect_id IMdkit gives them
    Window,         \* X windows of the clients
    MaxIC,          \* bound on the CARD16 counter that numbers the ICs
    NInp,           \* entries of the cinput table (MAX_INP_ENTRY)
    Loadable,       \* entries whose module load_module() can load
    SingleIMC,      \* XCIN_SINGLE_IMC: all the ICs share one IMC
    TIMECHECK_STEP, \* time between two sweeps of the IC list, in ticks
    IC_IDLE_TIME,   \* idle time after which a sweep probes an IC, in ticks
    NoClient, NoWindow, NoStyle,
    Supported       \* the input styles the rcfile enables

ICID    == 1..MaxIC
NULL    == 0
Inp     == 0..(NInp - 1)
English == NInp     \* any number outside the table asks for English mode
NoMod   == -1       \* no module: imodp = NULL
Style   == {"Root", "OverSpot"}

ASSUME StateAssumption ==
    /\ MaxIC \in Nat \ {0}
    /\ NInp \in Nat \ {0}
    /\ Loadable \subseteq Inp
    /\ SingleIMC \in BOOLEAN
    /\ TIMECHECK_STEP \in Nat
    /\ IC_IDLE_TIME \in Nat
    /\ NoClient \notin Client
    /\ NoWindow \notin Window
    /\ NoStyle \notin Style
    /\ Supported \subseteq Style

\* xcin_mode flags that steer the XIM side (the others only steer drawing).
ModeFlag == {"SHOW_CINPUT", "IM_FOCUS", "ICCHECK_OFF",
             "RUN_IM_FOCUS", "RUN_2B_FOCUS", "RUN_EXIT", "RUN_EXITALL"}

ICState  == {"NEWIC", "CONNECT", "FOCUS"}
InpState == {"CINPUT", "2BYTES", "XIMFOCUS", "2BFOCUS"}

(***************************************************************************)
(* time(NULL) only ever meets exec_time and last_check in a difference     *)
(* that is compared with a constant, so the model keeps the differences:   *)
(* exec_age is now - exec_time, check_age is now - last_check, and both    *)
(* stop growing one tick past their constant.                              *)
(***************************************************************************)
ICRec == [connect_id  : Client \cup {NoClient},
          exec_age    : 0..(IC_IDLE_TIME + 1),
          ic_state    : SUBSET ICState,
          client_win  : Window \cup {NoWindow},
          focus_win   : Window \cup {NoWindow},
          input_style : Style \cup {NoStyle},
          imc         : ICID \cup {NULL}]

(***************************************************************************)
(* inited and reinit are history: inited is the module whose xim_init()    *)
(* prepared the IMC's inpinfo and whose xim_end() has not released it yet; *)
(* reinit records that some xim_init() ran while another module's inpinfo  *)
(* had not been released.                                                  *)
(***************************************************************************)
IMCRec == [icid         : ICID \cup {NULL},
           ic_rec       : ICID \cup {NULL},
           inp_state    : SUBSET InpState,
           inp_num      : Inp,
           sinp_num     : Inp,
           imodp        : Inp \cup {NoMod},
           s_imodp      : Inp \cup {NoMod},
           overspot_win : BOOLEAN,
           inited       : Inp \cup {NoMod},
           reinit       : BOOLEAN]

\* cinput[n]: no name, a name whose module is not loaded yet, or loaded.
CinputState == {"free", "named", "loaded"}

Memory == [mode             : SUBSET ModeFlag,
           ic               : ICID \cup {NULL},
           icp              : ICID \cup {NULL},
           default_im       : Inp,
           default_im_sinmd : Inp,
           im_focus         : Inp,
           first_call       : BOOLEAN,
           cinput           : [Inp -> CinputState],
           icid             : 0..MaxIC,
           ic_list          : SUBSET ICID,
           IC               : [ICID -> ICRec],
           imc_list         : SUBSET ICID,
           IMC              : [ICID -> IMCRec],
           check_age        : 0..(TIMECHECK_STEP + 1)]

(***************************************************************************)
(* memset(rec, 0, sizeof(IC)) and memset(imc, 0, sizeof(IM_Context_t)).    *)
(* An exec_time of 0 is long past, like a last_check of 0 at the start.    *)
(***************************************************************************)
ZeroIC == [connect_id |-> NoClient, exec_age |-> IC_IDLE_TIME + 1,
           ic_state |-> {},
           client_win |-> NoWindow, focus_win |-> NoWindow,
           input_style |-> NoStyle, imc |-> NULL]

ZeroIMC == [icid |-> NULL, ic_rec |-> NULL, inp_state |-> {},
            inp_num |-> 0, sinp_num |-> 0, imodp |-> NoMod, s_imodp |-> NoMod,
            overspot_win |-> FALSE, inited |-> NoMod, reinit |-> FALSE]

(***************************************************************************)
(* The cinput table after load_module() was asked for every entry of S: a  *)
(* named entry gets its module, or is freed when that cannot be loaded.    *)
(***************************************************************************)
load_cinput(cinput, S) ==
    [n \in Inp |-> IF n \in S /\ cinput[n] = "named"
                   THEN IF n \in Loadable THEN "loaded" ELSE "free"
                   ELSE cinput[n]]

(***************************************************************************)
(* load_default_cinput(): the input method d the rcfile names, or else the *)
(* first entry that loads, which becomes the default and the focused one.  *)
(***************************************************************************)
default_cinput(named, d) ==
    IF d \in named \cap Loadable THEN d
    ELSE CHOOSE n \in named \cap Loadable :
            \A k \in named \cap Loadable : n <= k

load_default_cinput(named, d) ==
    LET im == default_cinput(named, d)
    IN  load_cinput([n \in Inp |-> IF n \in named THEN "named" ELSE "free"],
                    {d} \cup {n \in Inp : d # im /\ n <= im})

(***************************************************************************)
(* load_default_sinmd(): the keystroke display has a module s of its own,  *)
(* unless the rcfile says DEFAULT or that module cannot be had.            *)
(***************************************************************************)
load_default_sinmd(m, s) ==
    LET cinput == load_cinput(m.cinput, {s})
    IN  IF s \in Inp /\ cinput[s] = "loaded"
        THEN [m EXCEPT !.cinput = cinput, !.default_im_sinmd = s]
        ELSE [m EXCEPT !.cinput = cinput, !.mode = @ \cup {"SHOW_CINPUT"}]

\* The memory when main() calls gui_loop().
StartMemory(mode, named, d, s) ==
    load_default_sinmd(
      [mode |-> mode, ic |-> NULL, icp |-> NULL,
       default_im |-> default_cinput(named, d), default_im_sinmd |-> 0,
       im_focus |-> default_cinput(named, d), first_call |-> FALSE,
       cinput |-> load_default_cinput(named, d),
       icid |-> 0, ic_list |-> {}, IC |-> [i \in ICID |-> ZeroIC],
       imc_list |-> {}, IMC |-> [k \in ICID |-> ZeroIMC],
       check_age |-> TIMECHECK_STEP + 1], s)
=============================================================================
