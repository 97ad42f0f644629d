------------------------------- MODULE HostSide -------------------------------
(***************************************************************************)
(* The parts of a host that have no state in common, one beside the other: *)
(* its store, pairing, the injected input, the screen's stream and the     *)
(* clipboard.  A behaviour is one of `part`: of parts that share nothing,  *)
(* all interleavings have the properties that each has alone.              *)
(***************************************************************************)
EXTENDS DeviceStore, Integers

CONSTANTS
    None,
    Attempts, SecretOf, MayQuit,                               \* Pairing
    Backends, Keys, Buttons, Modifiers,                        \* InputInjection
    Unit, Width, AbsMax, EmitFails, Rects,
    Displays, MaxViewers, MayFail, Queue,                      \* ScreenStream
    Texts, MaxCopies, MaxLinks                                 \* ClipboardSync

\* The absent job is none.
Captures == [display : Displays, cursor : BOOLEAN]
Jobs == [frame : Displays, begun : BOOLEAN, forced : BOOLEAN, zoom : 0 .. MaxViewers]

ASSUME InputAssumption ==
    /\ Unit \in Nat \ {0} /\ Width \in Nat \ {0}
    /\ AbsMax \in Nat
    /\ EmitFails \in BOOLEAN
    /\ Rects \subseteq [o : Nat, m : Nat, d : Nat \ {0}]

ASSUME ScreenAssumption ==
    /\ Displays # {}
    /\ MaxViewers \in Nat
    /\ None \notin Displays \cup Captures \cup Jobs

VARIABLE part

-----------------------------------------------------------------------------

VARIABLES room, pairUp, inbox, pairAt, peer, cut
pairVars == <<room, pairUp, inbox, pairAt, peer, cut>>

Pair == INSTANCE Pairing WITH up <- pairUp, at <- pairAt

VARIABLES backend, rect, inputZoom, tracked, held, last, seen
inputVars == <<backend, rect, inputZoom, tracked, held, last, seen>>

Input == INSTANCE InputInjection WITH zoom <- inputZoom

VARIABLES viewer, up, said, decoder, events, authorized, accepting, current, show,
          handle, zoom, frame, force, job, size, missed, intra, owed
screenVars == <<viewer, up, said, decoder, events, authorized, accepting, current, show,
                handle, zoom, frame, force, job, size, missed, intra, owed>>

Screen == INSTANCE ScreenStream

VARIABLES clip, lastHash, incoming, clipAt, wire, link, links, copied, copies
clipVars == <<clip, lastHash, incoming, clipAt, wire, link, links, copied, copies>>

Clipboard == INSTANCE ClipboardSync WITH at <- clipAt

-----------------------------------------------------------------------------

Stores(A) == part = "store"     /\ A /\ UNCHANGED <<part, pairVars, inputVars, screenVars, clipVars>>
Pairs(A)  == part = "pairing"   /\ A /\ UNCHANGED <<part, vars, inputVars, screenVars, clipVars>>
Inputs(A) == part = "input"     /\ A /\ UNCHANGED <<part, vars, pairVars, screenVars, clipVars>>
Shows(A)  == part = "screen"    /\ A /\ UNCHANGED <<part, vars, pairVars, inputVars, clipVars>>
Syncs(A)  == part = "clipboard" /\ A /\ UNCHANGED <<part, vars, pairVars, inputVars, screenVars>>

SideInit ==
    /\ part \in {"store", "pairing", "input", "screen", "clipboard"}
    /\ Init /\ Pair!Init /\ Input!Init /\ Screen!Init /\ Clipboard!Init

SideNext ==
    \/ Stores(Next) \/ Pairs(Pair!Next) \/ Inputs(Input!Next)
    \/ Shows(Screen!Next) \/ Syncs(Clipboard!Next)

sideVars == <<part, vars, pairVars, inputVars, screenVars, clipVars>>

\* Pair!FairSpec and Screen!FairSpec.
SideFairness ==
    /\ \A a \in Attempts :
          WF_sideVars(Pairs(Pair!Hub(a))) /\ WF_sideVars(Pairs(Pair!Client(a)))
    /\ WF_sideVars(Shows(Screen!HostLoop)) /\ WF_sideVars(Shows(Screen!Resume))
    /\ WF_sideVars(Shows(Screen!Grab)) /\ WF_sideVars(Shows(Screen!Take))
    /\ WF_sideVars(Shows(Screen!Begin)) /\ WF_sideVars(Shows(Screen!Finish))
    /\ SF_sideVars(Shows(Screen!Made)) /\ SF_sideVars(Shows(Screen!PictureLoss))

SideSpec == SideInit /\ [][SideNext]_sideVars /\ SideFairness

-----------------------------------------------------------------------------

\* The modules' properties, each of its part.
PairedIsMutual  == Pair!PairedIsMutual
BothUnlessCut   == Pair!BothUnlessCut
RequestsAreKept == Screen!RequestsAreKept
PictureRecovers == Screen!PictureRecovers
NoEcho          == Clipboard!NoEcho

\* Keys, places and pictures: what the viewer does is what the host's system sees.
InjectsWhatWasMeant ==
    Input!NothingLeaks /\ Input!StaysOnTheOutput /\ Input!PictureMeetsPointer
=============================================================================
