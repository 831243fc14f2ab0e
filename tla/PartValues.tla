------------------------------ MODULE PartValues -----------------------------
(***************************************************************************)
(* Values of the parts' constants for TLC.                                 *)
(***************************************************************************)
EXTENDS Integers, TLC

CONSTANTS
  a, b, c \* two outputs, displays, buffers or processes, and a control client

\* Display keys of two monitors that differ.
Keyed == a :> "a" @@ b :> "b"

\* Formats of a worker, advertisements of clients on its GPU, on another and without
\* the synchronization the daemon asks for.
XT == << "X", "tiled", 1 >>
XL == << "X", "linear", 1 >>
XI == << "X", "invalid", 1 >>
YL == << "Y", "linear", 1 >>
YT == << "Y", "tiled", 2 >>
Gpu == [uuid |-> "u", node |-> "n"]
Syncs == {"explicit-sync-fd", "drm-syncobj-release"}
Advert(mods, linear, sync, id, node) ==
  [modifiers |-> mods, implicit |-> linear, fourccs |-> {"X"}, sync |-> sync,
   relay |-> {"shadow-copy"}, uuid |-> id, node |-> node]
SomeOffers == {<< XL, XT, YL >>, << XI, YT >>}
OneOffer == {<< XL, XT, YL >>}
SomeAdverts == {Advert({XT, YL, YT}, {"X"}, Syncs, "u", "none"),
                Advert({XI, YT, XT}, {}, Syncs, "v", "n"),
                Advert({XL, YT}, {}, Syncs, "malformed", "n"),
                Advert({XT}, {}, {}, "u", "n")}
TwoAdverts == {Advert({XT, YL, YT}, {"X"}, Syncs, "u", "none"), Advert({XT, YL}, {"X"}, Syncs, "v", "n")}
SomeImports == {{XT, XL, YL, YT}, {XL}}
TwoImports == {{XL}, {YL}}

\* Preferences of a display.
Wish(fill, fit, place, turn) == [fill |-> fill, fit |-> fit, place |-> place, turn |-> turn]
SomeWishes == {Wish("crop", 0, << 1, 1 >>, -1), Wish("fit", 0, << 0, 2 >>, 2),
               Wish("centre", 0, << 1, 0 >>, 1), Wish("stretch", 2, << 1, 1 >>, 3)}
SomeSizes == {<< 4, 2 >>, << 2, 4 >>, << 8, 4 >>}

\* Preferences of displays, and what SET_STATE and the file hold of the settings.
Entry(wall, fit, silent, fill, focus, saved) ==
  [path |-> wall, fit |-> fit, mute |-> silent, fill |-> fill, focus |-> focus, saved |-> saved]
Blank == Entry({}, {}, {}, {}, {}, {})
Props == [path |-> "p", props |-> "mine"]
Ask(reset, wrong, silent, focus, fit, clones, first, prefs) ==
  [reset |-> reset, wrong |-> wrong, mute |-> silent, focus |-> focus, fit |-> fit,
   clone |-> clones, first |-> first, prefs |-> prefs, pauseOnFocus |-> FALSE]
Only(prefs) == Ask(FALSE, FALSE, {}, {}, {}, {}, {}, {prefs})
SomePayloads ==
  {Ask(TRUE, FALSE, {TRUE}, {}, {}, {}, {}, {}), Ask(FALSE, TRUE, {}, {}, {2}, {}, {}, {}),
   Ask(FALSE, FALSE, {TRUE}, {4}, {7}, {FALSE}, {}, {}),
   Ask(FALSE, FALSE, {}, {-1}, {3}, {}, {b}, {}),
   Ask(FALSE, FALSE, {}, {}, {}, {TRUE}, {}, {}),
   Only(a :> Entry({"p"}, {4}, {}, {}, {}, {Props}) @@ b :> Entry({"q"}, {}, {TRUE}, {9}, {5}, {})),
   Only(a :> Entry({"q"}, {}, {FALSE}, {}, {}, {Props}) @@ b :> Blank),
   Only(b :> Entry({"p"}, {0}, {}, {}, {1}, {}))}
SomeFiles == {{}, {[Ask(FALSE, FALSE, {}, {1}, {}, {FALSE}, {}, {a :> Entry({""}, {}, {}, {2}, {}, {})})
                    EXCEPT !.pauseOnFocus = TRUE]}}

\* What reports contribute to the playback, delays of stops and timers that are lost.
SomeContributions == {{}, {"mute", "one"}, {"all", "stop"}}
SomeDelays == a :> 2 @@ b :> 0
SomeLate == a :> 1 @@ b :> 0

\* Settings of automatic playback, and reports of windows.
Book(all, own, rules) == [all |-> all, own |-> own, rules |-> rules]
Acts(focus, cover, audio, battery) == [focus |-> focus, cover |-> cover, audio |-> audio, battery |-> battery]
AppRule(name, on, act) == [name |-> name, on |-> on, playback |-> act]
Window(names, key, monitor, is) == [names |-> names, key |-> key, monitor |-> monitor, is |-> is]
WindowReport(displays, windows, running, players, audio, battery) ==
  [displays |-> displays, windows |-> windows, running |-> running, players |-> players,
   audio |-> audio, battery |-> battery]
SomeNames == "Mpv" :> "mpv" @@ "mpv" :> "mpv" @@ "ff" :> "ff" @@ " " :> ""
PlainBook == Book(Acts(3, 2, 1, 0), << >>, {})
SomeBooks ==
  {PlainBook,
   Book(Acts(0, 4, 0, 3), "A" :> Acts({1}, {}, {}, {0}),
        {AppRule("Mpv", "fullscreen", 4), AppRule("ff", "running", 1)}),
   Book(Acts(0, 0, 0, 0), "B" :> Acts({}, {2}, {3}, {}),
        {AppRule("mpv", "audio", 2), AppRule(" ", "running", 4), AppRule("ff", "focused", 3)})}
SomeReports ==
  {WindowReport("A" :> {"focused"} @@ "B" :> {"maximized"}, {}, {}, {}, TRUE, FALSE),
   WindowReport("A" :> {"fullscreen"},
                {Window({"mpv"}, "A", -1, {"fullscreen"}), Window({"ff"}, "", 1, {"focused"})},
                {"ff", " "}, {}, FALSE, TRUE),
   WindowReport(<< >>, {Window({"ff", "mpv"}, "", 0, {"focused", "fullscreen"})}, {},
                {[name |-> "Mpv", playing |-> TRUE]}, FALSE, FALSE)}
=============================================================================
