------------------------------- MODULE KSave --------------------------------
(***************************************************************************)
(* From the configuration in memory to the objects that are compiled again: *)
(* the files kconfig writes and the dependencies fixdep prints.            *)
(***************************************************************************)
EXTENDS Integers, Sequences, SequencesExt, TLAPS

-----------------------------------------------------------------------------
(***************************************************************************)
(* How kconfig puts a configuration on disk: conf_write and                *)
(* conf_write_autoconf of nemu/tools/kconfig/confdata.c as menuconfig      *)
(* (mconf) and syncconfig (conf) call them, one after the other, with a    *)
(* program that may be killed between any two file operations.             *)
(*                                                                         *)
(*   prog     the program that runs, "menu" or "sync"                      *)
(*   values   the configuration in its memory; 0 is n, which auto.conf     *)
(*            does not have                                                *)
(*   config, old, tmp   .config, .config.old and the temporary file        *)
(*   auto, header, tmpauto, tmpheader   auto.conf, autoconf.h and the      *)
(*            files they are renamed from                                  *)
(*   untouched  the symbols conf_touch_deps still has to look at           *)
(*   touched  the symbols whose include/config/*.h is newer than the       *)
(*            objects that depend on it (fixdep makes them depend on these *)
(*            files and not on autoconf.h)                                 *)
(*   built    the value the objects that use a symbol were compiled with   *)
(*   saved    the configuration the last complete conf_write put on disk   *)
(*   synced   the last program was a syncconfig and ran to its end         *)
(*                                                                         *)
(* KCONFIG_OVERWRITECONFIG is not set; with it .config is written in       *)
(* place.                                                                  *)
(***************************************************************************)

CONSTANTS Syms, Vals, NoFile,
          Kills     \* the steps before which the program may be killed

Steps == {"write", "same", "rename_old", "rename_new", "auto",
          "touch", "write_auto", "rename_header", "rename_auto"}

ASSUME KillsAssumption == Kills \subseteq Steps
ASSUME SymbolsAssumption == 0 \in Vals /\ NoFile \notin [Syms -> Vals]

VARIABLES prog, values, config, old, tmp, auto, header, tmpauto, tmpheader,
          untouched, touched, built, saved, synced, stage
disk == <<config, old, tmp, saved>>
autos == <<auto, header, tmpauto, tmpheader>>
deps == <<untouched, touched>>
saveVars == <<prog, values, disk, autos, deps, built, synced, stage>>

Config == [Syms -> Vals]
Unset == [s \in Syms |-> 0]

SaveTypeOK ==
  /\ prog \in {"menu", "sync"} /\ stage \in Steps \cup {"idle"}
  /\ values \in Config /\ built \in Config
  /\ {config, old, tmp, auto, header, tmpauto, tmpheader, saved} \subseteq Config \cup {NoFile}
  /\ untouched \subseteq Syms /\ touched \subseteq Syms
  /\ synced \in BOOLEAN

SaveInit ==
  /\ prog = "menu" /\ stage = "idle" /\ values = Unset
  /\ config = NoFile /\ old = NoFile /\ tmp = NoFile /\ saved = NoFile
  /\ auto = NoFile /\ header = NoFile /\ tmpauto = NoFile /\ tmpheader = NoFile
  /\ untouched = {} /\ touched = {} /\ built = Unset /\ synced = FALSE

Goto(a, b) == stage = a /\ stage' = b

-----------------------------------------------------------------------------
\* What conf_read finds: .config, or defaults (n here) without the file.
Loaded == IF config = NoFile THEN Unset ELSE config

\* A program starts: syncconfig keeps what it read, in menuconfig the user
\* answers what they like before it saves.
Start(p) ==
  /\ Goto("idle", "write")
  /\ prog' = p
  /\ IF p = "sync" THEN values' = Loaded ELSE values' \in Config
  /\ synced' = FALSE
  /\ UNCHANGED <<disk, autos, deps, built>>

\* conf_write: everything goes to a file of its own first.
WriteTmp ==
  /\ Goto("write", "same")
  /\ tmp' = values
  /\ UNCHANGED <<prog, values, config, old, saved, autos, deps, built, synced>>

\* is_same: an unchanged .config is left alone.
IsSame ==
  /\ stage = "same"
  /\ \/ tmp = config /\ stage' = "auto" /\ tmp' = NoFile
     \/ tmp # config /\ stage' = "rename_old" /\ UNCHANGED tmp
  /\ UNCHANGED <<prog, values, config, old, saved, autos, deps, built, synced>>

\* Faulty variant of RenameOld: the old configuration is removed.
RenameOld_unlink ==
  /\ Goto("rename_old", "rename_new")
  /\ config' = NoFile
  /\ UNCHANGED <<prog, values, old, tmp, saved, autos, deps, built, synced>>

\* rename(name, oldname): fails, unnoticed, when there is no .config.
RenameOld ==
  /\ Goto("rename_old", "rename_new")
  /\ config' = NoFile
  /\ old' = IF config = NoFile THEN old ELSE config
  /\ UNCHANGED <<prog, values, tmp, saved, autos, deps, built, synced>>

RenameNew ==
  /\ Goto("rename_new", "auto")
  /\ config' = tmp /\ saved' = tmp /\ tmp' = NoFile
  /\ UNCHANGED <<prog, values, old, autos, deps, built, synced>>

-----------------------------------------------------------------------------
\* Faulty variant of StartAuto: an auto.conf that exists is never replaced.
StartAuto_present ==
  /\ stage = "auto"
  /\ \/ auto # NoFile /\ stage' = "idle" /\ synced' = (prog = "sync") /\ UNCHANGED untouched
     \/ auto = NoFile /\ stage' = "touch" /\ untouched' = Syms /\ UNCHANGED synced
  /\ UNCHANGED <<prog, values, disk, autos, touched, built>>

\* conf_write_autoconf(overwrite): only syncconfig replaces an auto.conf.
StartAuto ==
  /\ stage = "auto"
  /\ \/ prog # "sync" /\ auto # NoFile /\ stage' = "idle" /\ UNCHANGED untouched
     \/ (prog = "sync" \/ auto = NoFile) /\ stage' = "touch" /\ untouched' = Syms
  /\ UNCHANGED <<prog, values, disk, autos, touched, built, synced>>

\* Faulty variant of Differs: a symbol without an old value is not touched.
Differs_new(s) == auto # NoFile /\ auto[s] # 0 /\ auto[s] # values[s]

\* conf_touch_deps: the value is not the one in auto.conf, where no line, or
\* no file, means n.
Differs(s) == (IF auto = NoFile THEN 0 ELSE auto[s]) # values[s]

TouchDep(s) ==
  /\ stage = "touch" /\ s \in untouched
  /\ untouched' = untouched \ {s}
  /\ touched' = IF Differs(s) THEN touched \cup {s} ELSE touched
  /\ UNCHANGED <<prog, values, disk, autos, built, synced, stage>>

TouchDone ==
  /\ untouched = {} /\ Goto("touch", "write_auto")
  /\ UNCHANGED <<prog, values, disk, autos, deps, built, synced>>

WriteAuto ==
  /\ Goto("write_auto", "rename_header")
  /\ tmpauto' = values /\ tmpheader' = values
  /\ UNCHANGED <<prog, values, disk, auto, header, deps, built, synced>>

RenameHeader ==
  /\ Goto("rename_header", "rename_auto")
  /\ header' = tmpheader /\ tmpheader' = NoFile
  /\ UNCHANGED <<prog, values, disk, auto, tmpauto, deps, built, synced>>

RenameAuto ==
  /\ Goto("rename_auto", "idle")
  /\ auto' = tmpauto /\ tmpauto' = NoFile
  /\ synced' = (prog = "sync")
  /\ UNCHANGED <<prog, values, disk, header, tmpheader, deps, built>>

-----------------------------------------------------------------------------
\* The program is killed, or the next call fails and it gives up.
Kill ==
  /\ stage \in Kills /\ stage' = "idle" /\ untouched' = {}
  /\ UNCHANGED <<prog, values, disk, autos, touched, built, synced>>

\* make app: it does not run kconfig; it compiles the objects that depend on
\* a file that was touched, with the header it finds.
Build ==
  /\ stage = "idle" /\ header # NoFile
  /\ built' = [s \in Syms |-> IF s \in touched THEN header[s] ELSE built[s]]
  /\ touched' = {}
  /\ UNCHANGED <<prog, values, disk, autos, untouched, synced, stage>>

SaveNext ==
  \/ \E p \in {"menu", "sync"} : Start(p)
  \/ WriteTmp \/ IsSame \/ RenameOld \/ RenameNew
  \/ StartAuto \/ (\E s \in Syms : TouchDep(s)) \/ TouchDone
  \/ WriteAuto \/ RenameHeader \/ RenameAuto
  \/ Kill \/ Build

SaveSpec == SaveInit /\ [][SaveNext]_saveVars

-----------------------------------------------------------------------------
\* Every object that was compiled with another value than the one in
\* autoconf.h will be compiled again: conf_touch_deps touches the files of
\* the symbols that changed, whatever was killed or built in between.
ChangesRebuild ==
  header # NoFile => \A s \in Syms : built[s] # header[s] => s \in touched

\* The configuration conf_write saved last stays on disk, as .config or as
\* .config.old, wherever the next program is killed.
ConfigKept == saved # NoFile => saved \in {config, old}

\* After a syncconfig that ran to its end, .config, auto.conf and autoconf.h
\* say the same.
SyncedAgree == synced => (auto = config /\ header = config)

\* The three together: killed programs lose no saved configuration and no
\* rebuild.
SaveSound == SaveTypeOK /\ ChangesRebuild /\ ConfigKept /\ SyncedAgree

-----------------------------------------------------------------------------
(***************************************************************************)
(* fixdep (nemu/tools/fixdep/fixdep.c): it turns the dependency file gcc   *)
(* writes for an object into one where autoconf.h is replaced by one file  *)
(* include/config/x.h for every CONFIG_X the sources mention, the files    *)
(* kconfig touches (conf_touch_dep of confdata.c).                         *)
(*                                                                         *)
(* Text is a sequence of "C" (the characters CONFIG_), "M" (_MODULE), a    *)
(* letter "a", "_" and " ".  A dependency file is a sequence of tokens:    *)
(* "target:", "autoconf.h", or the name of a source.                       *)
(***************************************************************************)

CONSTANTS MaxText,     \* longest text
          MaxDeps,     \* longest dependency file
          Contents     \* the text of every source of a dependency file

Chars == {"C", "M", "a", "_", " "}
Tokens == {"target:", "autoconf.h"} \cup DOMAIN Contents

VARIABLES text, depfile, out
fixdepVars == <<text, depfile, out>>

\* isalnum(c) || c == '_' of the last, and of every, character of an item.
IsWord(c) == c # " "

\* The end of the word that has its first character at i.
WordEnd(t, i) == CHOOSE q \in i .. Len(t) + 1 :
                   /\ \A j \in i .. q - 1 : IsWord(t[j])
                   /\ q = Len(t) + 1 \/ ~IsWord(t[q])

\* The name from p to q without a _MODULE at its end.
Name(t, p, q) == SubSeq(t, p, IF q > p /\ t[q - 1] = "M" THEN q - 2 ELSE q - 1)

\* use_config: a name is printed when it is first met.
use_config(used, n) == IF Contains(used, n) THEN used ELSE Append(used, n)

\* A CONFIG_ inside a word is passed over.
ConfigAt(t, i) == t[i] = "C" /\ (i = 1 \/ ~IsWord(t[i - 1]))

\* parse_config_file: the names of a text, added to those met before.
parse_config_file(t, used) ==
  FoldLeft(LAMBDA u, i : LET n == Name(t, i + 1, WordEnd(t, i + 1))
                         IN IF ConfigAt(t, i) /\ n # <<>> THEN use_config(u, n) ELSE u,
           used, [i \in 1 .. Len(t) |-> i])

-----------------------------------------------------------------------------
\* A name as a sequence of characters: CONFIG_ and _MODULE hold a '_'.
Spell(n) == FlattenSeq([i \in 1 .. Len(n) |->
              CASE n[i] = "C" -> <<"c", "_">> [] n[i] = "M" -> <<"_", "m">> [] OTHER -> <<n[i]>>])

Slashed(n) == [i \in 1 .. Len(n) |-> IF n[i] = "_" THEN "/" ELSE n[i]]

\* Faulty variant of print_dep: every '_' is dropped.
print_dep_joined(n) == SelectSeq(Spell(n), LAMBDA c : c # "_")

\* print_dep: '_' becomes '/', and a '/' after a '/' is not printed.
print_dep(n) ==
  LET s == Slashed(Spell(n))
      prev(i) == IF i = 1 THEN "/" ELSE s[i - 1]
      kept == SelectSeq([i \in 1 .. Len(s) |-> i], LAMBDA i : s[i] # "/" \/ prev(i) # "/")
  IN [j \in 1 .. Len(kept) |-> s[kept[j]]]

\* conf_touch_dep of confdata.c.
conf_touch_dep(n) == Slashed(Spell(n))

-----------------------------------------------------------------------------
NothingMet == [source |-> "none", list |-> <<>>, used |-> <<>>, first |-> FALSE]

\* Faulty variant of DepToken: the source's own words are not looked for.
DepToken_source(o, m) ==
  IF m = "target:" THEN [o EXCEPT !.first = TRUE]
  ELSE IF m = "autoconf.h" THEN o
  ELSE IF o.first THEN [o EXCEPT !.first = FALSE, !.source = IF @ = "none" THEN m ELSE @]
  ELSE [o EXCEPT !.list = Append(@, m), !.used = parse_config_file(Contents[m], @)]

\* One round of parse_dep_file: what it prints and the words it has met.
DepToken(o, m) ==
  IF m = "target:" THEN [o EXCEPT !.first = TRUE]
  ELSE IF m = "autoconf.h" THEN o
  ELSE LET u == [o EXCEPT !.used = parse_config_file(Contents[m], @)]
       IN IF o.first THEN [u EXCEPT !.first = FALSE, !.source = IF @ = "none" THEN m ELSE @]
          ELSE [u EXCEPT !.list = Append(@, m)]

parse_dep_file(d) == FoldLeft(DepToken, NothingMet, d)

\* "no targets found": no source was printed, and fixdep fails.
Fails(o) == o.source = "none"

-----------------------------------------------------------------------------
NotYet == [NothingMet EXCEPT !.source = "not yet"]

Texts == SeqOf(Chars, MaxText)
DepFiles == SeqOf(Tokens, MaxDeps)

FixDepInit == \/ text \in Texts /\ depfile = <<>> /\ out = NotYet
              \/ text = <<>> /\ depfile \in DepFiles /\ out = NotYet

\* fixdep runs.
RunFixdep ==
  /\ out = NotYet
  /\ out' = IF depfile = <<>> THEN [NothingMet EXCEPT !.used = parse_config_file(text, <<>>)]
            ELSE parse_dep_file(depfile)
  /\ UNCHANGED <<text, depfile>>

FixDepFinished == out # NotYet /\ UNCHANGED fixdepVars

FixDepNext == RunFixdep \/ FixDepFinished

-----------------------------------------------------------------------------
\* The names of the words of a text that begin with CONFIG_.
Mentioned(t) ==
  { Name(t, i + 1, WordEnd(t, i + 1)) : i \in { j \in 1 .. Len(t) : t[j] = "C" /\ (j = 1 \/ t[j - 1] = " ") } } \ {<<>>}

\* An object depends on each name its text mentions as CONFIG_name, once,
\* and on no other: parse_config_file skips CONFIG_ inside a longer word and
\* use_config drops repetitions.
WordsOnce ==
  \A u \in {parse_config_file(text, <<>>)} :
    ToSet(u) = Mentioned(text) /\ IsInjective(u)

\* Two paths name the same file when they differ in repeated slashes and in a
\* slash after the directory only.
Resolve(p) == SelectSeq([i \in 1 .. Len(p) |-> IF p[i] = "/" /\ (i = 1 \/ p[i - 1] = "/") THEN "drop" ELSE p[i]],
                        LAMBDA c : c # "drop")

\* The file make looks at for a name is the one kconfig touches when the
\* symbol of that name changes: fixdep and conf_touch_dep map a name to
\* the same path.
SameFile ==
  \A n \in Mentioned(text) : Resolve(print_dep(n)) = Resolve(conf_touch_dep(n))

\* Whatever the order of the dependency file, the object depends on every
\* name mentioned in any of its sources, the first one included, and fixdep
\* fails when there is no target.
AllWordsFound ==
  (depfile # <<>> /\ out # NotYet) =>
    /\ ToSet(out.used) = UNION { Mentioned(Contents[f]) : f \in ToSet(depfile) \cap DOMAIN Contents }
    /\ ("target:" \notin ToSet(depfile)) => Fails(out)

\* The time a prover may take for a step.
USE SMTT(20), ZenonT(30)

-----------------------------------------------------------------------------
(***************************************************************************)
(* Killed programs lose no saved configuration and no rebuild: SaveSound,  *)
(* for every set of symbols and values, when nothing is killed between the *)
(* two renames at the end of conf_write_autoconf.                          *)
(***************************************************************************)

\* The stages of conf_write with a temporary file, and those of
\* conf_write_autoconf.
Renaming == {"same", "rename_old", "rename_new"}
Syncing  == {"auto", "touch", "write_auto", "rename_header", "rename_auto"}

\* The value of a symbol in auto.conf or autoconf.h; no file means n.
FileValue(file, s) == IF file = NoFile THEN 0 ELSE file[s]

\* .config is what was saved last, or it is between its two renames (or was
\* killed there) and .config.old is.
DiskInv ==
  /\ config # NoFile => saved = config
  /\ config = NoFile /\ saved # NoFile => saved = old
  /\ stage \in Renaming => tmp = values
  /\ stage \in Syncing => config = values

\* autoconf.h and auto.conf agree except between their two renames; what is
\* about to be renamed is the configuration in memory.
AutoInv ==
  /\ stage # "rename_auto" => header = auto
  /\ stage = "rename_header" => tmpheader = values
  /\ stage \in {"rename_header", "rename_auto"} => tmpauto = values
  /\ stage = "rename_auto" => header = values
  /\ synced => stage = "idle" /\ config # NoFile /\ auto = config

\* An object that was compiled with another value than that of autoconf.h is
\* out of date, and so is one whose symbol conf_touch_deps has found changed.
RebuildInv ==
  /\ \A s \in Syms : built[s] # FileValue(header, s) => s \in touched
  /\ stage = "touch" =>
       \A s \in Syms : values[s] # FileValue(auto, s) => s \in touched \cup untouched
  /\ stage \in {"write_auto", "rename_header"} =>
       \A s \in Syms : values[s] # FileValue(auto, s) => s \in touched

SaveInv == SaveTypeOK /\ DiskInv /\ AutoInv /\ RebuildInv

LEMMA SaveInvInit == SaveInit => SaveInv
<1> SUFFICES ASSUME SaveInit PROVE SaveInv
  OBVIOUS
<1>1. Unset \in Config
  BY SymbolsAssumption DEF Unset, Config
<1>2. SaveTypeOK
  BY <1>1, Zenon DEF SaveInit, SaveTypeOK
<1>3. DiskInv /\ AutoInv
  BY DEF SaveInit, DiskInv, AutoInv, Renaming, Syncing
<1>4. RebuildInv
  BY DEF SaveInit, RebuildInv, FileValue, Unset
<1> QED BY <1>2, <1>3, <1>4 DEF SaveInv

LEMMA TypeNext == SaveTypeOK /\ SaveNext => SaveTypeOK'
<1> SUFFICES ASSUME SaveTypeOK, SaveNext PROVE SaveTypeOK'
  OBVIOUS
<1> USE DEF SaveTypeOK, Goto, Steps, disk, autos, deps
<1>1. ASSUME NEW p \in {"menu", "sync"}, Start(p) PROVE SaveTypeOK'
  <2>1. values' \in Config
    BY <1>1, SymbolsAssumption DEF Start, Loaded, Unset, Config
  <2> QED BY <1>1, <2>1, Zenon DEF Start
<1>2. CASE WriteTmp BY <1>2 DEF WriteTmp
<1>3. CASE IsSame BY <1>3 DEF IsSame
<1>4. CASE RenameOld BY <1>4 DEF RenameOld
<1>5. CASE RenameNew BY <1>5 DEF RenameNew
<1>6. CASE StartAuto BY <1>6 DEF StartAuto
<1>7. ASSUME NEW s \in Syms, TouchDep(s) PROVE SaveTypeOK'
  BY <1>7 DEF TouchDep
<1>8. CASE TouchDone BY <1>8 DEF TouchDone
<1>9. CASE WriteAuto BY <1>9 DEF WriteAuto
<1>10. CASE RenameHeader BY <1>10 DEF RenameHeader
<1>11. CASE RenameAuto BY <1>11 DEF RenameAuto
<1>12. CASE Kill BY <1>12 DEF Kill
<1>13. CASE Build
  <2>1. built' \in Config
    BY <1>13 DEF Build, Config
  <2> QED BY <1>13, <2>1 DEF Build
<1> QED BY <1>1, <1>2, <1>3, <1>4, <1>5, <1>6, <1>7, <1>8, <1>9, <1>10, <1>11, <1>12, <1>13
        DEF SaveNext

LEMMA DiskNext == SaveTypeOK /\ DiskInv /\ SaveNext => DiskInv'
<1> SUFFICES ASSUME SaveTypeOK, DiskInv, SaveNext PROVE DiskInv'
  OBVIOUS
<1> USE DEF DiskInv, Renaming, Syncing, Goto, disk
<1>n. values # NoFile
  BY SymbolsAssumption DEF SaveTypeOK, Config
<1>1. ASSUME NEW p \in {"menu", "sync"}, Start(p) PROVE DiskInv'
  BY <1>1 DEF Start
<1>2. CASE WriteTmp BY <1>2 DEF WriteTmp
<1>3. CASE IsSame BY <1>3 DEF IsSame
<1>4. CASE RenameOld BY <1>4 DEF RenameOld
<1>5. CASE RenameNew BY <1>5, <1>n DEF RenameNew
<1>6. CASE StartAuto BY <1>6 DEF StartAuto
<1>7. ASSUME NEW s \in Syms, TouchDep(s) PROVE DiskInv'
  BY <1>7 DEF TouchDep
<1>8. CASE TouchDone \/ WriteAuto \/ RenameHeader \/ RenameAuto
  BY <1>8 DEF TouchDone, WriteAuto, RenameHeader, RenameAuto
<1>9. CASE Kill \/ Build
  BY <1>9 DEF Kill, Build
<1> QED BY <1>1, <1>2, <1>3, <1>4, <1>5, <1>6, <1>7, <1>8, <1>9 DEF SaveNext

LEMMA AutoNext ==
  ASSUME "rename_auto" \notin Kills, SaveTypeOK, DiskInv, AutoInv, SaveNext
  PROVE  AutoInv'
<1> USE DEF AutoInv, Goto, disk, autos
<1>n. values # NoFile
  BY SymbolsAssumption DEF SaveTypeOK, Config
<1>1. ASSUME NEW p \in {"menu", "sync"}, Start(p) PROVE AutoInv'
  BY <1>1 DEF Start
<1>2. CASE WriteTmp \/ IsSame \/ RenameOld \/ RenameNew
  BY <1>2 DEF WriteTmp, IsSame, RenameOld, RenameNew
<1>3. CASE StartAuto BY <1>3 DEF StartAuto
<1>4. ASSUME NEW s \in Syms, TouchDep(s) PROVE AutoInv'
  BY <1>4 DEF TouchDep
<1>5. CASE TouchDone \/ WriteAuto \/ RenameHeader
  BY <1>5 DEF TouchDone, WriteAuto, RenameHeader
<1>6. CASE RenameAuto
  BY <1>6, <1>n DEF RenameAuto, DiskInv, Syncing
<1>7. CASE Kill BY <1>7 DEF Kill
<1>8. CASE Build BY <1>8 DEF Build
<1> QED BY <1>1, <1>2, <1>3, <1>4, <1>5, <1>6, <1>7, <1>8 DEF SaveNext

LEMMA RebuildNext ==
  ASSUME SaveTypeOK, AutoInv, RebuildInv, SaveNext
  PROVE  RebuildInv'
<1> USE DEF Goto, autos, deps
<1>1. ASSUME NEW p \in {"menu", "sync"}, Start(p) PROVE RebuildInv'
  BY <1>1 DEF Start, RebuildInv, FileValue
<1>2. CASE WriteTmp \/ IsSame \/ RenameOld \/ RenameNew
  BY <1>2 DEF WriteTmp, IsSame, RenameOld, RenameNew, RebuildInv, FileValue
<1>3. CASE StartAuto BY <1>3 DEF StartAuto, RebuildInv, FileValue
<1>4. ASSUME NEW s \in Syms, TouchDep(s) PROVE RebuildInv'
  BY <1>4 DEF TouchDep, Differs, RebuildInv, FileValue
<1>5. CASE TouchDone BY <1>5 DEF TouchDone, RebuildInv, FileValue
<1>6. CASE WriteAuto BY <1>6 DEF WriteAuto, RebuildInv, FileValue
<1>7. CASE RenameHeader
  <2>1. /\ header' = values /\ header = auto /\ stage' = "rename_auto"
        /\ UNCHANGED <<built, touched>>
    BY <1>7 DEF RenameHeader, AutoInv
  <2>2. \A s \in Syms : built[s] # values[s] => s \in touched
    BY <1>7, <2>1 DEF RenameHeader, RebuildInv, FileValue
  <2>3. values # NoFile
    BY SymbolsAssumption DEF SaveTypeOK, Config
  <2> QED BY <2>1, <2>2, <2>3 DEF RebuildInv, FileValue
<1>8. CASE RenameAuto BY <1>8 DEF RenameAuto, RebuildInv, FileValue
<1>9. CASE Kill BY <1>9 DEF Kill, RebuildInv, FileValue
<1>10. CASE Build BY <1>10 DEF Build, RebuildInv, FileValue
<1> QED BY <1>1, <1>2, <1>3, <1>4, <1>5, <1>6, <1>7, <1>8, <1>9, <1>10 DEF SaveNext

\* What kconfig has saved survives every kill, every object whose symbols
\* changed is compiled again, and a complete syncconfig leaves .config,
\* auto.conf and autoconf.h in agreement, unless a program is killed between
\* the renames of autoconf.h and of auto.conf.
THEOREM SaveIsSound == "rename_auto" \notin Kills => (SaveSpec => []SaveSound)
<1> SUFFICES ASSUME "rename_auto" \notin Kills PROVE SaveSpec => []SaveSound
  OBVIOUS
<1>1. SaveInv /\ SaveNext => SaveInv'
  BY TypeNext, DiskNext, AutoNext, RebuildNext DEF SaveInv
<1>2. SaveInv /\ UNCHANGED saveVars => SaveInv'
  BY DEF SaveInv, SaveTypeOK, DiskInv, AutoInv, RebuildInv, FileValue, saveVars, disk, autos, deps
<1>3. SaveInv => SaveSound
  BY DEF SaveInv, SaveSound, DiskInv, AutoInv, RebuildInv, FileValue, ChangesRebuild, ConfigKept,
     SyncedAgree
<1> QED BY <1>1, <1>2, <1>3, SaveInvInit, PTL DEF SaveSpec
=============================================================================
