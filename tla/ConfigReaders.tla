---------------------------- MODULE ConfigReaders -----------------------------
(***************************************************************************)
(* The two readers of a configuration file: flattenYaml (ConfigManager.cpp)*)
(* takes what is outside the cameras block, parseMultiCameraConfig the     *)
(* block.  load runs one after the other over the same lines and neither   *)
(* sees what the other keeps, so one step here reads one line with both.   *)
(* written is what the file says to a reader of YAML: the settings, each   *)
(* under the headers it is indented below.  A line counts two spaces as    *)
(* one level.  Files with odd indentation, lines without a colon, a '#', a *)
(* dash alone, or a list no deeper than its header are not looked at.      *)
(***************************************************************************)
EXTENDS ConfigSchema

CONSTANTS Lines,      \* the lines a file may have
          MaxLines

VARIABLES lines,      \* how many lines were read
          open,       \* the headers the last line is below
          written,    \* [<<camera, path>> -> word or sequence of words]; camera 0 is outside
          count,      \* cameras begun in the file
          flat,       \* flattenYaml and its output
          multi       \* parseMultiCameraConfig and config.cameras

readers == <<lines, open, written, count, flat, multi>>

IsHeader(l) == l.value = "" /\ ~l.dash
Empty == [x \in {} |-> x]
Put(f, x, v) == [y \in DOMAIN f \cup {x} |-> IF y = x THEN v ELSE f[y]]

Unread == /\ lines = 0 /\ open = <<>> /\ written = Empty /\ count = 0
          /\ flat = [parents |-> <<>>, list |-> <<>>, skip |-> FALSE,
                     scalars |-> Empty, lists |-> Empty, error |-> FALSE]
          /\ multi = [inside |-> FALSE, ended |-> FALSE, cameras |-> <<>>, section |-> <<>>,
                      pending |-> <<>>, error |-> FALSE]

-----------------------------------------------------------------------------
(* flattenYaml: 74-136.                                                    *)
Extend(f, p, w) == Put(f, p, Append(IF p \in DOMAIN f THEN f[p] ELSE <<>>, w))

FlatItem(r, l) == IF r.list = <<>> THEN [r EXCEPT !.error = TRUE]
                  ELSE [r EXCEPT !.lists = Extend(@, r.list, l.value)]

(* Popped until the last one is shallower than the line.                   *)
ParentsOf(r, l) ==
  LET Left(n) == /\ \A i \in n + 1 .. Len(r.parents) : r.parents[i].depth >= l.depth
                 /\ n > 0 => r.parents[n].depth < l.depth
  IN SubSeq(r.parents, 1, CHOOSE n \in 0..Len(r.parents) : Left(n))

FlatPair(r, l) ==
  LET parents == ParentsOf(r, l)
      path == Append([i \in DOMAIN parents |-> parents[i].key], l.key)
  IN IF l.value = "" THEN [r EXCEPT !.parents = Append(parents, [depth |-> l.depth, key |-> l.key]),
                                    !.list = path]
     ELSE IF l.value = "[1]" THEN [r EXCEPT !.parents = parents, !.list = <<>>,
                                            !.lists = Put(@, path, <<"1">>)]
     ELSE [r EXCEPT !.parents = parents, !.list = <<>>, !.scalars = Put(@, path, l.value)]

FlatLine(r, l) ==
  IF l.key = "" /\ ~l.dash THEN r
  ELSE IF l.depth = 0 /\ l.key = "cameras" /\ l.value = "" THEN [r EXCEPT !.skip = TRUE]
  ELSE IF r.skip /\ l.depth > 0 THEN r
  ELSE LET s == [r EXCEPT !.skip = FALSE]
       IN IF l.dash THEN FlatItem(s, l) ELSE FlatPair(s, l)

-----------------------------------------------------------------------------
(* parseMultiCameraConfig: 312-392.                                        *)
Error(r) == [r EXCEPT !.error = TRUE]
InCamera(r, p, v) == [r EXCEPT !.cameras[Len(r.cameras)] = Put(@, p, v)]

ItemsConvert(p, ws) == ListConverts(CameraKeys[p], ws)
AddItems(r, p, ws) ==
  IF ItemsConvert(p, ws)
  THEN LET c == r.cameras[Len(r.cameras)]
       IN InCamera(r, p, (IF p \in DOMAIN c THEN c[p] ELSE <<>>) \o ws)
  ELSE Error(r)

(* Placeholders are expanded before the key is looked at, in two sections. *)
Expands(section) == section \in {<<"source">>, <<"control">>}

(* assignSource, assignTracking, assignMonitoring, assignControl,          *)
(* assignAutoPtz: an unknown key is passed over.                           *)
Assigned(r, l) ==
  LET p == Append(r.section, l.key)
  IN IF Expands(r.section) /\ l.value = "unset" THEN Error(r)
     ELSE IF p \notin DOMAIN CameraKeys THEN r
     ELSE IF IsList(CameraKeys[p])
     THEN AddItems(r, p, IF l.value = "[1]" THEN <<"1">> ELSE <<l.value>>)
     ELSE IF Converts(CameraKeys[p], l.value, FALSE)
     THEN InCamera(r, p, Converted(CameraKeys[p], l.value))
     ELSE Error(r)

NewCamera(r, l) ==
  IF l.key # "id" THEN Error(r)
  ELSE [r EXCEPT !.cameras = Append(@, Put(Empty, <<"id">>, l.value)),
                 !.section = <<"none">>, !.pending = <<>>]

CameraLine(r, l) ==
  LET s == [r EXCEPT !.pending = <<>>, !.section = <<>>]
  IN IF l.value # ""
     THEN [Assigned(s, l) EXCEPT !.section = r.section]
     ELSE [s EXCEPT !.section = IF l.key \in {"source", "tracking", "monitoring", "control"}
                                THEN <<l.key>> ELSE <<"none">>]

(* Plausible bug: what comes after auto_ptz is still taken for its own.    *)
SectionStaysAutoPtz(r, l) ==
  IF r.section = <<"control">> /\ l.key = "auto_ptz" /\ l.value = ""
  THEN [r EXCEPT !.section = <<"control", "auto_ptz">>, !.pending = <<>>]
  ELSE IF l.value = "" /\ l.key \in {"target_classes", "target_class_ids"}
  THEN [r EXCEPT !.pending = <<"monitoring", l.key>>]
  ELSE Assigned(r, l)

(* A list keeps what follows it until another header, whatever its section.*)
SectionLine(r, l) ==
  LET s == [r EXCEPT !.section = IF @ = <<"control", "auto_ptz">> THEN <<"control">> ELSE @]
  IN IF s.section = <<"control">> /\ l.key = "auto_ptz" /\ l.value = ""
     THEN [s EXCEPT !.section = <<"control", "auto_ptz">>, !.pending = <<>>]
     ELSE IF l.value = "" /\ l.key \in {"target_classes", "target_class_ids"}
     THEN [s EXCEPT !.pending = <<"monitoring", l.key>>]
     ELSE Assigned(s, l)

AutoPtzLine(r, l) ==
  IF l.value = "" /\ l.key = "priority_classes"
  THEN [r EXCEPT !.pending = Append(r.section, l.key)]
  ELSE Assigned(r, l)

CameraBlockLine(r, l) ==
  CASE l.depth = 1 /\ l.dash        -> NewCamera(r, l)
    [] ~(l.depth = 1 /\ l.dash) /\ r.cameras = <<>> -> Error(r)
    [] OTHER -> CASE l.dash /\ r.pending # <<>> -> AddItems(r, r.pending, <<l.value>>)
                  [] l.dash /\ r.pending = <<>> -> Error(r)
                  [] ~l.dash /\ l.depth = 2     -> CameraLine(r, l)
                  [] ~l.dash /\ l.depth = 3     -> SectionLine(r, l)
                  [] ~l.dash /\ l.depth = 4 /\ r.section = <<"control", "auto_ptz">>
                                                -> AutoPtzLine(r, l)
                  [] OTHER -> r

MultiLine(r, l) ==
  IF r.ended THEN r
  ELSE IF ~r.inside THEN [r EXCEPT !.inside = l.depth = 0 /\ l.key = "cameras" /\ l.value = ""]
  ELSE IF l.depth = 0 THEN [r EXCEPT !.ended = TRUE]
  ELSE CameraBlockLine(r, l)

-----------------------------------------------------------------------------
(* What the file says.  It is well formed: a line is below a header, a     *)
(* header is a list where the settings have one and no setting elsewhere,  *)
(* only lists are in brackets, and no setting is given twice.              *)
ListKeys == {p[Len(p)] : p \in {q \in DOMAIN CameraKeys : IsList(CameraKeys[q])}
                                \cup {q \in DOMAIN FileKeys : IsList(FileKeys[q])}}
InBlock(l) == l.depth > 0 /\ open[1] = "cameras"
Above(l)   == IF l.depth = 0 THEN <<>> ELSE SubSeq(open, 1, l.depth)
Where(l)   == LET path == Append(Above(l), l.key)
              IN IF InBlock(l) THEN <<count, SubSeq(path, 3, Len(path))>> ELSE <<0, path>>
Keys(l)    == IF InBlock(l) THEN CameraKeys ELSE FileKeys
Listed     == LET path == IF open[1] = "cameras" THEN SubSeq(open, 3, Len(open)) ELSE open
              IN <<IF open[1] = "cameras" THEN count ELSE 0, path>>

Begins(l)  == l.dash /\ l.key = "id" /\ l.depth = 1 /\ InBlock(l)
Item(l)    == /\ l.dash /\ l.key = ""
              /\ open # <<>> /\ l.depth = Len(open) /\ open[Len(open)] \in ListKeys
Pair(l)    == /\ ~l.dash /\ l.key # ""
              /\ InBlock(l) => l.depth > 1
              /\ l.depth > 0 => open[l.depth] \notin ListKeys
              /\ Where(l) \notin DOMAIN written
              /\ IsHeader(l) => (l.key \in ListKeys <=> Where(l)[2] \in DOMAIN Keys(l))
              /\ l.value = "[1]" => l.key \in ListKeys
Blank(l)   == ~l.dash /\ l.key = ""

Write(l) ==
  \/ Blank(l) /\ UNCHANGED <<open, written, count>>
  \/ /\ Begins(l) /\ count' = count + 1
     /\ open' = <<"cameras", "-">>
     /\ written' = Put(written, <<count + 1, <<"id">>>>, <<l.value>>)
  \/ Item(l) /\ written' = Extend(written, Listed, l.value) /\ UNCHANGED <<open, count>>
  \/ /\ Pair(l) /\ UNCHANGED count
     /\ open' = IF IsHeader(l) THEN Append(Above(l), l.key) ELSE Above(l)
     /\ written' = IF IsHeader(l) /\ ~(l.depth = 0 /\ l.key = "cameras") THEN written
                   ELSE Put(written, Where(l), <<IF l.value = "[1]" THEN "1" ELSE l.value>>)

Read == /\ lines < MaxLines /\ ~flat.error /\ ~multi.error
        /\ \E l \in Lines : /\ l.depth <= Len(open)
                            /\ Write(l)
                            /\ flat' = FlatLine(flat, l)
                            /\ multi' = MultiLine(multi, l)
        /\ lines' = lines + 1

Reading == Unread /\ [][Read]_readers

-----------------------------------------------------------------------------
(* load(): the settings of the file converted, then both readers' output   *)
(* validated; main() goes on to the detector.                              *)
KnownScalars == {p \in DOMAIN flat.scalars \cap DOMAIN FileKeys : ~IsList(FileKeys[p])}
FileSettings == [p \in KnownScalars |-> Converted(FileKeys[p], flat.scalars[p])]
FileConverts == /\ \A p \in KnownScalars : Converts(FileKeys[p], flat.scalars[p], TRUE)
                /\ \A p \in DOMAIN flat.lists \cap DOMAIN FileKeys :
                     ListConverts(FileKeys[p], flat.lists[p])
Accepted == /\ ~flat.error /\ FileConverts /\ ~multi.error
            /\ Valid(FileSettings, multi.cameras)
Starts == Accepted /\ DetectorValid(FileSettings)

(* What is written of camera n, of the file itself when n = 0, and what it *)
(* means; a setting of the camera that is not in the file has its default. *)
PathsOf(n) == {w[2] : w \in {x \in DOMAIN written : x[1] = n}}
Means(kind, ws) == IF IsList(kind) THEN ws ELSE Converted(kind, ws[1])

Setting(n, p, default) == IF <<n, p>> \in DOMAIN written
                          THEN Means(CameraKeys[p], written[<<n, p>>]) ELSE default
Usable ==
  /\ <<0, <<"model", "max_detections">>>> \in DOMAIN written =>
       written[<<0, <<"model", "max_detections">>>>] # <<"0">>
  /\ Cardinality({written[<<n, <<"id">>>>] : n \in 1..count}) = count
  /\ \A n \in 1..count :
       /\ Setting(n, <<"priority">>, 1) \in 1..16
       /\ Setting(n, <<"source", "queue_size">>, 1) \in 1..8
       /\ Setting(n, <<"control", "queue_size">>, 4) \in 1..32
       /\ Setting(n, <<"source", "reconnect_initial_ms">>, 250)
            <= Setting(n, <<"source", "reconnect_max_ms">>, 10000)
       /\ Setting(n, <<"monitoring", "lost_frames">>, 10) > 0
       /\ Setting(n, <<"control", "auto_ptz", "enabled">>, "0") = "1" =>
            Setting(n, <<"control", "type">>, "none") # "none"

(* Once both readers are through, the cameras and their settings are those *)
(* of the file, each in the camera and the section it is indented below,   *)
(* and the rest of the file is its other settings, each under its headers; *)
(* a value that does not convert or a missing variable was refused.        *)
SettingsWhereWritten ==
  ~flat.error /\ ~multi.error =>
    /\ \A p \in PathsOf(0) \ {<<"cameras">>} :
         \/ p \in DOMAIN flat.scalars /\ written[<<0, p>>] = <<flat.scalars[p]>>
         \/ p \in DOMAIN flat.lists /\ written[<<0, p>>] = flat.lists[p]
    /\ DOMAIN flat.scalars \cup DOMAIN flat.lists \subseteq PathsOf(0)
    /\ Len(multi.cameras) = count
    /\ \A n \in 1..count :
         /\ DOMAIN multi.cameras[n] = PathsOf(n) \cap DOMAIN CameraKeys
         /\ \A p \in DOMAIN multi.cameras[n] :
              LET ws == written[<<n, p>>]
              IN /\ IF IsList(CameraKeys[p]) THEN ItemsConvert(p, ws)
                    ELSE Converts(CameraKeys[p], ws[1], FALSE)
                 /\ multi.cameras[n][p] = Means(CameraKeys[p], ws)
                 /\ ws[1] = "unset" => ~Expands(SubSeq(p, 1, Len(p) - 1))

(* What the program is started with is what the other modules assume: each *)
(* camera of the file has its own id, a weight the scheduler can give      *)
(* slots to, queues of the sizes allowed, delays that grow, a threshold of *)
(* lost frames that is not zero (though a written -1 becomes one that no   *)
(* object reaches), an adapter where Auto-PTZ is to move the camera, and a *)
(* detector that may report something.                                     *)
AcceptedIsUsable == Starts => Usable
=============================================================================
