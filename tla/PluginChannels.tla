--------------------------- MODULE PluginChannels ---------------------------
(***************************************************************************)
(* The handlers of the platform channels that keep no state of their own   *)
(* (embedder/src/engine/plugins_horizon.cpp, and the system channel of     *)
(* examples/ui_app/source/main.cpp), and the stateless side of those that  *)
(* do: which handler takes a message, how it answers and what it opens.    *)
(*                                                                         *)
(* A handler is the set of its results, one for each way in which the      *)
(* calls to the system may end.  A message's args are those of the names   *)
(* the handlers look for that it has; "web" says that its url begins with  *)
(* http:// or https://.                                                    *)
(***************************************************************************)
EXTENDS Sequences, SequencesExt

Success(value) == [ok |-> TRUE, value |-> value]
Error          == [ok |-> FALSE, value |-> <<>>]
Null           == Success(<<"null">>)
Bool(b)        == Success(IF b THEN <<"true">> ELSE <<"false">>)
Empty          == Success(<<>>)

Handled(answer) == [taken |-> TRUE, answers |-> <<answer>>, opens |-> "none"]
Left            == [taken |-> FALSE, answers |-> <<>>, opens |-> "none"]
BothWays        == {Handled(Bool(TRUE)), Handled(Bool(FALSE))}

-----------------------------------------------------------------------------
Directories ==
  [getTemporaryDirectory            |-> "tmp",
   getApplicationDocumentsDirectory |-> "documents",
   getApplicationSupportDirectory   |-> "support",
   getLibraryDirectory              |-> "library",
   getDownloadsDirectory            |-> "downloads",
   getApplicationCachePath          |-> "cache",
   getApplicationCacheDirectory     |-> "cache"]

HandlePathProvider(m) ==
  CASE m.method \in DOMAIN Directories ->
         {Handled(Success(<<Directories[m.method]>>)), Handled(Error)}
    [] m.method = "getExternalStorageDirectory" -> {Handled(Null)}
    [] m.method \in {"getExternalCacheDirectories", "getExternalStorageDirectories"} ->
         {Handled(Empty)}
    [] OTHER -> {Left}

\* The maps and their files are those of module Settings; here a save succeeds or not.
HandleSharedPreferences(m) ==
  CASE m.method = "getAll" -> {Handled(Success(<<"map">>))}
    [] m.method \in {"setBool", "setInt", "setDouble", "setString", "setStringList"} ->
         IF {"key", "value"} \subseteq m.args THEN BothWays ELSE {Handled(Error)}
    [] m.method \in {"remove", "clear"} -> BothWays
    [] m.method = "commit" -> {Handled(Bool(TRUE))}
    [] OTHER -> {Left}

HandleSecureStorage(m) ==
  CASE m.method = "read" ->
         {Handled(Null)} \cup (IF "key" \in m.args THEN {Handled(Success(<<"value">>))} ELSE {})
    [] m.method = "containsKey" ->
         {Handled(Bool(FALSE))} \cup (IF "key" \in m.args THEN {Handled(Bool(TRUE))} ELSE {})
    [] m.method = "readAll" -> {Handled(Success(<<"map">>))}
    [] m.method \in {"write", "delete", "deleteAll"} -> {Handled(Null)}
    [] OTHER -> {Left}

IsWebUrl(m) == {"url", "web"} \subseteq m.args

\* launch answers before it opens the browser, which may fail to start.
HandleUrlLauncher(m) ==
  CASE m.method = "canLaunch" -> {Handled(Bool(IsWebUrl(m)))}
    [] m.method = "launch" ->
         IF IsWebUrl(m)
         THEN {[Handled(Bool(TRUE)) EXCEPT !.opens = applet] : applet \in {"none", "web"}}
         ELSE {Handled(Error)}
    [] m.method = "closeWebView" -> {Handled(Bool(TRUE))}
    [] OTHER -> {Left}

-----------------------------------------------------------------------------
(* file_picker.  A file of the import directory has a name, an extension   *)
(* ("" when its name has no dot), the time of its last change, and is      *)
(* regular or not.                                                         *)
Lower(extension) == IF extension = "JPG" THEN "jpg" ELSE extension

HasAllowedExtension(file, extensions) ==
  \/ extensions = {}
  \/ file.extension # "" /\ Lower(file.extension) \in extensions

Found(directory, extensions) ==
  SelectSeq(directory, LAMBDA file : HasAllowedExtension(file, extensions) /\ file.regular)

Newest(found) ==
  FoldLeft(LAMBDA best, file : IF file.mtime > best.mtime THEN file ELSE best,
           Head(found), Tail(found))

Names(found) == [i \in DOMAIN found |-> found[i].name]

FilePicked(directory, extensions, multiple) ==
  LET found == Found(directory, {Lower(e) : e \in extensions})
  IN  IF found = <<>> THEN Null
      ELSE Success(IF multiple THEN Names(found) ELSE <<Newest(found).name>>)

HandleFilePicker(m, directory) ==
  CASE m.method = "clear" -> {Handled(Bool(TRUE))}
    [] m.method = "dir" -> {Handled(Success(<<"import">>))}
    [] OTHER ->
         {Handled(FilePicked(directory, m.args \cap {"jpg", "JPG", "png"}, "multiple" \in m.args))}

-----------------------------------------------------------------------------
HandlePluginMessage(m, directory) ==
  CASE m.channel = "filepicker" -> HandleFilePicker(m, directory)
    [] m.channel \notin {"filepicker", "path_provider", "shared_preferences",
                         "flutter_secure_storage", "url_launcher"} -> {Left}
    [] m.channel = "path_provider" /\ m.decodes -> HandlePathProvider(m)
    [] m.channel = "flutter_secure_storage" /\ m.decodes -> HandleSecureStorage(m)
    [] m.channel = "url_launcher" /\ m.decodes -> HandleUrlLauncher(m)
    [] m.channel = "shared_preferences" /\ m.decodes -> HandleSharedPreferences(m)
    [] OTHER -> {Left}

\* media_kit_video; what its methods do is module VideoBridge's.
HandleMediaKitVideo(m) ==
  CASE m.channel # "media_kit_video" -> {Left}
    [] m.channel = "media_kit_video" /\ ~m.decodes -> {Handled(Error)}
    [] m.channel = "media_kit_video" /\ m.decodes
         /\ m.method \in {"VideoOutputManager.Create", "VideoOutputManager.SetSize",
                          "VideoOutputManager.Dispose"} -> {Handled(Null), Handled(Error)}
    [] OTHER -> {Handled(Empty)}

HandleSystem(m) ==
  IF m.method = "getBatteryLevel"
  THEN {Handled(Success(<<"charge">>)), Handled(Error)}
  ELSE {Handled(Empty)}

\* What no handler takes is answered with nothing, "not implemented".
Otherwise(results, fallback) ==
  {r \in results : r.taken} \cup (IF \E r \in results : ~r.taken THEN fallback ELSE {})

\* Fault: what no handler takes is left lying.
PlatformMessageCallbackDrops(m, directory) ==
  IF m.channel = "system" THEN HandleSystem(m)
  ELSE Otherwise(HandleMediaKitVideo(m), HandlePluginMessage(m, directory))

PlatformMessageCallback(m, directory) ==
  IF m.channel = "system" THEN HandleSystem(m)
  ELSE Otherwise(HandleMediaKitVideo(m),
                 Otherwise(HandlePluginMessage(m, directory), {Handled(Empty)}))
=============================================================================
