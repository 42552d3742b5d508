------------------------- MODULE MCPlatformMessages -------------------------
(***************************************************************************)
(* The instance of PlatformMessages: two texts, one of them with a         *)
(* character outside the basic plane and one that JSON escapes; one        *)
(* message for every branch of the handlers.                               *)
(***************************************************************************)
EXTENDS PlatformMessages, TLC

MCTexts == {<<>>, <<34, 128512>>}
MCAction == [client \in {1, 2} |-> IF client = 1 THEN "next" ELSE "search"]

Call(channel, method, args) == [channel |-> channel, method |-> method, args |-> args, decodes |-> TRUE]

Methods ==
  [path_provider |-> DOMAIN Directories \cup
     {"getExternalStorageDirectory", "getExternalCacheDirectories", "unknown"},
   shared_preferences |-> {"getAll", "setInt", "remove", "clear", "commit", "unknown"},
   flutter_secure_storage |->
     {"read", "containsKey", "readAll", "write", "delete", "deleteAll", "unknown"},
   url_launcher |-> {"canLaunch", "launch", "closeWebView", "unknown"},
   filepicker |-> {"clear", "dir", "custom"},
   media_kit_video |-> {"VideoOutputManager.Create", "VideoOutputManager.Dispose", "unknown"},
   system |-> {"getBatteryLevel", "unknown"},
   mousecursor |-> {"activateSystemCursor"}]

MCMessages ==
  LET Calls(channel) ==
        {Call(channel, method, args) : method \in Methods[channel],
                                       args \in SUBSET {"key", "value", "url", "web"}}
      calls == UNION {Calls(channel) : channel \in DOMAIN Methods}
  IN  calls \cup {[m EXCEPT !.decodes = FALSE] : m \in calls}

File(name, extension, regular, mtime) ==
  [name |-> name, extension |-> extension, regular |-> regular, mtime |-> mtime]

MCDirectory == <<File("a", "JPG", TRUE, 1), File("b", "", TRUE, 2)>>

-----------------------------------------------------------------------------
(* The text conversions, over bytes of every length and every escape.      *)
Characters ==
  {8, 9, 10, 12, 13, 31, 32, 34, 47, 92, 127, 228, 2047, 2048, 65535, 65536, 128512}

\* However the framework writes a text, the same is read.
ASSUME ReadsEveryWriting ==
  \A c, d \in Characters : \A w \in Ways(c), x \in Ways(d) :
    ExtractJsonString(w \o x \o <<Quote>>) = [ok |-> TRUE, out |-> Utf8(<<c, d>>)]

\* What JsonEscape writes is read back as it was.
ASSUME EscapeReadsBack ==
  \A c, d \in Characters :
    ExtractJsonString(JsonEscape(Utf8(<<c, d>>)) \o <<Quote>>) = [ok |-> TRUE, out |-> Utf8(<<c, d>>)]

\* A text that does not end is noticed.
ASSUME BeginningsAreRefused ==
  \A c \in Characters : \A w \in Ways(c) : \A n \in 0 .. Len(w) :
    ~ExtractJsonString(SubSeq(w, 1, n)).ok

\* The length in units of UTF-16.
ASSUME LengthsAgree ==
  \A c, d \in Characters : Utf16Length(Utf8(<<c, d>>)) = Utf16Units(<<c, d>>)

(* file_picker gives the newest of the files that match, or all of them.   *)
Some == {File("a", e, r, t) : e \in {"", "jpg", "JPG", "gif"}, r \in BOOLEAN, t \in 1 .. 2}
Named(f, name) == [f EXCEPT !.name = name]

ASSUME PicksNewest ==
  \A f, g \in Some : \A extensions \in {{}, {"jpg"}, {"JPG", "png"}} :
    LET directory == <<Named(f, "a"), Named(g, "b")>>
        Matches(h) == /\ h.regular
                      /\ extensions = {} \/ h.extension \in {"jpg", "JPG"}
        matching == {h \in {directory[1], directory[2]} : Matches(h)}
    IN  /\ matching = {} <=> FilePicked(directory, extensions, FALSE) = Null
        /\ matching # {} =>
             /\ \E h \in matching :
                  /\ FilePicked(directory, extensions, FALSE) = Success(<<h.name>>)
                  /\ \A k \in matching : k.mtime <= h.mtime
             /\ {h.name : h \in matching} =
                  LET picked == FilePicked(directory, extensions, TRUE).value
                  IN  {picked[i] : i \in DOMAIN picked}
=============================================================================
