---------------------------- MODULE ContentChecks ----------------------------
(* What the content checks of internal/scan say of the bytes of one file:    *)
(* the names of the findings, given what of the bytes they tell apart.       *)
(*                                                                           *)
(* A content is a record:                                                    *)
(*   there      "file", "missing", "unreadable" (it cannot be read, or, where*)
(*              a check tells that from absence, not even be looked up) or   *)
(*              "irregular" (a pipe, a device, a directory)                  *)
(*   head       "magic" the header its extension promises (for a startup     *)
(*              file that of a binary plist, for a manifest the fields of    *)
(*              another program's), "text" (JSON where a manifest is parsed),*)
(*              "html", "native" that of an executable, or else "binary", no *)
(*              valid text                                                   *)
(*   marker     a published signature: "none", "plain", or "escaped", which  *)
(*              is a signature only once its \x and \u escapes are read      *)
(*   commented  the marker stands in comments only                           *)
(*   sidecar    a .inz.cjs or .inz.orig module is named                      *)
(*   published  these are the exact bytes of a published payload             *)
(*   padding    "none", "run" a run of spaces inside a line, or "span" one   *)
(*              with a published payload behind it                           *)
(*   review     what calls for review: "code" (loaders, decode-and-execute,  *)
(*              obfuscation, fetching from a known address), "hidden" (signs *)
(*              that conceal what the text says), or "none"                  *)
(*   declares   what the check that parses this file looks for: a known bad  *)
(*              version, a task that runs a font, a trust setting, an        *)
(*              injected ignore line, a name for a known address             *)
(*   size       "normal", "large" past what a genuine npm cli.js is, or      *)
(*              "huge", past what is read at all                             *)
(* An extension is "font", "asset" (other formats with a header), "script"   *)
(* (JavaScript and kin), "tasks" or "settings" (the two JSON files of an     *)
(* editor), "hosts" or "other".                                              *)

ordinary == [there |-> "file", head |-> "text", marker |-> "none", commented |-> FALSE,
             sidecar |-> FALSE, published |-> FALSE, padding |-> "none",
             review |-> "none", declares |-> FALSE, size |-> "normal"]

Content == [there : {"file", "missing", "unreadable", "irregular"},
            head : {"magic", "text", "html", "native", "binary"},
            marker : {"none", "plain", "escaped"}, commented : BOOLEAN,
            sidecar : BOOLEAN, published : BOOLEAN,
            padding : {"none", "run", "span"}, review : {"none", "code", "hidden"},
            declares : BOOLEAN, size : {"normal", "large", "huge"}]

report(check, when) == IF when THEN {check} ELSE {}

(* The signatures, as the bytes are and with their escapes read.             *)
payloadSignature(c) == c.marker = "plain"
normalizeASCII(c) == [c EXCEPT !.marker = IF @ = "escaped" THEN "plain" ELSE @]
persistenceSignature(c) == payloadSignature(c) \/ c.sidecar

assetExtension(ext) == ext \in {"font", "asset"}
validAsset(ext, c) == assetExtension(ext) /\ c.head = "magic"

inspectLoaderPatterns(c) == report("suspicious-source-execution", c.review = "code")
checkUnicode(c) == report("unicode-concealment", c.review = "hidden")

inspectGeneralContent(c) ==
  IF c.head \in {"native", "binary"} THEN {}
  ELSE IF payloadSignature(normalizeASCII(c)) THEN {"payload-signature"}
  ELSE inspectLoaderPatterns(c) \cup checkUnicode(c)

(* The files of an editor that can run something, or make it trusted.        *)
checkFontTask(c) ==
  IF c.head # "text" THEN {"scan-incomplete"}
  ELSE IF c.declares THEN {"font-execution-task"}
  ELSE report("disguised-file-execution-task", c.review = "code")

checkWorkspaceSettings(c) ==
  IF c.head # "text" THEN {"scan-incomplete"} ELSE report("workspace-setting-context", c.declares)

checkFakeFont(c) == report("fake-font-payload", c.head = "text")

checkDisguisedAsset(ext, c) ==
  report("asset-format-mismatch",
         assetExtension(ext) /\ ~validAsset(ext, c) /\ c.head # "html")

checkRepoPayloadHash(c) == report("malicious-repo-artifact", c.published)

(* A span that is published is a signature, a run of spaces alone a warning. *)
checkPadding(ext, c) ==
  IF ext \notin {"script", "font"} \/ c.head # "text" \/ c.padding = "none" THEN {}
  ELSE IF c.padding = "span" THEN {"payload-signature"} ELSE {"padded-source-file"}

generalThenPadding(ext, c) ==
  inspectGeneralContent(c)
  \cup (IF ext = "settings" THEN checkWorkspaceSettings(c) ELSE {})
  \cup IF "payload-signature" \in inspectGeneralContent(c) THEN {} ELSE checkPadding(ext, c)

inspectSourceContent(ext, c) ==
  (IF ext = "tasks" THEN checkFontTask(c) ELSE {})
  \cup (IF ext = "font" THEN checkFakeFont(c) ELSE checkDisguisedAsset(ext, c))
  \cup (IF validAsset(ext, c) THEN {}
        ELSE IF c.published THEN checkRepoPayloadHash(c)
        ELSE generalThenPadding(ext, c))

-----------------------------------------------------------------------------
(* The callbacks of the targeted checks.                                     *)

inspectApplication(c) ==
  IF persistenceSignature(normalizeASCII(c)) THEN {"patched-application"}
  ELSE inspectGeneralContent(c)

(* checkNpmCLI reads only what is small enough to be genuine, and reads it   *)
(* as it stands.                                                             *)
inspectNpmCLI(c) == report("patched-npm-cli", c.size = "large" \/ persistenceSignature(c))

(* Comments of shells, crontabs and plists do not count.                     *)
withoutComments(c) == [c EXCEPT !.marker = IF c.commented THEN "none" ELSE @]

inspectHosts(c) == report("hosts-c2-entry", c.declares)

inspectStartupContent(ext, c) ==
  IF c.head = "magic" THEN {"scan-limited"}
  ELSE IF ext = "hosts" THEN inspectHosts(c)
  ELSE inspectGeneralContent(withoutComments(c)) \cup report("startup-content", c.review = "code")

obfuscationFlags(c) == c.review = "code"
inspectScriptTarget(c) ==
  inspectGeneralContent(c) \cup report("obfuscated-install-script", obfuscationFlags(c))

inspectDependency(ext, c) ==
  IF c.published THEN checkRepoPayloadHash(c)
  ELSE checkDisguisedAsset(ext, c) \cup inspectGeneralContent(c)

inspectGitignore(c) == report("gitignore-injection", c.declares)

analyzePthContent(c) == c.review = "code"
inspectPth(deep, c) == report("suspicious-pth-file", analyzePthContent(c))
                       \cup IF deep THEN inspectGeneralContent(c) ELSE {}

(* runningScriptMatch: a payload by its bytes, its signature or its span.    *)
runningScriptMatch(c) ==
  c.published \/ payloadSignature(normalizeASCII(c)) \/ c.padding = "span"
=============================================================================
