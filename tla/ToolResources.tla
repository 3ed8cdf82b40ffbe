--------------------------- MODULE ToolResources ---------------------------
(***************************************************************************)
(* The resources of a document session (mcp/resource_request.rs, and the   *)
(* lists in mcp/catalog.rs).  A resource is read by calling a tool: always *)
(* has the arguments the call has besides the session, optional those the  *)
(* query of the URI may add.  A path stands for every URI of its form; the *)
(* numbers in it and in its query are taken to be numbers, any other path  *)
(* is refused.                                                             *)
(***************************************************************************)
LOCAL INSTANCE TLC

\* A resource that is a call of a public tool.
Calls(tool, always, optional) ==
  [tool |-> tool, always |-> always, optional |-> optional,
   checkCapability |-> TRUE]

\* One that is a call of a tool no client may call, and no pane advertises.
CallsInternal(tool) ==
  [tool |-> tool, always |-> {}, optional |-> {}, checkCapability |-> FALSE]

\* Mutant: the template of a paragraph has no counterpart.
WordResourcesOfOld ==
     "document" :> Calls("word.get_text", {"offset", "limit"}, {})
  @@ "structure" :> CallsInternal("word._get_structure")
  @@ "comments" :> CallsInternal("word._get_comments")
  @@ "track_changes" :> CallsInternal("word._get_tracked_changes")
  @@ "selection" :> Calls("word.get_selection", {}, {})

WordResources ==
     "document" :> Calls("word.get_text", {"offset", "limit"}, {})
  @@ "structure" :> CallsInternal("word._get_structure")
  @@ "paragraph/{index}" :>
       Calls("word.get_text",
             {"offset", "limit", "include_metadata", "include_formatting"}, {})
  @@ "comments" :> CallsInternal("word._get_comments")
  @@ "track_changes" :> CallsInternal("word._get_tracked_changes")
  @@ "selection" :> Calls("word.get_selection", {}, {})

ExcelResources ==
     "workbook" :> Calls("excel.get_workbook_info", {}, {})
  @@ "sheets" :> Calls("excel.list_sheets", {}, {})
  @@ "used-range" :> Calls("excel.read_range", {"metadata_only"}, {"sheet"})
  @@ "range/{address}" :> Calls("excel.read_range", {"address"}, {"sheet"})

PowerPointResources ==
     "presentation" :> Calls("powerpoint.get_presentation_info", {}, {})
  @@ "slides" :> Calls("powerpoint.list_slides", {}, {})
  @@ "slides/text" :> Calls("powerpoint.read_text", {"start"}, {"end"})
  @@ "slide/{index}/text" :> Calls("powerpoint.read_text", {"slide_index"}, {})
  @@ "slide/{index}/shapes" :>
       Calls("powerpoint.list_shapes", {"slide_index"}, {})

\* The app of a URI; the rest of it names the session and the path.
SessionResources ==
  [word |-> WordResources, excel |-> ExcelResources,
   powerpoint |-> PowerPointResources]

-----------------------------------------------------------------------------
(* What clients are told: resources/list and resources/templates/list *)

WordListed ==
  {"document", "structure", "comments", "track_changes", "selection"}
WordTemplates == WordListed \cup {"paragraph/{index}"}

ExcelListed == {"workbook", "sheets", "used-range", "range/{address}"}
ExcelTemplates == ExcelListed

PowerPointListed ==
  {"presentation", "slides", "slides/text", "slide/{index}/text",
   "slide/{index}/shapes"}
PowerPointTemplates == PowerPointListed

\* The resources a client learns of for a session of the app.
ToldResources ==
  [word |-> WordListed \cup WordTemplates,
   excel |-> ExcelListed \cup ExcelTemplates,
   powerpoint |-> PowerPointListed \cup PowerPointTemplates]
=============================================================================
