---------------------------- MODULE ToolMetadata ----------------------------
(***************************************************************************)
(* The daemon's tables of the Office tools (mcp/tool_metadata.rs and the   *)
(* lists at the head of mcp/catalog.rs): of each tool its app, its         *)
(* category and its side effect, and for the tools that take an action the *)
(* side effect of each action.  Names are atoms; titles and descriptions   *)
(* are left out.                                                           *)
(***************************************************************************)
LOCAL INSTANCE TLC

\* Table rows of one app and category that have one side effect in common.
Rows(app, category, sideEffect, names) ==
  [t \in names |->
     [app |-> app, category |-> category, sideEffect |-> sideEffect]]

\* Actions by side effect, in the order of the effects' weight.
Effects(reads, mutating, destructive) ==
  [a \in reads \cup mutating \cup destructive |->
     IF a \in destructive THEN "Destructive"
     ELSE IF a \in mutating THEN "Mutating" ELSE "Read"]

-----------------------------------------------------------------------------
(* TOOL_METADATA *)

\* Word: text, selections, images and shapes.
WordTextAndMediaTools ==
     Rows("word", "Document & structure", "Read",
       {"word.get_text", "word.get_outline", "word.get_header_footer"})
  @@ Rows("word", "Range & selection", "Read",
       {"word.find_text", "word.resolve_anchor", "word.get_selection",
        "word.get_html"})
  @@ Rows("word", "Range & selection", "Mutating",
       {"word.set_selection", "word.insert_html"})
  @@ Rows("word", "Paragraphs & lists", "Mutating", {"word.insert_paragraph"})
  @@ Rows("word", "Media", "Mutating",
       {"word.insert_image", "word.insert_shape", "word.update_shape"})
  @@ Rows("word", "Media", "Read",
       {"word.list_images", "word.get_image", "word.list_shapes"})
  @@ Rows("word", "Media", "Destructive",
       {"word.delete_shape", "word.update_image"})
  @@ Rows("word", "Tables", "Mutating", {"word.insert_table"})

\* Word: sections, fields, properties and styles.
WordDocumentTools ==
     Rows("word", "Document & structure", "Mutating",
       {"word.insert_break", "word.update_page_setup", "word.insert_field",
        "word.update_field", "word.update_document_properties",
        "word.create_style", "word.update_style"})
  @@ Rows("word", "Document & structure", "Read",
       {"word.list_sections", "word.list_fields", "word.list_styles",
        "word.get_document_properties"})
  @@ Rows("word", "Document & structure", "Destructive", {"word.delete_field"})

\* Word: lists, hyperlinks, headers, paragraphs and bookmarks.
WordParagraphTools ==
     Rows("word", "Paragraphs & lists", "Mutating",
       {"word.insert_list", "word.update_paragraph"})
  @@ Rows("word", "Paragraphs & lists", "Read", {"word.list_lists"})
  @@ Rows("word", "Paragraphs & lists", "Destructive", {"word.update_list"})
  @@ Rows("word", "Range & selection", "Mutating",
       {"word.insert_hyperlink", "word.remove_hyperlink", "word.replace_text",
        "word.delete_range", "word.insert_bookmark"})
  @@ Rows("word", "Range & selection", "Read",
       {"word.list_hyperlinks", "word.list_bookmarks"})
  @@ Rows("word", "Document & structure", "Destructive",
       {"word.update_header_footer"})
  @@ Rows("word", "Range & selection", "Destructive", {"word.delete_bookmark"})

\* Word: notes, tables, content controls and review.
WordReviewTools ==
     Rows("word", "Notes", "Mutating",
       {"word.insert_note", "word.update_note"})
  @@ Rows("word", "Notes", "Read", {"word.list_notes"})
  @@ Rows("word", "Notes", "Destructive", {"word.delete_note"})
  @@ Rows("word", "Range & selection", "Mutating",
       {"word.apply_formatting", "word.apply_style"})
  @@ Rows("word", "Tables", "Read", {"word.read_table"})
  @@ Rows("word", "Tables", "Destructive", {"word.update_table"})
  @@ Rows("word", "Content controls", "Read", {"word.list_content_controls"})
  @@ Rows("word", "Content controls", "Mutating",
       {"word.insert_content_control", "word.update_content_control"})
  @@ Rows("word", "Content controls", "Destructive",
       {"word.delete_content_control"})
  @@ Rows("word", "Review", "Mutating",
       {"word.add_comment", "word.set_change_tracking"})
  @@ Rows("word", "Review", "Destructive",
       {"word.update_comment", "word.update_tracked_change"})
  @@ Rows("word", "Document & structure", "Mutating", {"word.save"})

\* Excel: workbook, comments and worksheets.
ExcelWorkbookTools ==
     Rows("excel", "Workbook", "Read",
       {"excel.get_workbook_info", "excel.list_named_items",
        "excel.get_document_properties"})
  @@ Rows("excel", "Workbook", "Mutating",
       {"excel.save", "excel.calculate", "excel.update_document_properties"})
  @@ Rows("excel", "Workbook", "Destructive", {"excel.update_named_item"})
  @@ Rows("excel", "Review", "Mutating", {"excel.add_comment"})
  @@ Rows("excel", "Review", "Read", {"excel.list_comments"})
  @@ Rows("excel", "Review", "Destructive", {"excel.update_comment"})
  @@ Rows("excel", "Worksheet", "Read", {"excel.list_sheets"})
  @@ Rows("excel", "Worksheet", "Mutating",
       {"excel.add_sheet", "excel.update_sheet"})
  @@ Rows("excel", "Worksheet", "Destructive", {"excel.delete_sheet"})

\* Excel: ranges, formats, tables, charts and shapes.
ExcelRangeTools ==
     Rows("excel", "Range", "Read", {"excel.read_range"})
  @@ Rows("excel", "Range", "Mutating",
       {"excel.write_range", "excel.set_hyperlink", "excel.copy_range",
        "excel.clear_range", "excel.find_replace_cells"})
  @@ Rows("excel", "Range", "Destructive",
       {"excel.update_range_structure", "excel.set_data_validation"})
  @@ Rows("excel", "Formula", "Mutating", {"excel.set_formula"})
  @@ Rows("excel", "Format", "Mutating", {"excel.format_range"})
  @@ Rows("excel", "Format", "Read", {"excel.list_conditional_formats"})
  @@ Rows("excel", "Format", "Destructive",
       {"excel.update_conditional_format"})
  @@ Rows("excel", "Data", "Mutating",
       {"excel.sort_range", "excel.apply_filter"})
  @@ Rows("excel", "Table", "Mutating", {"excel.create_table"})
  @@ Rows("excel", "Table", "Destructive", {"excel.update_table"})
  @@ Rows("excel", "Chart", "Mutating", {"excel.create_chart"})
  @@ Rows("excel", "Chart", "Destructive", {"excel.update_chart"})
  @@ Rows("excel", "PivotTable", "Mutating", {"excel.create_pivot_table"})
  @@ Rows("excel", "PivotTable", "Destructive", {"excel.update_pivot_table"})
  @@ Rows("excel", "Shapes", "Mutating", {"excel.insert_image"})
  @@ Rows("excel", "Shapes", "Read", {"excel.list_shapes"})
  @@ Rows("excel", "Shapes", "Destructive", {"excel.update_shape"})

\* PowerPoint.
PowerPointTools ==
     Rows("powerpoint", "Presentation", "Read",
       {"powerpoint.get_presentation_info", "powerpoint.export_file"})
  @@ Rows("powerpoint", "Metadata", "Destructive", {"powerpoint.update_tags"})
  @@ Rows("powerpoint", "Slides", "Read",
       {"powerpoint.list_slides", "powerpoint.export_slide"})
  @@ Rows("powerpoint", "Slides", "Mutating",
       {"powerpoint.add_slide", "powerpoint.update_slide",
        "powerpoint.move_slide", "powerpoint.apply_layout"})
  @@ Rows("powerpoint", "Slides", "Destructive", {"powerpoint.delete_slide"})
  @@ Rows("powerpoint", "Layout", "Read", {"powerpoint.list_layouts"})
  @@ Rows("powerpoint", "Selection", "Read", {"powerpoint.get_selection"})
  @@ Rows("powerpoint", "Selection", "Mutating", {"powerpoint.set_selection"})
  @@ Rows("powerpoint", "Shapes", "Read", {"powerpoint.list_shapes"})
  @@ Rows("powerpoint", "Shapes", "Mutating",
       {"powerpoint.add_shape", "powerpoint.insert_image"})
  @@ Rows("powerpoint", "Shapes", "Destructive", {"powerpoint.update_shape"})
  @@ Rows("powerpoint", "Text", "Read", {"powerpoint.read_text"})
  @@ Rows("powerpoint", "Text", "Mutating",
       {"powerpoint.replace_text", "powerpoint.format_text"})
  @@ Rows("powerpoint", "Tables", "Mutating", {"powerpoint.add_table"})
  @@ Rows("powerpoint", "Tables", "Read", {"powerpoint.read_table"})
  @@ Rows("powerpoint", "Tables", "Destructive", {"powerpoint.update_table"})

-----------------------------------------------------------------------------
(* The side effects of actions *)

\* Word tools whose effect depends on an action.
WordActions ==
     "word.update_image" :> Effects(
       {},
       {"resize", "set_alt_text", "set_hyperlink", "replace"},
       {"delete"})
  @@ "word.update_list" :> Effects(
       {},
       {"add_item", "set_item_level", "attach_paragraph", "detach_paragraph",
        "set_level_format"},
       {})
  @@ "word.update_header_footer" :> Effects(
       {},
       {"set_text", "append_paragraph"},
       {"clear"})
  @@ "word.update_table" :> Effects(
       {},
       {"update_cell", "add_row", "add_column", "format_cell", "merge_cells",
        "set_column_width", "distribute_columns", "set_borders",
        "set_header_row"},
       {"delete", "delete_row", "delete_column"})
  @@ "word.update_comment" :> Effects(
       {},
       {"reply", "edit", "resolve", "reopen"},
       {"delete"})
  @@ "word.update_tracked_change" :> Effects(
       {},
       {"accept", "reject"},
       {"accept_all", "reject_all"})

\* Excel tools whose effect depends on an action.
ExcelActions ==
     "excel.update_named_item" :> Effects(
       {},
       {"add", "edit"},
       {"delete"})
  @@ "excel.update_comment" :> Effects(
       {},
       {"reply", "edit", "resolve", "reopen"},
       {"delete"})
  @@ "excel.update_range_structure" :> Effects(
       {},
       {"insert"},
       {"delete"})
  @@ "excel.set_hyperlink" :> Effects(
       {},
       {"set", "clear"},
       {})
  @@ "excel.set_data_validation" :> Effects(
       {},
       {"set"},
       {"clear"})
  @@ "excel.copy_range" :> Effects(
       {},
       {"copy", "autofill"},
       {})
  @@ "excel.update_conditional_format" :> Effects(
       {},
       {"add"},
       {"delete", "clear_range"})
  @@ "excel.update_table" :> Effects(
       {"metadata", "read"},
       {"add_rows", "add_columns", "resize", "rename", "options", "style"},
       {"delete"})
  @@ "excel.update_chart" :> Effects(
       {"metadata", "read", "export_image"},
       {"title", "legend", "axis", "data", "series_source", "position", "size"},
       {"delete"})
  @@ "excel.update_pivot_table" :> Effects(
       {"metadata", "read"},
       {"refresh", "add_hierarchy", "remove_hierarchy", "layout", "filter",
        "clear_filters"},
       {"delete"})
  @@ "excel.update_shape" :> Effects(
       {},
       {"move", "resize", "set_alt_text", "set_text", "set_z_order"},
       {"delete"})

\* PowerPoint tools whose effect depends on an action.
PowerPointActions ==
     "powerpoint.update_tags" :> Effects(
       {"list"},
       {"set"},
       {"delete"})
  @@ "powerpoint.update_shape" :> Effects(
       {},
       {"move", "resize", "rotate", "rename", "set_alt_text", "set_fill",
        "set_line", "set_z_order", "group", "ungroup"},
       {"delete"})
  @@ "powerpoint.update_table" :> Effects(
       {},
       {"set_values", "set_cell", "add_rows", "add_columns", "merge_cells",
        "split_cell", "clear", "style"},
       {"delete_rows", "delete_columns", "delete"})

-----------------------------------------------------------------------------
(* The catalogue: what the daemon knows of a tool, by name *)

ToolRows ==
  WordTextAndMediaTools @@ WordDocumentTools @@ WordParagraphTools
  @@ WordReviewTools @@ ExcelWorkbookTools @@ ExcelRangeTools @@ PowerPointTools

ActionEffects == WordActions @@ ExcelActions @@ PowerPointActions

CatalogMetadata ==
  LET rows == ToolRows
      effects == ActionEffects
      Actions(t) == IF t \in DOMAIN effects THEN effects[t] ELSE <<>>
  IN  [t \in DOMAIN rows |->
         [app |-> rows[t].app, category |-> rows[t].category,
          sideEffect |-> rows[t].sideEffect, actions |-> Actions(t)]]

(* The public tools, which the daemon lists and forwards *)

\* WORD_V1_TOOLS
WordV1Tools ==
  {"word.add_comment", "word.apply_formatting", "word.apply_style",
   "word.delete_bookmark", "word.delete_content_control", "word.delete_field",
   "word.delete_shape", "word.delete_range", "word.find_text",
   "word.get_document_properties", "word.get_header_footer", "word.get_html",
   "word.get_outline", "word.get_selection", "word.set_selection",
   "word.get_text", "word.get_image", "word.insert_bookmark",
   "word.insert_content_control", "word.insert_break", "word.insert_field",
   "word.insert_html", "word.insert_hyperlink", "word.insert_image",
   "word.insert_list", "word.insert_note", "word.insert_paragraph",
   "word.insert_shape", "word.insert_table", "word.list_bookmarks",
   "word.list_content_controls", "word.list_fields", "word.list_hyperlinks",
   "word.list_lists", "word.list_images", "word.list_notes",
   "word.list_sections", "word.list_shapes", "word.list_styles",
   "word.read_table", "word.remove_hyperlink", "word.replace_text",
   "word.resolve_anchor", "word.update_comment", "word.save",
   "word.set_change_tracking", "word.update_header_footer",
   "word.update_content_control", "word.update_document_properties",
   "word.update_field", "word.update_image", "word.update_list",
   "word.update_note", "word.update_page_setup", "word.update_paragraph",
   "word.update_shape", "word.create_style", "word.update_style",
   "word.update_table", "word.update_tracked_change", "word.delete_note"}

\* EXCEL_V1_TOOLS
ExcelV1Tools ==
  {"excel.add_comment", "excel.add_sheet", "excel.apply_filter",
   "excel.clear_range", "excel.copy_range", "excel.create_chart",
   "excel.create_pivot_table", "excel.create_table", "excel.delete_sheet",
   "excel.find_replace_cells", "excel.format_range",
   "excel.list_conditional_formats", "excel.get_workbook_info",
   "excel.insert_image", "excel.set_data_validation", "excel.set_hyperlink",
   "excel.update_conditional_format", "excel.save", "excel.calculate",
   "excel.list_named_items", "excel.get_document_properties",
   "excel.list_comments", "excel.list_shapes", "excel.update_named_item",
   "excel.update_document_properties", "excel.list_sheets", "excel.read_range",
   "excel.set_formula", "excel.sort_range", "excel.update_chart",
   "excel.update_comment", "excel.update_pivot_table",
   "excel.update_range_structure", "excel.update_shape", "excel.update_table",
   "excel.update_sheet", "excel.write_range"}

\* POWERPOINT_V1_TOOLS
PowerPointV1Tools ==
  {"powerpoint.get_presentation_info", "powerpoint.export_file",
   "powerpoint.update_tags", "powerpoint.list_slides", "powerpoint.add_slide",
   "powerpoint.update_slide", "powerpoint.delete_slide",
   "powerpoint.move_slide", "powerpoint.export_slide",
   "powerpoint.list_layouts", "powerpoint.apply_layout",
   "powerpoint.get_selection", "powerpoint.set_selection",
   "powerpoint.list_shapes", "powerpoint.add_shape", "powerpoint.insert_image",
   "powerpoint.update_shape", "powerpoint.read_text",
   "powerpoint.replace_text", "powerpoint.format_text", "powerpoint.add_table",
   "powerpoint.read_table", "powerpoint.update_table"}

CatalogTools == WordV1Tools \cup ExcelV1Tools \cup PowerPointV1Tools

CatalogManagementTools ==
  {"office.list_sessions", "office.get_session_info", "office.describe_tools"}
=============================================================================
