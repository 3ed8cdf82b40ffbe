---------------------------- MODULE ToolSchemas ----------------------------
(***************************************************************************)
(* The input schemas of the tools (mcp/catalog.rs): of each tool the       *)
(* arguments it requires and those it accepts, and of the arguments with a *)
(* top-level enum the values.  Nothing else of a schema is enforced by the *)
(* daemon, and nothing else is modelled: types, bounds, nested objects and *)
(* the rules for combinations are advice to the client.                    *)
(*                                                                         *)
(* Arguments are a function from names to values.  A value is a string     *)
(* where the schema has an enum, the kind for an anchor, the session id    *)
(* for session_id, and the value AnyValue elsewhere.                         *)
(***************************************************************************)
LOCAL INSTANCE TLC
LOCAL INSTANCE Naturals

Schema(required, optional) ==
  [required |-> required, properties |-> required \cup optional]

\* Every Office tool requires the session.
Takes(required, optional) == Schema({"session_id"} \cup required, optional)

-----------------------------------------------------------------------------
(* TOOL_INPUT_SPECS: required and other arguments, without session_id *)

\* The daemon's own tools.
ManagementSpecs ==
     "office.list_sessions" :> Schema({}, {})
  @@ "office.get_session_info" :> Schema({"session_id"}, {})
  @@ "office.describe_tools" :> Schema({"tools"}, {})

\* Word: text, selections and document properties.
WordTextSpecs ==
     "word.get_text" :> Takes({},
       {"offset", "limit", "include_metadata", "include_formatting"})
  @@ "word.get_outline" :> Takes({}, {"max_depth"})
  @@ "word.find_text" :> Takes({"query"},
       {"match_case", "whole_word", "occurrence", "limit"})
  @@ "word.resolve_anchor" :> Takes({"anchor"}, {"include_text_preview"})
  @@ "word.list_bookmarks" :> Takes({}, {"include_hidden"})
  @@ "word.get_selection" :> Takes({}, {})
  @@ "word.set_selection" :> Takes({"anchor"}, {"extent", "mode"})
  @@ "word.get_html" :> Takes({}, {"anchor", "extent"})
  @@ "word.insert_html" :> Takes({"anchor", "html"},
       {"insert_location", "validate_only"})
  @@ "word.get_header_footer" :> Takes({"location"},
       {"header_footer_type", "section_index", "include_metadata"})
  @@ "word.save" :> Takes({}, {})
  @@ "word.list_sections" :> Takes({}, {"include_page_setup"})
  @@ "word.list_fields" :> Takes({}, {"type", "offset", "limit"})
  @@ "word.list_styles" :> Takes({}, {"type", "built_in", "in_use_only"})
  @@ "word.get_document_properties" :> Takes({}, {"include_custom"})
  @@ "word.update_document_properties" :> Takes({},
       {"title", "subject", "author", "keywords", "category", "comments",
        "company", "manager", "custom_set", "custom_delete"})

\* Word: paragraphs, tables, images and shapes.
WordMediaSpecs ==
     "word.insert_paragraph" :> Takes({"anchor", "text"},
       {"style", "heading_level", "match_case"})
  @@ "word.insert_table" :> Takes({"anchor", "rows", "cols"},
       {"data", "style", "match_case"})
  @@ "word.insert_image" :> Takes({"anchor", "image"},
       {"placement", "alt_text", "width_pt", "height_pt", "caption",
        "match_case", "validate_only"})
  @@ "word.list_images" :> Takes({}, {})
  @@ "word.list_shapes" :> Takes({}, {"scope", "anchor", "limit"})
  @@ "word.get_image" :> Takes({"image"}, {})
  @@ "word.insert_shape" :> Takes({"shape_type"},
       {"anchor", "text", "image", "name", "width_pt", "height_pt", "left_pt",
        "top_pt", "alt_text_description", "validate_only"})
  @@ "word.update_image" :> Takes({"image", "action"},
       {"width_pt", "height_pt", "preserve_aspect_ratio", "alt_text_title",
        "alt_text_description", "hyperlink", "base64", "validate_only"})
  @@ "word.update_shape" :> Takes({"shape_id", "action"},
       {"text", "name", "width_pt", "height_pt", "left_pt", "top_pt",
        "alt_text_description", "fill_color", "line_color", "wrap_type",
        "visible", "validate_only"})
  @@ "word.delete_shape" :> Takes({"shape_id"}, {"validate_only"})

\* Word: sections, lists, links, fields, paragraphs and bookmarks.
WordLayoutSpecs ==
     "word.insert_break" :> Takes({"anchor"}, {"break_type", "match_case"})
  @@ "word.update_page_setup" :> Takes({},
       {"section_index", "orientation", "paper_size", "margins_pt",
        "page_width_pt", "page_height_pt"})
  @@ "word.insert_list" :> Takes({"anchor", "items"},
       {"ordered", "style", "match_case"})
  @@ "word.list_lists" :> Takes({}, {"offset", "limit"})
  @@ "word.update_list" :> Takes({"action"},
       {"list_id", "paragraph_index", "text", "position", "level",
        "numbering", "bullet_char", "validate_only"})
  @@ "word.insert_hyperlink" :> Takes({"anchor", "url"},
       {"text", "extent", "match_case", "validate_only"})
  @@ "word.list_hyperlinks" :> Takes({}, {"offset", "limit"})
  @@ "word.remove_hyperlink" :> Takes({"anchor"}, {"keep_text", "match_case"})
  @@ "word.update_header_footer" :> Takes({"location", "action"},
       {"header_footer_type", "section_index", "text", "style", "formatting",
        "validate_only"})
  @@ "word.insert_field" :> Takes({"anchor", "field_type"},
       {"code_options", "validate_only"})
  @@ "word.insert_bookmark" :> Takes({"name", "anchor"},
       {"extent", "overwrite"})
  @@ "word.replace_text" :> Takes({"find", "replace"},
       {"match_case", "whole_word", "wildcards", "scope", "limit", "dry_run",
        "partial_ok", "all", "occurrence", "validate_only"})
  @@ "word.update_paragraph" :> Takes({"index", "text"},
       {"style", "heading_level", "validate_only"})
  @@ "word.delete_range" :> Takes({"anchor"}, {"match_case", "validate_only"})
  @@ "word.delete_bookmark" :> Takes({"name"}, {})

\* Word: notes, styles, formatting and tables.
WordStyleSpecs ==
     "word.insert_note" :> Takes({"anchor", "kind", "text"}, {"validate_only"})
  @@ "word.list_notes" :> Takes({"kind"}, {"offset", "limit"})
  @@ "word.update_note" :> Takes({"kind", "index", "text"}, {"validate_only"})
  @@ "word.delete_note" :> Takes({"kind", "index"}, {"validate_only"})
  @@ "word.update_field" :> Takes({"action"},
       {"field_index", "expected_count", "validate_only"})
  @@ "word.delete_field" :> Takes({"field_index"}, {"validate_only"})
  @@ "word.create_style" :> Takes({"name", "type"},
       {"base_style", "font", "paragraph", "validate_only"})
  @@ "word.update_style" :> Takes({"name"},
       {"base_style", "font", "paragraph", "validate_only"})
  @@ "word.apply_formatting" :> Takes({"anchor"},
       {"formatting", "paragraph", "match_case"})
  @@ "word.apply_style" :> Takes({"anchor"},
       {"style", "heading_level", "match_case"})
  @@ "word.read_table" :> Takes({"table_index"}, {"include_formatting"})
  @@ "word.update_table" :> Takes({"table_index", "action"},
       {"row", "col", "text", "index", "values", "row_range", "col_range",
        "width_pt", "header_row", "borders", "data", "rows", "cols"})
  @@ "word.list_content_controls" :> Takes({}, {"type", "tag", "title"})

\* Word: content controls, comments and tracked changes.
WordReviewSpecs ==
     "word.insert_content_control" :> Takes({},
       {"anchor", "text", "tag", "title", "type", "checked", "list_items",
        "match_case"})
  @@ "word.update_content_control" :> Takes({"content_control_id"},
       {"text", "checked", "selected_value", "list_items_add",
        "list_items_delete", "list_items_clear", "tag", "title"})
  @@ "word.delete_content_control" :> Takes({"content_control_id"},
       {"delete_contents"})
  @@ "word.add_comment" :> Takes({"anchor", "text"}, {"match_case"})
  @@ "word.update_comment" :> Takes({"comment_id", "action"},
       {"text", "reply_id", "validate_only"})
  @@ "word.set_change_tracking" :> Takes({"mode"}, {})
  @@ "word.update_tracked_change" :> Takes({"action"},
       {"change_index", "expected_fingerprint", "expected_count"})

\* Excel: workbook, comments, worksheets and ranges.
ExcelWorkbookSpecs ==
     "excel.get_workbook_info" :> Takes({}, {})
  @@ "excel.save" :> Takes({}, {})
  @@ "excel.calculate" :> Takes({}, {"type"})
  @@ "excel.list_named_items" :> Takes({}, {"scope", "sheet"})
  @@ "excel.update_named_item" :> Takes({"action", "name"},
       {"scope", "sheet", "reference", "formula", "comment"})
  @@ "excel.get_document_properties" :> Takes({}, {"include_custom"})
  @@ "excel.update_document_properties" :> Takes({},
       {"title", "subject", "author", "keywords", "category", "comments",
        "company", "manager", "custom_set", "custom_delete"})
  @@ "excel.add_comment" :> Takes({"cell", "text"}, {"sheet", "validate_only"})
  @@ "excel.list_comments" :> Takes({}, {"sheet", "resolved"})
  @@ "excel.update_comment" :> Takes({"comment_id", "action"},
       {"text", "reply_id", "validate_only"})
  @@ "excel.list_sheets" :> Takes({}, {})
  @@ "excel.add_sheet" :> Takes({"name"}, {"activate"})
  @@ "excel.update_sheet" :> Takes({"sheet"},
       {"name", "position", "visibility", "tab_color", "activate", "freeze",
        "show_gridlines", "show_headings"})
  @@ "excel.delete_sheet" :> Takes({"sheet"}, {})
  @@ "excel.read_range" :> Takes({},
       {"sheet", "address", "metadata_only", "values_only",
        "include_formulas", "include_formatting", "include_hyperlinks",
        "include_validation"})
  @@ "excel.write_range" :> Takes({"address", "values"}, {"sheet"})
  @@ "excel.update_range_structure" :> Takes({"address", "action", "shift"},
       {"sheet", "count"})

\* Excel: contents, formats and data of ranges.
ExcelRangeSpecs ==
     "excel.clear_range" :> Takes({"address"}, {"sheet", "apply_to"})
  @@ "excel.set_hyperlink" :> Takes({"address", "action"},
       {"sheet", "url", "document_reference", "text_to_display", "screen_tip"})
  @@ "excel.set_data_validation" :> Takes({"address", "action"},
       {"sheet", "rule", "ignore_blanks", "error_alert", "input_prompt",
        "validate_only"})
  @@ "excel.copy_range" :> Takes({"action"},
       {"sheet", "source_sheet", "source_address", "destination_sheet",
        "destination_address", "copy_type", "skip_blanks", "transpose",
        "autofill_type", "validate_only"})
  @@ "excel.find_replace_cells" :> Takes({"find"},
       {"sheet", "address", "replace", "complete_match", "match_case",
        "search_direction"})
  @@ "excel.set_formula" :> Takes({"address"},
       {"sheet", "formula", "formulas"})
  @@ "excel.format_range" :> Takes({"address"},
       {"sheet", "bold", "italic", "underline", "font_color", "fill_color",
        "number_format", "number_formats", "horizontal_alignment",
        "vertical_alignment", "wrap_text", "merge", "column_width_pt",
        "row_height_pt", "hidden_columns", "hidden_rows", "style", "autofit",
        "borders"})
  @@ "excel.list_conditional_formats" :> Takes({}, {"sheet", "address"})
  @@ "excel.update_conditional_format" :> Takes({"action"},
       {"sheet", "address", "id", "rule", "priority", "stop_if_true",
        "validate_only"})
  @@ "excel.sort_range" :> Takes({"fields"},
       {"sheet", "address", "table", "target_type", "match_case",
        "has_headers", "orientation", "method"})
  @@ "excel.apply_filter" :> Takes({"action"},
       {"sheet", "address", "table", "column", "criteria"})

\* Excel: tables, charts, PivotTables and shapes.
ExcelObjectSpecs ==
     "excel.create_table" :> Takes({"address"},
       {"sheet", "has_headers", "name", "style"})
  @@ "excel.update_table" :> Takes({"table", "action"},
       {"name", "style", "show_headers", "show_totals",
        "highlight_first_column", "highlight_last_column",
        "show_banded_columns", "show_banded_rows", "show_filter_button",
        "rows", "columns", "values", "address"})
  @@ "excel.create_chart" :> Takes({"address"},
       {"sheet", "type", "title", "series_by"})
  @@ "excel.update_chart" :> Takes({"chart", "action"},
       {"sheet", "title", "visible", "position", "overlay", "axis",
        "axis_group", "title_visible", "address", "series_by", "start_cell",
        "end_cell", "width", "height", "fitting_mode"})
  @@ "excel.create_pivot_table" :> Takes({"destination"},
       {"sheet", "address", "table", "name"})
  @@ "excel.update_pivot_table" :> Takes({"pivot_table", "action"},
       {"axis", "hierarchy", "field", "summarize_by", "number_format",
        "layout_type", "show_column_grand_totals", "show_row_grand_totals",
        "selected_items", "values"})
  @@ "excel.insert_image" :> Takes({"image"},
       {"sheet", "left_pt", "top_pt", "width_pt", "height_pt", "alt_text",
        "validate_only"})
  @@ "excel.list_shapes" :> Takes({}, {"sheet"})
  @@ "excel.update_shape" :> Takes({"shape_id", "action"},
       {"sheet", "left_pt", "top_pt", "width_pt", "height_pt", "alt_text",
        "text", "z_order", "validate_only"})

\* PowerPoint: presentation, slides and new shapes.
PowerPointSlideSpecs ==
     "powerpoint.get_presentation_info" :> Takes({}, {"include_selection"})
  @@ "powerpoint.export_file" :> Takes({}, {"format", "slice_size"})
  @@ "powerpoint.update_tags" :> Takes({}, {"action", "key", "value"})
  @@ "powerpoint.list_slides" :> Takes({}, {"include_tags"})
  @@ "powerpoint.add_slide" :> Takes({},
       {"layout", "title", "content", "title_box", "content_box"})
  @@ "powerpoint.update_slide" :> Takes({},
       {"slide_id", "slide_index", "action", "tags", "hidden",
        "background_color"})
  @@ "powerpoint.delete_slide" :> Takes({},
       {"slide_id", "slide_index", "format"})
  @@ "powerpoint.move_slide" :> Takes({"target_index"},
       {"slide_id", "slide_index"})
  @@ "powerpoint.export_slide" :> Takes({},
       {"slide_id", "slide_index", "format"})
  @@ "powerpoint.list_layouts" :> Takes({}, {})
  @@ "powerpoint.apply_layout" :> Takes({},
       {"slide_id", "slide_index", "layout_id", "layout_name", "layout_type"})
  @@ "powerpoint.get_selection" :> Takes({}, {})
  @@ "powerpoint.set_selection" :> Takes({},
       {"slide_id", "slide_index", "shape_id", "text_range"})
  @@ "powerpoint.list_shapes" :> Takes({}, {"slide_id", "slide_index"})
  @@ "powerpoint.add_shape" :> Takes({"shape_type"},
       {"slide_id", "slide_index", "text", "left", "top", "width", "height",
        "name"})
  @@ "powerpoint.insert_image" :> Takes({},
       {"slide_id", "slide_index", "image", "base64", "left", "top", "width",
        "height", "alt_text"})

\* PowerPoint: shapes, text and tables.
PowerPointShapeSpecs ==
     "powerpoint.update_shape" :> Takes({"action"},
       {"slide_id", "slide_index", "shape_id", "shape_ids", "name", "left",
        "top", "width", "height", "rotation", "alt_text_title",
        "alt_text_description", "is_decorative", "visible", "fill_color",
        "fill_transparency", "clear_fill", "line_color", "line_weight",
        "line_transparency", "line_visible", "z_order"})
  @@ "powerpoint.read_text" :> Takes({},
       {"slide_id", "slide_index", "shape_id", "offset", "limit"})
  @@ "powerpoint.replace_text" :> Takes({"find", "replace"},
       {"slide_id", "slide_index", "shape_id", "match_case", "all"})
  @@ "powerpoint.format_text" :> Takes({},
       {"slide_id", "slide_index", "shape_id", "bold", "italic", "underline",
        "font_color", "font_size", "font_name"})
  @@ "powerpoint.add_table" :> Takes({},
       {"slide_id", "slide_index", "rows", "columns", "values", "left", "top",
        "width", "height"})
  @@ "powerpoint.read_table" :> Takes({},
       {"slide_id", "slide_index", "shape_id"})
  @@ "powerpoint.update_table" :> Takes({"action"},
       {"slide_id", "slide_index", "shape_id", "values", "row_index",
        "column_index", "row_indices", "column_indices", "row_count",
        "column_count", "count", "value", "all", "text", "format", "style"})

CatalogSpecs ==
  ManagementSpecs @@ WordTextSpecs @@ WordMediaSpecs @@ WordLayoutSpecs
  @@ WordStyleSpecs @@ WordReviewSpecs @@ ExcelWorkbookSpecs @@ ExcelRangeSpecs
  @@ ExcelObjectSpecs @@ PowerPointSlideSpecs @@ PowerPointShapeSpecs

-----------------------------------------------------------------------------
(* property_schema: the arguments with an enum, by tool.  The helpers are   *)
(* asked in turn and the first that answers decides.                        *)

WordFieldEnums ==
     "word.insert_field" :> [field_type |-> {"toc", "page", "num_pages", "date",
       "time", "ref", "hyperlink", "seq", "styleref"}]
  @@ "word.update_field" :>
       [action |-> {"refresh", "refresh_all", "lock", "unlock"}]

WordStyleEnums ==
  [t \in {"word.list_styles", "word.create_style", "word.update_style"} |->
     [type |-> {"paragraph", "character", "table", "list"}]]

WordReviewEnums ==
     "word.update_tracked_change" :>
       [action |-> {"accept", "reject", "accept_all", "reject_all"}]
  @@ "word.update_comment" :>
       [action |-> {"reply", "edit", "resolve", "reopen", "delete"}]
  @@ "word.set_change_tracking" :>
       [mode |-> {"off", "track_all", "track_mine_only"}]

WordTableEnums ==
  "word.update_table" :> [action |->
    {"update_cell", "add_row", "add_column", "format_cell", "delete",
     "delete_row", "delete_column", "merge_cells", "set_column_width",
     "distribute_columns", "set_borders", "set_header_row"}]

WordImageEnums ==
  [t \in {"word.list_images", "word.get_image", "word.update_image"} |->
     [action |-> {"resize", "set_alt_text", "set_hyperlink", "replace", "delete"}]]

WordShapeEnums ==
     "word.list_shapes" :> [scope |-> {"body", "paragraph", "anchor"}]
  @@ "word.insert_shape" :> [shape_type |-> {"text_box", "rectangle", "ellipse",
       "rounded_rectangle", "line", "picture"}]
  @@ "word.update_shape" :>
       [action |-> {"move", "resize", "set_text", "set_alt_text", "set_fill",
                    "set_line", "set_wrap", "set_visibility"},
        wrap_type |-> {"inline", "square", "tight", "behind", "front",
                       "top_bottom"}]

\* header_footer_type has its enum whatever the tool.
HeaderFooterTypes == {"primary", "first_page", "even_pages"}

WordHeaderFooterEnums ==
     "word.get_header_footer" :> [location |-> {"header", "footer"}]
  @@ "word.update_header_footer" :>
       [location |-> {"header", "footer"},
        action |-> {"set_text", "append_paragraph", "clear"}]

WordNoteEnums ==
  [t \in {"word.insert_note", "word.list_notes", "word.update_note",
          "word.delete_note"} |-> [kind |-> {"footnote", "endnote"}]]

WordListEnums ==
  "word.update_list" :>
    [action |-> {"add_item", "set_item_level", "attach_paragraph",
                 "detach_paragraph", "set_level_format"},
     position |-> {"start", "end", "after_paragraph"},
     numbering |-> {"bullet", "arabic", "upper_roman", "lower_roman",
                    "upper_letter", "lower_letter", "none"}]

WordHtmlEnums ==
  "word.insert_html" :>
    [insert_location |-> {"replace", "before", "after", "start", "end"}]

WordContentControlEnums ==
  [t \in {"word.list_content_controls", "word.insert_content_control",
          "word.update_content_control"} |->
     [type |-> {"rich_text", "plain_text", "checkbox", "dropdown_list",
                "combo_box"}]]

PowerPointShapeEnums ==
  "powerpoint.add_shape" :> [shape_type |->
    {"text_box", "rectangle", "ellipse", "rounded_rectangle", "line"}]

ExcelActionEnums ==
     "excel.update_table" :> {"metadata", "read", "add_rows", "add_columns",
       "resize", "rename", "options", "style", "delete"}
  @@ "excel.update_named_item" :> {"add", "edit", "delete"}
  @@ "excel.update_comment" :> {"reply", "edit", "resolve", "reopen", "delete"}
  @@ [t \in {"excel.set_hyperlink", "excel.set_data_validation"} |->
        {"set", "clear"}]
  @@ "excel.copy_range" :> {"copy", "autofill"}
  @@ "excel.update_conditional_format" :> {"add", "delete", "clear_range"}
  @@ "excel.update_shape" :> {"move", "resize", "set_alt_text", "set_text",
       "set_z_order", "delete"}
  @@ "excel.update_chart" :> {"metadata", "read", "title", "legend", "axis",
       "data", "series_source", "position", "size", "export_image", "delete"}
  @@ "excel.update_pivot_table" :> {"metadata", "read", "refresh",
       "add_hierarchy", "remove_hierarchy", "layout", "filter",
       "clear_filters", "delete"}

ExcelRangeEnums ==
     "excel.calculate" :> [type |-> {"recalculate", "full", "full_rebuild"}]
  @@ "excel.list_named_items" :> [scope |-> {"workbook", "sheet", "all"}]
  @@ "excel.update_named_item" :> [scope |-> {"workbook", "sheet"}]
  @@ "excel.copy_range" :>
       [copy_type |-> {"all", "values", "formulas", "formats", "link"},
        autofill_type |-> {"default", "copy", "series", "formats", "values",
                           "flash_fill"}]
  @@ "excel.update_range_structure" :>
       [action |-> {"insert", "delete"},
        shift |-> {"down", "right", "up", "left"}]
  @@ "excel.clear_range" :> [apply_to |-> {"contents", "formats", "all"}]
  @@ "excel.format_range" :> [merge |-> {"merge", "merge_across", "unmerge"}]

ExcelShapeEnums ==
  "excel.update_shape" :>
    [z_order |-> {"bring_forward", "send_backward", "bring_to_front",
                  "send_to_back"}]

PowerPointActionEnums ==
     "powerpoint.update_tags" :> {"list", "set", "delete"}
  @@ "powerpoint.update_shape" :> {"move", "resize", "rotate", "rename",
       "set_alt_text", "set_fill", "set_line", "set_z_order", "group",
       "ungroup", "delete"}
  @@ "powerpoint.update_table" :> {"set_values", "set_cell", "add_rows",
       "delete_rows", "add_columns", "delete_columns", "merge_cells",
       "split_cell", "clear", "style", "delete"}

\* The kinds of anchor the daemon knows; every tool lists the same.
AnchorKinds ==
  {"selection", "start_of_document", "end_of_document", "paragraph_index",
   "before_paragraph_index", "after_paragraph_index", "before_text",
   "after_text", "heading", "bookmark"}

\* What is left for arguments no helper answered for.
OtherEnum(t, key) ==
  CASE key = "anchor" -> AnchorKinds
    [] key = "mode" /\ t = "word.set_selection" ->
         {"select", "cursor_start", "cursor_end"}
    [] key = "placement" /\ t = "word.insert_image" ->
         {"inline", "before_paragraph", "after_paragraph",
          "new_paragraph_before", "new_paragraph_after", "replace_paragraph",
          "selection"}
    [] key = "break_type" ->
         {"page", "line", "section_next", "section_continuous", "section_even",
          "section_odd"}
    [] key = "orientation" -> {"portrait", "landscape"}
    [] OTHER -> {}

HelperEnums ==
  <<WordFieldEnums, WordStyleEnums, WordReviewEnums, WordTableEnums,
    WordImageEnums, WordShapeEnums, WordHeaderFooterEnums, WordNoteEnums,
    WordListEnums, WordHtmlEnums, WordContentControlEnums, PowerPointShapeEnums,
    [t \in DOMAIN ExcelActionEnums |-> [action |-> ExcelActionEnums[t]]],
    ExcelRangeEnums, ExcelShapeEnums,
    [t \in DOMAIN PowerPointActionEnums |->
       [action |-> PowerPointActionEnums[t]]]>>

\* The values a schema lists for an argument; none if it lists no values.
EnumOf(helpers, t, key) ==
  LET answering == {i \in DOMAIN helpers :
                      t \in DOMAIN helpers[i] /\ key \in DOMAIN helpers[i][t]}
      First == CHOOSE i \in answering : \A j \in answering : i <= j
  IN  IF answering # {} THEN helpers[First][t][key]
      ELSE IF key = "header_footer_type" THEN HeaderFooterTypes
      ELSE OtherEnum(t, key)

CatalogEnums ==
  LET specs == CatalogSpecs
      helpers == HelperEnums
      Listed(t) == {k \in specs[t].properties : EnumOf(helpers, t, k) # {}}
  IN  [t \in DOMAIN specs |-> [k \in Listed(t) |-> EnumOf(helpers, t, k)]]

-----------------------------------------------------------------------------
(* The example calls the daemon gives with a tool's contract *)

\* Arguments with a few values that matter, and any value for the others.
AnyValue == "any value"
Args(names, values) == values @@ [k \in {"session_id"} \cup names |-> AnyValue]

TableAndImageExamples ==
     "office.describe_tools" :> [tools |-> AnyValue]
  @@ "word.insert_image" :>
       Args({"image", "alt_text", "width_pt"},
            [anchor |-> "after_paragraph_index",
             placement |-> "new_paragraph_after"])
  @@ "word.delete_range" :> Args({}, [anchor |-> "before_text"])
  @@ "word.update_table" :>
       Args({"table_index", "row_range", "col_range"}, [action |-> "merge_cells"])
  @@ "excel.update_table" :> Args({"table", "values"}, [action |-> "add_rows"])
  @@ "powerpoint.update_table" :>
       Args({"slide_index", "shape_id", "row_index", "column_index", "text"},
            [action |-> "set_cell_text"])

ContentControlExamples ==
     "word.insert_content_control" :>
       Args({"text", "tag", "title"}, [anchor |-> "end_of_document"])
  @@ "word.update_content_control" :>
       Args({"content_control_id", "text", "tag"}, <<>>)
  @@ "word.delete_content_control" :>
       Args({"content_control_id", "delete_contents"}, <<>>)

DocumentPropertyExamples ==
     [t \in {"word.get_document_properties", "excel.get_document_properties"} |->
        Args({"include_custom"}, <<>>)]
  @@ [t \in {"word.update_document_properties",
             "excel.update_document_properties"} |->
        Args({"title", "custom_set"}, <<>>)]

StyleExamples ==
     "word.list_styles" :> Args({}, [type |-> "paragraph"])
  @@ "word.create_style" :>
       Args({"name", "font", "paragraph"}, [type |-> "paragraph"])
  @@ "word.update_style" :> Args({"name", "font"}, <<>>)

HyperlinkExamples ==
     "word.insert_hyperlink" :> Args({"text", "url"}, [anchor |-> "after_text"])
  @@ "word.list_hyperlinks" :> Args({"offset", "limit"}, <<>>)
  @@ "word.remove_hyperlink" :> Args({"keep_text"}, [anchor |-> "after_text"])

BookmarkExamples ==
     "word.insert_bookmark" :> Args({"name"}, [anchor |-> "heading"])
  @@ "word.list_bookmarks" :> Args({}, <<>>)
  @@ "word.delete_bookmark" :> Args({"name"}, <<>>)

NoteExamples ==
     "word.insert_note" :>
       Args({"text"}, [kind |-> "footnote", anchor |-> "after_text"])
  @@ "word.list_notes" :> Args({"offset", "limit"}, [kind |-> "footnote"])
  @@ "word.update_note" :> Args({"index", "text"}, [kind |-> "endnote"])
  @@ "word.delete_note" :> Args({"index"}, [kind |-> "footnote"])

FieldExamples ==
     "word.list_fields" :> Args({"offset", "limit"}, <<>>)
  @@ "word.insert_field" :>
       Args({}, [anchor |-> "start_of_document", field_type |-> "toc"])
  @@ "word.update_field" :> Args({"expected_count"}, [action |-> "refresh_all"])
  @@ "word.delete_field" :> Args({"field_index"}, <<>>)

CatalogExamples ==
  TableAndImageExamples @@ ContentControlExamples @@ DocumentPropertyExamples
  @@ StyleExamples @@ HyperlinkExamples @@ BookmarkExamples @@ NoteExamples
  @@ FieldExamples
=============================================================================
