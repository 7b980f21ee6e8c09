--------------------------- MODULE MCSessionSetup ----------------------------
(* Descriptions, files and permissions for SessionSetup: every template    *)
(* with its defaults, each way through the router, and scaled encoders     *)
(* whose size needs rounding.                                              *)
EXTENDS SessionSetup

MCDescriptions ==
  {FromTemplate(id) : id \in TemplateIds}
    \cup {[FromTemplate("transcode") EXCEPT !.fps_num = 60],
          [FromTemplate("transcode") EXCEPT !.codec = "h264",
                                            !.enc_scale_denom = 4],
          [FromTemplate("encode") EXCEPT !.policy = "quality",
             !.width = 34, !.height = 18, !.enc_scale_denom = 3]}

MCFiles == {[codec |-> "h264", width |-> 1920, height |-> 1080],
            [codec |-> "other", width |-> 1920, height |-> 1080],
            [codec |-> "av1", width |-> 1280, height |-> 720]}

MCGrants == {{"heap_dir", "default_heap", "drm"},
             {"codec", "heap_dir", "default_heap"},
             {"codec", "heap_dir", "cma_heap", "drm"},
             {"codec", "ion"}}

=============================================================================
