------------------------- MODULE ActionSuggestions -------------------------
(***************************************************************************)
(* The action types of the application, the table that maps a detected     *)
(* content type to the actions it suggests, and the view model's division  *)
(* of the action types into local ones and ones that call the AI engine.   *)
(***************************************************************************)

ContentTypes ==
  {"URL", "EMAIL", "PHONE_NUMBER", "MATHEMATICS", "CODE", "QUESTION",
   "STUDY_MATERIAL", "MESSAGE", "LONG_TEXT", "NORMAL_TEXT", "UNKNOWN"}

ActionTypes ==
  {"CALCULATE", "COPY", "OPEN_URL", "COMPOSE_EMAIL", "CALL", "EXPLAIN",
   "SUMMARIZE", "SIMPLIFY", "REWRITE_CONCISE", "REWRITE_FRIENDLY",
   "REWRITE_PROFESSIONAL", "REWRITE_CASUAL", "REWRITE_CLEAR", "REPLY",
   "SHOW_STEPS", "PREPARE_ANSWER", "GENERATE_STUDY_QUESTIONS", "FLASHCARDS",
   "QUIZ", "FOLLOW_UP"}

(* The suggestions for text of a detected type; academic says whether      *)
(* isAcademicQuestion holds of the text.                                   *)
Suggestions(type, academic) ==
  CASE type = "URL"            -> {"OPEN_URL", "COPY"}
    [] type = "EMAIL"          -> {"COMPOSE_EMAIL", "COPY"}
    [] type = "PHONE_NUMBER"   -> {"CALL", "COPY"}
    [] type = "MATHEMATICS"    -> {"CALCULATE", "SHOW_STEPS"}
    [] type = "QUESTION"       ->
         {"PREPARE_ANSWER", "COPY"} \cup
           (IF academic
              THEN {"EXPLAIN", "GENERATE_STUDY_QUESTIONS", "FLASHCARDS",
                    "QUIZ", "SIMPLIFY", "SUMMARIZE"}
              ELSE {})
    [] type = "STUDY_MATERIAL" ->
         {"EXPLAIN", "SUMMARIZE", "SIMPLIFY", "GENERATE_STUDY_QUESTIONS",
          "FLASHCARDS", "QUIZ"}
    [] type = "MESSAGE"        ->
         {"REPLY", "REWRITE_FRIENDLY", "REWRITE_PROFESSIONAL",
          "REWRITE_CASUAL"}
    [] type = "CODE"           -> {"EXPLAIN", "COPY"}
    [] type \in {"LONG_TEXT", "NORMAL_TEXT"} ->
         {"SUMMARIZE", "REWRITE_CONCISE", "REWRITE_CLEAR", "COPY"}
    [] type = "UNKNOWN"        -> {}

(* The types the view model executes without asking the AI engine; every   *)
(* other type is an AI action (ClipboardViewModel.isAiAction).             *)
LocalActionTypes ==
  {"COPY", "OPEN_URL", "CALL", "CALCULATE", "SHOW_STEPS", "COMPOSE_EMAIL"}

AiActionTypes == ActionTypes \ LocalActionTypes

(* The types ActionHandler.handleAction answers through the AI engine.     *)
EngineActionTypes ==
  {"PREPARE_ANSWER", "EXPLAIN", "SUMMARIZE", "SIMPLIFY", "REPLY",
   "REWRITE_CONCISE", "REWRITE_FRIENDLY", "REWRITE_PROFESSIONAL",
   "REWRITE_CASUAL", "REWRITE_CLEAR", "GENERATE_STUDY_QUESTIONS",
   "FLASHCARDS", "QUIZ"}
============================================================================
