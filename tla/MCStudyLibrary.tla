--------------------------- MODULE MCStudyLibrary ---------------------------
EXTENDS StudyLibrary
\* A question with a correct letter and one whose Correct line is missing.
MCCorrect == <<"A", "">>
MCFilters == {{1, 2}, {1}}
=============================================================================
