\* Abbreviations of up to five lexemes over words of most kinds, and of up to four over all.
CONSTANTS
  MCFrequent = {"ul*2", "b.x$&*2", "dl", "text.big", "input:t#i&*2", "p*0", "!"}
  Words <- MCWords
  Core <- MCCore
  Inputs <- MCInputs
  MaxLexemes = 5
  MaxLexemesOfAll = 4
SPECIFICATION Spec
CHECK_DEADLOCK FALSE
INVARIANTS TypeOK TreeSound CaretsLevel CreatedAsSpecified OutputNumbered AttributesAsWritten PageReadsBack ErrorsExplained
