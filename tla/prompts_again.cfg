CONSTANTS
  StringChars = {"a", "p", "0", "1"}
  Keys = {"v", "n", "a", "p", "b", "s", "q", "x"}
  Words = {"and", "or", "xor", "nand"}
  Lines <- MCFewLines
  MoreLines <- MCFewLines
SPECIFICATION FairSpec
PROPERTIES
  PromptsAgain
